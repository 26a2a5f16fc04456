-------------------------- MODULE QueuedWriteProofs --------------------------
(***************************************************************************)
(* Proofs about the two components that write what others have queued.     *)
(* PipeServer, for every limit and any number of senders: the queue stays  *)
(* within its limit, snapshots are coalesced but for the one that was put  *)
(* back, and important messages are written in the order in which they     *)
(* were accepted.  DiagnosticReports, for any transfers, sizes and limits: *)
(* the reports on the phone are whole and never go back, pruning keeps     *)
(* them within their limits, and the end of a transfer writes all of its   *)
(* report.                                                                 *)
(***************************************************************************)
EXTENDS PipeServer, DiagnosticReports, SequenceTheorems, FiniteSetTheorems,
        WellFoundedInduction, TLAPS

\* A leaf is for Zenon, with a minute of time, unless it names SMT.
USE ZenonT(60)

\* The facts the two properties rest on: the popped message is held from the pop to
\* the end of the write, and while it is held the queue has no two snapshots of one
\* type, so that putting it back makes at most one pair, with the first message.
PipeInv ==
  /\ TypeOK
  /\ pc \in {"popped", "writing", "requeue"} <=> inFlight # None
  /\ QueueBounded
  /\ SnapshotsAtMostTwice

\* A set of natural numbers that is not empty has a least element.
LEMMA LeastNumber ==
  ASSUME NEW I \in SUBSET Nat, I # {}
  PROVE  \E x \in I : \A y \in I : x <= y
<1> DEFINE R == OpToRel(<, Nat)
<1>1. \E x \in I : \A y \in I : <<y, x>> \notin R
  <2> HIDE DEF R
  <2>1. IsWellFoundedOn(R, Nat) BY NatLessThanWellFounded DEF R
  <2> QED BY <2>1, WFMin
<1>2. PICK x \in I : \A y \in I : <<y, x>> \notin R
  BY <1>1
<1>3. ASSUME NEW y \in I PROVE ~(y < x)
  BY <1>2, <1>3 DEF OpToRel
<1>4. \A y \in I : x <= y BY SMTT(60), <1>3
<1> QED BY <1>4

\* Induction: what holds of 0 and goes on from each number to the next holds up to n.
LEMMA CountUp ==
  ASSUME NEW n \in Nat, NEW S, 0 \in S, \A i \in 0 .. n - 1 : i \in S => i + 1 \in S
  PROVE  \A i \in 0 .. n : i \in S
<1> SUFFICES ASSUME NEW j \in 0 .. n, j \notin S PROVE FALSE
  OBVIOUS
<1> DEFINE I == {i \in 0 .. n : i \notin S}
<1>1. I \in SUBSET Nat /\ I # {}
  BY SMTT(60)
<1>2. PICK x \in I : \A y \in I : x <= y
  <2> HIDE DEF I
  <2> QED BY <1>1, LeastNumber
<1>3. x # 0 /\ x - 1 \in 0 .. n - 1 /\ (x - 1) + 1 = x
  BY SMTT(60)
<1>4. x - 1 \in S
  BY SMTT(60), <1>2, <1>3
<1> QED BY <1>3, <1>4

\* What find_if returns: 0, or the position of a message of these types.
LEMMA FirstOfType ==
  ASSUME NEW T, queue \in Seq(Messages)
  PROVE  /\ FirstOf(T) \in 0 .. Len(queue)
         /\ FirstOf(T) # 0 => queue[FirstOf(T)].type \in T
         /\ FirstOf(T) = 0 => \A i \in 1 .. Len(queue) : queue[i].type \notin T
<1> DEFINE I == {i \in DOMAIN queue : queue[i].type \in T}
<1>1. FirstOf(T) = IF I = {} THEN 0 ELSE CHOOSE i \in I : \A j \in I : i <= j
  BY DEF FirstOf
<1>2. DOMAIN queue = 1 .. Len(queue) /\ I \in SUBSET Nat
  BY SMTT(60)
<1>3. I # {} => (CHOOSE i \in I : \A j \in I : i <= j) \in I
  <2> HIDE DEF I
  <2> QED BY <1>2, LeastNumber
<1>4. CASE I = {} BY SMTT(60), <1>1, <1>2, <1>4
<1>5. CASE I # {}
  <2>1. FirstOf(T) \in I BY <1>1, <1>3, <1>5
  <2> QED BY SMTT(60), <1>2, <2>1
<1> QED BY <1>4, <1>5

\* Erasing one message moves those behind it up by one.
LEMMA WithoutFacts ==
  ASSUME NEW q \in Seq(Messages), NEW k \in 1 .. Len(q)
  PROVE  /\ Without(q, k) \in Seq(Messages)
         /\ Len(Without(q, k)) = Len(q) - 1
         /\ \A i \in 1 .. Len(q) - 1 : Without(q, k)[i] = IF i < k THEN q[i] ELSE q[i + 1]
<1> DEFINE a == SubSeq(q, 1, k - 1)
           b == SubSeq(q, k + 1, Len(q))
<1>1. /\ a \in Seq(Messages) /\ Len(a) = k - 1
      /\ \A i \in 1 .. k - 1 : a[i] = q[i]
  BY SMTT(60)
<1>2. /\ b \in Seq(Messages) /\ Len(b) = Len(q) - k
      /\ \A i \in 1 .. Len(q) - k : b[i] = q[i + k]
  BY SMTT(60)
<1>3. Without(q, k) = a \o b BY DEF Without
<1> HIDE DEF a, b
<1>4. /\ a \o b \in Seq(Messages) /\ Len(a \o b) = Len(a) + Len(b)
      /\ \A i \in 1 .. Len(a) + Len(b) :
           (a \o b)[i] = IF i <= Len(a) THEN a[i] ELSE b[i - Len(a)]
  BY <1>1, <1>2, ConcatProperties
<1>5. Len(a) + Len(b) = Len(q) - 1 BY SMTT(60), <1>1, <1>2
<1>6. ASSUME NEW i \in 1 .. Len(q) - 1
      PROVE  (a \o b)[i] = IF i < k THEN q[i] ELSE q[i + 1]
  <2>1. CASE i < k BY SMTT(60), <2>1, <1>1, <1>4, <1>5
  <2>2. CASE ~(i < k)
    <3>1. i - Len(a) \in 1 .. Len(q) - k /\ (i - Len(a)) + k = i + 1 BY SMTT(60), <2>2, <1>1
    <3>2. (a \o b)[i] = b[i - Len(a)] BY SMTT(60), <2>2, <1>1, <1>4, <1>5
    <3> QED BY <2>2, <3>1, <3>2, <1>2
  <2> QED BY <2>1, <2>2
<1> QED BY <1>3, <1>4, <1>5, <1>6

\* Two snapshots of one type wait at positions i and j.
Twice(q, i, j) ==
  /\ i \in 1 .. Len(q) /\ j \in 1 .. Len(q) /\ i < j
  /\ q[i].type \in Snapshots /\ q[i].type = q[j].type

\* sendMessage: the queue grows only while a slot stays free, and a pair of snapshots
\* in it is one that was there before, not farther from the front.
LEMMA EnqueueFacts ==
  ASSUME queue \in Seq(Messages), accepted \in Seq(Messages),
         NEW m \in Messages, Enqueue(m)
  PROVE  /\ queue' \in Seq(Messages) /\ accepted' \in Seq(Messages)
         /\ Len(queue') <= Len(queue) \/ Len(queue') <= MaxQueuedMessages - 1
         /\ \A i, j \in Nat : Twice(queue', i, j) =>
              \E a, b \in Nat : i <= a /\ Twice(queue, a, b)
<1> USE PipeAssumption
<1>1. CASE PendingAlready(m)
  <2> DEFINE k == FirstOf({m.type})
  <2>1. k \in 1 .. Len(queue) /\ queue[k].type = m.type
    BY SMTT(60), <1>1, FirstOfType DEF PendingAlready
  <2> HIDE DEF k
  <2>2. queue' = [queue EXCEPT ![k] = m] /\ accepted' = accepted
    BY <1>1 DEF Enqueue, k
  <2>3. /\ queue' \in Seq(Messages) /\ Len(queue') = Len(queue)
        /\ \A i \in 1 .. Len(queue) : queue'[i].type = queue[i].type
    BY SMTT(60), <2>1, <2>2
  <2>4. \A i, j \in Nat : Twice(queue', i, j) => Twice(queue, i, j)
    BY <2>3 DEF Twice
  <2>5. ASSUME NEW i \in Nat, NEW j \in Nat, Twice(queue', i, j)
        PROVE  \E a, b \in Nat : i <= a /\ Twice(queue, a, b)
    <3>1. i <= i /\ Twice(queue, i, j) BY SMTT(60), <2>4, <2>5
    <3> QED BY <3>1
  <2>6. /\ queue' \in Seq(Messages) /\ accepted' \in Seq(Messages)
        /\ Len(queue') <= Len(queue)
    BY SMTT(60), <2>2, <2>3
  <2> QED BY <2>5, <2>6
<1>2. CASE UNCHANGED <<queue, accepted>>
  BY SMTT(60), <1>2 DEF Twice
<1>3. CASE ~PendingAlready(m) /\ ~UNCHANGED <<queue, accepted>>
  <2> DEFINE q == IF Full THEN Without(queue, Disposable) ELSE queue
  <2>1. Push(q, m) /\ (Full => Disposable # 0)
    BY <1>3 DEF Enqueue
  <2>2. Disposable \in 0 .. Len(queue) BY FirstOfType DEF Disposable
  <2>3. /\ q \in Seq(Messages)
        /\ Len(q) = IF Full THEN Len(queue) - 1 ELSE Len(queue)
    <3>1. CASE Full
      <4>1. Disposable \in 1 .. Len(queue) BY SMTT(60), <3>1, <2>1, <2>2
      <4> QED BY <3>1, <4>1, WithoutFacts
    <3>2. CASE ~Full BY <3>2
    <3> QED BY <3>1, <3>2
  <2>4. \A i \in 1 .. Len(q) : \E a \in 1 .. Len(queue) :
          a = (IF Full /\ i >= Disposable THEN i + 1 ELSE i) /\ q[i] = queue[a]
    <3>1. CASE Full
      <4>1. Disposable \in 1 .. Len(queue) BY SMTT(60), <3>1, <2>1, <2>2
      <4>2. \A i \in 1 .. Len(queue) - 1 :
              q[i] = IF i < Disposable THEN queue[i] ELSE queue[i + 1]
        BY <3>1, <4>1, WithoutFacts
      <4>3. Len(q) = Len(queue) - 1 BY <3>1, <2>3
      <4> HIDE DEF q
      <4> QED BY SMTT(60), <3>1, <4>1, <4>2, <4>3
    <3>2. CASE ~Full BY <3>2, <2>3
    <3> QED BY <3>1, <3>2
  <2> HIDE DEF q
  <2>5. /\ queue' \in Seq(Messages) /\ Len(queue') = Len(q) + 1
        /\ \A i \in 1 .. Len(q) : queue'[i] = q[i]
        /\ queue'[Len(q) + 1] = m
        /\ accepted' \in Seq(Messages)
    BY SMTT(60), <2>1, <2>3 DEF Push
  <2>6. Len(queue') <= Len(queue) \/ Len(queue') <= MaxQueuedMessages - 1
    BY SMTT(60), <2>3, <2>5 DEF Full
  <2>7. ASSUME NEW i \in Nat, NEW j \in Nat, Twice(queue', i, j)
        PROVE  \E a, b \in Nat : i <= a /\ Twice(queue, a, b)
    <3>1. i \in 1 .. Len(q) BY SMTT(60), <2>7, <2>3, <2>5 DEF Twice
    <3>2. j \in 1 .. Len(q)
      <4>1. SUFFICES ASSUME j = Len(q) + 1 PROVE FALSE
        BY SMTT(60), <2>7, <2>3, <2>5 DEF Twice
      <4>2. m.type \in Snapshots /\ q[i].type = m.type
        BY <4>1, <3>1, <2>7, <2>5 DEF Twice
      <4>3. \A a \in 1 .. Len(queue) : queue[a].type # m.type
        BY <1>3, <4>2, FirstOfType DEF PendingAlready
      <4> QED BY <4>2, <4>3, <3>1, <2>4
    <3>3. PICK a \in 1 .. Len(queue) :
             a = (IF Full /\ i >= Disposable THEN i + 1 ELSE i) /\ q[i] = queue[a]
      BY <3>1, <2>4
    <3>4. PICK b \in 1 .. Len(queue) :
             b = (IF Full /\ j >= Disposable THEN j + 1 ELSE j) /\ q[j] = queue[b]
      BY <3>2, <2>4
    <3>5. i <= a /\ a < b
      BY SMTT(60), <2>2, <2>7, <3>3, <3>4 DEF Twice
    <3>6. queue[a].type \in Snapshots /\ queue[a].type = queue[b].type
      BY <2>7, <2>5, <3>1, <3>2, <3>3, <3>4 DEF Twice
    <3> QED BY SMTT(60), <3>5, <3>6 DEF Twice
  <2> QED BY <2>5, <2>6, <2>7
<1> QED BY <1>1, <1>2, <1>3

\* A queue whose pairs of snapshots are those of another, or nearer to its front,
\* keeps the property of the other.
LEMMA PairsStayInFront ==
  ASSUME TypeOK, queue' \in Seq(Messages), SnapshotsAtMostTwice, inFlight' = inFlight,
         \A i, j \in Nat : Twice(queue', i, j) =>
           \E a, b \in Nat : i <= a /\ Twice(queue, a, b)
  PROVE  SnapshotsAtMostTwice'
<1> SUFFICES ASSUME NEW i \in 1 .. Len(queue'), NEW j \in 1 .. Len(queue'),
                    i < j, queue'[i].type = queue'[j].type, queue'[i].type \in Snapshots
             PROVE  i = 1 /\ inFlight' = None
  BY DEF SnapshotsAtMostTwice
<1>1. Twice(queue', i, j) BY DEF Twice
<1>2. PICK a \in Nat, b \in Nat : i <= a /\ Twice(queue, a, b)
  BY SMTT(60), <1>1
<1>3. a = 1 /\ inFlight = None
  BY <1>2 DEF Twice, SnapshotsAtMostTwice
<1> QED BY SMTT(60), <1>2, <1>3

\* The part of sendMessage under the queue mutex keeps the invariant.
LEMMA EnqueueKeeps ==
  ASSUME PipeInv, NEW m \in Messages, Enqueue(m), inFlight' = inFlight
  PROVE  /\ queue' \in Seq(Messages) /\ accepted' \in Seq(Messages)
         /\ QueueBounded' /\ SnapshotsAtMostTwice'
<1>1. queue \in Seq(Messages) /\ accepted \in Seq(Messages)
  BY DEF PipeInv, TypeOK
<1>2. /\ queue' \in Seq(Messages) /\ accepted' \in Seq(Messages)
      /\ Len(queue') <= Len(queue) \/ Len(queue') <= MaxQueuedMessages - 1
  BY <1>1, EnqueueFacts
<1>3. QueueBounded'
  BY SMTT(60), <1>1, <1>2, PipeAssumption DEF PipeInv, QueueBounded, Waiting
<1>4. SnapshotsAtMostTwice'
  <2>1. \A i, j \in Nat : Twice(queue', i, j) =>
           \E a, b \in Nat : i <= a /\ Twice(queue, a, b)
    BY <1>1, EnqueueFacts
  <2>2. TypeOK /\ SnapshotsAtMostTwice BY DEF PipeInv
  <2> QED BY <1>2, <2>1, <2>2, PairsStayInFront
<1> QED BY <1>2, <1>3, <1>4

\* The queue and the popped message are left alone.
LEMMA QueueFrame ==
  ASSUME QueueBounded, SnapshotsAtMostTwice, queue' = queue, inFlight' = inFlight
  PROVE  QueueBounded' /\ SnapshotsAtMostTwice'
BY DEF QueueBounded, Waiting, SnapshotsAtMostTwice

\* Popping takes the only message that may have a partner behind it.
LEMMA PopKeeps ==
  ASSUME PipeInv, queue # <<>>, queue' = Tail(queue), inFlight' = Head(queue),
         inFlight = None
  PROVE  /\ queue' \in Seq(Messages) /\ inFlight' \in Messages /\ inFlight' # None
         /\ QueueBounded' /\ SnapshotsAtMostTwice'
<1>1. queue \in Seq(Messages) BY DEF PipeInv, TypeOK
<1>2. /\ queue' \in Seq(Messages) /\ inFlight' \in Messages
      /\ Len(queue') = Len(queue) - 1
      /\ \A i \in 1 .. Len(queue') : queue'[i] = queue[i + 1]
  BY SMTT(60), <1>1
<1>3. inFlight' # None BY <1>2, PipeAssumption DEF Messages
<1>4. QueueBounded'
  BY SMTT(60), <1>1, <1>2, <1>3 DEF PipeInv, QueueBounded, Waiting
<1>5. ASSUME NEW i \in 1 .. Len(queue'), NEW j \in 1 .. Len(queue'),
             i < j, queue'[i].type = queue'[j].type, queue'[i].type \in Snapshots
      PROVE  FALSE
  <2>1. /\ i + 1 \in 1 .. Len(queue) /\ j + 1 \in 1 .. Len(queue) /\ i + 1 < j + 1
        /\ i + 1 # 1
    BY SMTT(60), <1>1, <1>2, <1>5
  <2>2. queue[i + 1].type = queue[j + 1].type /\ queue[i + 1].type \in Snapshots
    BY <1>2, <1>5
  <2> QED BY <2>1, <2>2 DEF PipeInv, SnapshotsAtMostTwice
<1>6. SnapshotsAtMostTwice'
  BY <1>5 DEF SnapshotsAtMostTwice
<1> QED BY <1>2, <1>3, <1>4, <1>6

\* Putting a message back makes pairs with it only.
LEMMA RequeueKeeps ==
  ASSUME PipeInv, inFlight # None, queue' = <<inFlight>> \o queue, inFlight' = None
  PROVE  /\ queue' \in Seq(Messages) /\ QueueBounded' /\ SnapshotsAtMostTwice'
<1>1. queue \in Seq(Messages) /\ inFlight \in Messages BY DEF PipeInv, TypeOK
<1>2. /\ queue' \in Seq(Messages) /\ Len(queue') = Len(queue) + 1
      /\ \A i \in 2 .. Len(queue') : queue'[i] = queue[i - 1]
  <2>1. <<inFlight>> \in Seq(Messages) /\ Len(<<inFlight>>) = 1 BY SMTT(60), <1>1
  <2> QED BY SMTT(60), <1>1, <2>1, ConcatProperties
<1>3. QueueBounded'
  BY SMTT(60), <1>1, <1>2 DEF PipeInv, QueueBounded, Waiting
<1>4. ASSUME NEW i \in 1 .. Len(queue'), NEW j \in 1 .. Len(queue'), i # 1,
             i < j, queue'[i].type = queue'[j].type, queue'[i].type \in Snapshots
      PROVE  FALSE
  <2>1. /\ i - 1 \in 1 .. Len(queue) /\ j - 1 \in 1 .. Len(queue) /\ i - 1 < j - 1
        /\ i \in 2 .. Len(queue') /\ j \in 2 .. Len(queue')
    BY SMTT(60), <1>1, <1>2, <1>4
  <2>2. queue[i - 1].type = queue[j - 1].type /\ queue[i - 1].type \in Snapshots
    BY <1>2, <1>4, <2>1
  <2> QED BY <2>1, <2>2 DEF PipeInv, SnapshotsAtMostTwice
<1>5. SnapshotsAtMostTwice'
  BY <1>4 DEF SnapshotsAtMostTwice
<1> QED BY <1>2, <1>3, <1>5

\* A message that sendMessage makes has the type of a message.
LEMMA MessageType ==
  ASSUME TypeOK, NEW type \in Types
  PROVE  Message(type) \in Messages
BY SMTT(60) DEF TypeOK, Message, Messages

\* The steps that touch neither the queue nor the popped message.
LEMMA FrameStep ==
  ASSUME PipeInv,
         \/ \E s \in Senders, type \in Types : SendMessage(s, type)
         \/ Start \/ LoopTop \/ Listen \/ Accept \/ ConnectFails \/ ProcessIncoming
         \/ StartWrite \/ WriteFails \/ ClosePipe \/ MainStep
         \/ GuiAttach \/ GuiLeave \/ Signal \/ Exited
  PROVE  PipeInv'
<1> DEFINE Held == pc \in {"popped", "writing", "requeue"} <=> inFlight # None
<1>0. TypeOK /\ Held BY DEF PipeInv
<1>1. ASSUME NEW s \in Senders, NEW type \in Types, SendMessage(s, type)
      PROVE  TypeOK' /\ Held' /\ UNCHANGED <<queue, inFlight>>
  BY SMTT(60), <1>0, <1>1, MessageType
  DEF TypeOK, SendMessage, flagVars, threadVars, guiVars
<1>2. ASSUME Start \/ LoopTop PROVE TypeOK' /\ Held' /\ UNCHANGED <<queue, inFlight>>
  <2>1. CASE Start
    BY <1>0, <2>1 DEF TypeOK, Start, Goto, Labels, guiVars
  <2>2. CASE LoopTop
    BY <1>0, <2>2 DEF TypeOK, LoopTop, Goto, Labels, guiVars
  <2> QED BY <1>2, <2>1, <2>2
<1>3. ASSUME Listen \/ Accept \/ ConnectFails
      PROVE  TypeOK' /\ Held' /\ UNCHANGED <<queue, inFlight>>
  <2>1. CASE Listen
    BY <1>0, <2>1 DEF TypeOK, Listen, Goto, Labels, flagVars, guiVars
  <2>2. CASE Accept
    BY <1>0, <2>2 DEF TypeOK, Accept, Goto, Labels, flagVars, guiVars
  <2>3. CASE ConnectFails
    BY SMTT(60), <1>0, <2>3 DEF TypeOK, ConnectFails, Break, Goto, Labels, flagVars, guiVars
  <2> QED BY <1>3, <2>1, <2>2, <2>3
<1>4. ASSUME ProcessIncoming PROVE TypeOK' /\ Held' /\ UNCHANGED <<queue, inFlight>>
  <2>1. UNCHANGED <<queue, inFlight, pending, main, handle, attached, stamps, accepted,
                    delivered>>
    BY <1>4 DEF ProcessIncoming
  <2>2. /\ connected' \in BOOLEAN /\ authenticated' \in BOOLEAN /\ running' \in BOOLEAN
        /\ mRunning' \in BOOLEAN
    BY <1>0, <1>4 DEF ProcessIncoming, TypeOK, flagVars
  <2>3. pc = "serve" /\ pc' \in {"close", "drain", "reply"}
    BY <1>4 DEF ProcessIncoming, Goto
  <2>4. breaks' \in Nat
    <3>1. breaks \in Nat BY <1>0 DEF TypeOK
    <3>2. breaks' = breaks \/ breaks' = breaks + 1
      BY <1>4 DEF ProcessIncoming, Break
    <3> QED BY SMTT(60), <3>1, <3>2
  <2>5. replies' \in Seq(Types)
    <3>1. ASSUME NEW c \in Commands, NEW a \in Answer
          PROVE  c.send \o a \in Seq(Types)
      <4>0. <<>> \in Seq(Types) /\ \A x \in Types : <<x>> \in Seq(Types)
        BY SMTT(60)
      <4>1. c.send = <<>> \/ \E x \in Types : c.send = <<x>>
        BY SMTT(60) DEF Commands, Types, Important, ReplyTypes, ControlTypes
      <4>2. a = <<>> \/ \E x \in Types : a = <<x>>
        BY DEF Answer, Types, Important, ReplyTypes
      <4>3. c.send \in Seq(Types) /\ a \in Seq(Types) BY <4>0, <4>1, <4>2
      <4> QED BY SMTT(60), <4>3
    <3>2. replies' = replies \/ \E c \in Commands, a \in Answer : replies' = c.send \o a
      BY <1>4 DEF ProcessIncoming
    <3> QED BY <1>0, <3>1, <3>2 DEF TypeOK
  <2> QED BY <1>0, <2>1, <2>2, <2>3, <2>4, <2>5 DEF TypeOK, Labels
<1>5. ASSUME StartWrite \/ WriteFails \/ ClosePipe
      PROVE  TypeOK' /\ Held' /\ UNCHANGED <<queue, inFlight>>
  <2>1. CASE StartWrite
    BY <1>0, <2>1 DEF TypeOK, StartWrite, Goto, Labels, flagVars, guiVars
  <2>2. CASE WriteFails
    BY SMTT(60), <1>0, <2>2 DEF TypeOK, WriteFails, Break, Goto, Labels, flagVars, guiVars
  <2>3. CASE ClosePipe
    BY <1>0, <2>3 DEF TypeOK, ClosePipe, Goto, Labels, flagVars, guiVars
  <2> QED BY <1>5, <2>1, <2>2, <2>3
<1>6. ASSUME MainStep PROVE TypeOK' /\ Held' /\ UNCHANGED <<queue, inFlight>>
  <2>1. CASE HttpServerReturns
    BY <1>0, <2>1 DEF TypeOK, HttpServerReturns, Labels, flagVars, guiVars
  <2>2. CASE StopFlags
    BY <1>0, <2>2 DEF TypeOK, StopFlags, Labels, flagVars, guiVars
  <2>3. CASE CancelSynchronousIo
    BY <1>0, <2>3 DEF TypeOK, CancelSynchronousIo, Labels, flagVars, guiVars
  <2>4. CASE Join
    BY <1>0, <2>4 DEF TypeOK, Join, Labels, flagVars, guiVars
  <2> QED BY <1>6, <2>1, <2>2, <2>3, <2>4 DEF MainStep
<1>7. ASSUME GuiAttach \/ GuiLeave \/ Signal \/ Exited
      PROVE  TypeOK' /\ Held' /\ UNCHANGED <<queue, inFlight>>
  <2>1. CASE GuiAttach
    BY <1>0, <2>1 DEF TypeOK, GuiAttach, flagVars, threadVars, guiVars
  <2>2. CASE GuiLeave
    <3>1. breaks \in Nat BY <1>0 DEF TypeOK
    <3>2. breaks' = breaks + 1 /\ attached' = FALSE BY <2>2 DEF GuiLeave, Break
    <3>3. breaks' \in Nat BY SMTT(60), <3>1, <3>2
    <3> QED BY <1>0, <2>2, <3>2, <3>3 DEF TypeOK, GuiLeave, flagVars, threadVars
  <2>3. CASE Signal
    BY <1>0, <2>3 DEF TypeOK, Signal, flagVars, threadVars, guiVars
  <2>4. CASE Exited
    BY <1>0, <2>4 DEF TypeOK, Exited, vars, flagVars, threadVars, guiVars
  <2> QED BY <1>7, <2>1, <2>2, <2>3, <2>4
<1>8. TypeOK' /\ Held' /\ UNCHANGED <<queue, inFlight>>
  BY <1>1, <1>2, <1>3, <1>4, <1>5, <1>6, <1>7
<1>9. QueueBounded' /\ SnapshotsAtMostTwice'
  BY <1>8, QueueFrame DEF PipeInv
<1> QED BY <1>8, <1>9 DEF PipeInv

\* The steps that change the queue.
LEMMA QueueStep ==
  ASSUME PipeInv,
         \/ \E s \in Senders : SendLocked(s)
         \/ Reply \/ Pop \/ Written \/ Requeue
  PROVE  PipeInv'
<1> DEFINE Held == pc \in {"popped", "writing", "requeue"} <=> inFlight # None
<1>0. TypeOK /\ Held BY DEF PipeInv
<1>1. ASSUME NEW s \in Senders, SendLocked(s) PROVE PipeInv'
  <2>1. pending[s] \in Messages /\ Enqueue(pending[s]) /\ inFlight' = inFlight
    BY <1>0, <1>1 DEF SendLocked, TypeOK
  <2>2. /\ queue' \in Seq(Messages) /\ accepted' \in Seq(Messages)
        /\ QueueBounded' /\ SnapshotsAtMostTwice'
    BY <2>1, EnqueueKeeps
  <2>3. TypeOK' /\ Held'
    BY <1>0, <1>1, <2>2 DEF SendLocked, TypeOK, flagVars, threadVars, guiVars
  <2> QED BY <2>2, <2>3 DEF PipeInv
<1>2. ASSUME Reply PROVE PipeInv'
  <2>1. inFlight' = inFlight BY <1>2 DEF Reply
  <2>2. /\ queue' \in Seq(Messages) /\ accepted' \in Seq(Messages)
        /\ QueueBounded' /\ SnapshotsAtMostTwice'
    <3>1. CASE UNCHANGED <<queue, accepted>>
      BY <1>0, <2>1, <3>1, QueueFrame DEF PipeInv, TypeOK
    <3>2. CASE ~UNCHANGED <<queue, accepted>>
      <4>1. replies # <<>> /\ Enqueue(Message(Head(replies)))
        BY <1>2, <3>2 DEF Reply
      <4>2. Message(Head(replies)) \in Messages
        BY SMTT(60), <1>0, <4>1, MessageType DEF TypeOK
      <4> QED BY <2>1, <4>1, <4>2, EnqueueKeeps
    <3> QED BY <3>1, <3>2
  <2>3. /\ UNCHANGED <<running, mRunning, connected, authenticated, inFlight, pending,
                       main, handle, attached, breaks, delivered>>
        /\ pc = "reply" /\ pc' \in {"reply", "drain"}
    BY <1>2 DEF Reply, Goto, flagVars, guiVars
  <2>5. replies' \in Seq(Types) /\ stamps' \in Nat
    <3>1. replies \in Seq(Types) /\ stamps \in Nat BY <1>0 DEF TypeOK
    <3>2. CASE replies = <<>> BY <1>2, <3>1, <3>2 DEF Reply
    <3>3. CASE replies # <<>>
      <4>1. replies' = Tail(replies) /\ stamps' = stamps + 1 BY <1>2, <3>3 DEF Reply
      <4> QED BY SMTT(60), <3>1, <3>3, <4>1
    <3> QED BY <3>2, <3>3
  <2>4. TypeOK' /\ Held'
    BY <1>0, <2>2, <2>3, <2>5 DEF TypeOK, Labels
  <2> QED BY <2>2, <2>4 DEF PipeInv
<1>3. ASSUME Pop PROVE PipeInv'
  <2>1. CASE UNCHANGED <<queue, inFlight>> /\ pc' = "serve"
    <3>1. TypeOK' /\ Held'
      BY <1>0, <1>3, <2>1 DEF Pop, TypeOK, Labels, flagVars, guiVars
    <3> QED BY <2>1, <3>1, QueueFrame DEF PipeInv
  <2>2. CASE /\ queue # <<>> /\ inFlight' = Head(queue) /\ queue' = Tail(queue)
             /\ pc' = "popped"
    <3>1. inFlight = None BY <1>0, <1>3 DEF Pop
    <3>2. /\ queue' \in Seq(Messages) /\ inFlight' \in Messages /\ inFlight' # None
          /\ QueueBounded' /\ SnapshotsAtMostTwice'
      BY <2>2, <3>1, PopKeeps
    <3>3. TypeOK' /\ Held'
      BY <1>0, <1>3, <2>2, <3>2 DEF Pop, TypeOK, Labels, flagVars, guiVars
    <3> QED BY <3>2, <3>3 DEF PipeInv
  <2> QED BY <1>3, <2>1, <2>2 DEF Pop, Goto
<1>4. ASSUME Written PROVE PipeInv'
  <2>1. inFlight \in Messages /\ inFlight # None
    BY <1>0, <1>4 DEF Written, TypeOK
  <2>2. TypeOK' /\ Held'
    BY SMTT(60), <1>0, <1>4, <2>1 DEF Written, TypeOK, Goto, Labels, flagVars, guiVars
  <2>3. queue' = queue /\ inFlight' = None BY <1>4 DEF Written
  <2>4. QueueBounded'
    <3>1. queue \in Seq(Messages) BY <1>0 DEF TypeOK
    <3>2. Len(queue) + 1 <= MaxQueuedMessages
      BY <2>1 DEF PipeInv, QueueBounded, Waiting
    <3> QED BY SMTT(60), <2>3, <3>1, <3>2, PipeAssumption DEF QueueBounded, Waiting
  <2>5. SnapshotsAtMostTwice'
    BY <2>3 DEF PipeInv, SnapshotsAtMostTwice
  <2> QED BY <2>2, <2>4, <2>5 DEF PipeInv
<1>5. ASSUME Requeue PROVE PipeInv'
  <2>1. inFlight # None /\ queue' = <<inFlight>> \o queue /\ inFlight' = None
    BY <1>0, <1>5 DEF Requeue
  <2>2. queue' \in Seq(Messages) /\ QueueBounded' /\ SnapshotsAtMostTwice'
    BY <2>1, RequeueKeeps
  <2>3. TypeOK' /\ Held'
    BY <1>0, <1>5, <2>1, <2>2 DEF Requeue, TypeOK, Goto, Labels, guiVars
  <2> QED BY <2>2, <2>3 DEF PipeInv
<1> QED BY <1>1, <1>2, <1>3, <1>4, <1>5

\* PipeInv holds of every state that PipeServer can reach: it is true of an unconnected
\* server with an empty queue, and every step of a sender, of the pipe thread, of main
\* and of a GUI preserves it.
THEOREM PipeInvariance == Spec => []PipeInv
<1>1. Init => PipeInv
  <2> SUFFICES ASSUME Init PROVE PipeInv OBVIOUS
  <2>1. TypeOK
    <3>1. <<>> \in Seq(Messages) /\ <<>> \in Seq(Types) BY SMTT(60)
    <3> QED BY <3>1 DEF Init, TypeOK, Labels
  <2>2. queue = <<>> /\ inFlight = None /\ pc = "start" BY DEF Init
  <2>3. QueueBounded BY SMTT(60), <2>2, PipeAssumption DEF QueueBounded, Waiting
  <2>4. SnapshotsAtMostTwice BY SMTT(60), <2>2 DEF SnapshotsAtMostTwice
  <2> QED BY <2>1, <2>2, <2>3, <2>4 DEF PipeInv
<1>2. PipeInv /\ [Next]_vars => PipeInv'
  <2> SUFFICES ASSUME PipeInv, [Next]_vars PROVE PipeInv' OBVIOUS
  <2>1. CASE Next
    BY <2>1, FrameStep, QueueStep DEF Next, PipeStep
  <2>2. CASE UNCHANGED vars
    <3>1. TypeOK' BY <2>2 DEF PipeInv, TypeOK, vars, flagVars, threadVars, guiVars
    <3>2. queue' = queue /\ inFlight' = inFlight /\ pc' = pc
      BY <2>2 DEF vars, threadVars
    <3>3. QueueBounded' /\ SnapshotsAtMostTwice' BY <3>2, QueueFrame DEF PipeInv
    <3> QED BY <3>1, <3>2, <3>3 DEF PipeInv
  <2> QED BY <2>1, <2>2
<1> QED BY <1>1, <1>2, PTL DEF Spec

\* The queue of m_outQueue with the message being written never exceeds
\* MaxQueuedMessages, however senders, failing writes and reconnections interleave.
THEOREM QueueStaysBounded == Spec => []QueueBounded
<1>1. PipeInv => QueueBounded BY DEF PipeInv
<1> QED BY <1>1, PipeInvariance, PTL

\* Of each type of snapshot at most two wait, and only if one of them was put back
\* to the front of the queue after a failed write.
THEOREM SnapshotsStayCoalesced == Spec => []SnapshotsAtMostTwice
<1>1. PipeInv => SnapshotsAtMostTwice BY DEF PipeInv
<1> QED BY <1>1, PipeInvariance, PTL
----------------------------------------------------------------------------
(* The order of important messages *)

\* What the recursion computes from the first k messages of q.
Sifted(q, k, f) ==
  /\ f \in [0 .. k -> Seq(Messages)]
  /\ f[0] = <<>>
  /\ \A i \in 1 .. k : f[i] = IF q[i].type \in Important THEN Append(f[i - 1], q[i]) ELSE f[i - 1]

\* There is such a function for every k.
LEMMA SiftedExists ==
  ASSUME NEW q \in Seq(Messages)
  PROVE  \E f : Sifted(q, Len(q), f)
<1> DEFINE S == {k \in 0 .. Len(q) : \E f : Sifted(q, k, f)}
<1>1. 0 \in S
  <2>1. Sifted(q, 0, [i \in 0 .. 0 |-> <<>>]) BY SMTT(60) DEF Sifted
  <2> QED BY SMTT(60), <2>1
<1>2. ASSUME NEW k \in 0 .. Len(q) - 1, k \in S PROVE k + 1 \in S
  <2>1. PICK f : Sifted(q, k, f) BY <1>2
  <2>2. q[k + 1] \in Messages /\ f[k] \in Seq(Messages) BY SMTT(60), <2>1 DEF Sifted
  <2> DEFINE n == IF q[k + 1].type \in Important THEN Append(f[k], q[k + 1]) ELSE f[k]
             g == [i \in 0 .. k + 1 |-> IF i = k + 1 THEN n ELSE f[i]]
  <2>3. n \in Seq(Messages) BY SMTT(60), <2>2
  <2> HIDE DEF n
  <2>4. g \in [0 .. k + 1 -> Seq(Messages)] /\ g[0] = <<>> BY SMTT(60), <2>1, <2>3 DEF Sifted
  <2>5. g[k + 1] = n /\ \A i \in 0 .. k : g[i] = f[i] BY SMTT(60)
  <2> HIDE DEF g
  <2>6. ASSUME NEW i \in 1 .. k + 1
        PROVE  g[i] = IF q[i].type \in Important THEN Append(g[i - 1], q[i]) ELSE g[i - 1]
    <3>1. CASE i = k + 1
      <4>1. i - 1 = k /\ g[i - 1] = f[k] BY SMTT(60), <2>5, <3>1
      <4> QED BY <2>5, <3>1, <4>1 DEF n
    <3>2. CASE i # k + 1
      <4>1. i \in 1 .. k /\ i \in 0 .. k /\ i - 1 \in 0 .. k BY SMTT(60), <3>2
      <4>2. g[i] = f[i] /\ g[i - 1] = f[i - 1] BY <2>5, <4>1
      <4> QED BY <2>1, <4>1, <4>2 DEF Sifted
    <3> QED BY <3>1, <3>2
  <2>7. Sifted(q, k + 1, g) BY <2>4, <2>6 DEF Sifted
  <2> QED BY SMTT(60), <2>7
<1> HIDE DEF S
<1>3. Len(q) \in Nat BY SMTT(60)
<1>4. \A i \in 0 .. Len(q) : i \in S BY <1>1, <1>2, <1>3, CountUp
<1>5. Len(q) \in S BY SMTT(60), <1>3, <1>4
<1> QED BY <1>5 DEF S

\* The recursive definition has the value that its equations say.
LEMMA ImportantOfIs ==
  ASSUME NEW q \in Seq(Messages)
  PROVE  \E f : Sifted(q, Len(q), f) /\ ImportantOf(q) = f[Len(q)]
<1> DEFINE Body(f) == [i \in 0 .. Len(q) |->
             IF i = 0 THEN <<>>
             ELSE IF q[i].type \in Important THEN Append(f[i - 1], q[i]) ELSE f[i - 1]]
           h == CHOOSE f : f = Body(f)
<1>1. PICK g : Sifted(q, Len(q), g) BY SiftedExists
<1>2. g = Body(g)
  <2>1. ASSUME NEW i \in 0 .. Len(q) PROVE g[i] = Body(g)[i]
    <3>1. CASE i = 0 BY <1>1, <3>1 DEF Sifted
    <3>2. CASE i \in 1 .. Len(q) BY <1>1, <3>2 DEF Sifted
    <3> QED BY SMTT(60), <3>1, <3>2
  <2> QED BY <2>1, <1>1 DEF Sifted
<1>3. h = Body(h)
  <2> HIDE DEF Body
  <2> QED BY <1>2
<1>4. ImportantOf(q) = h[Len(q)] BY DEF ImportantOf
<1> HIDE DEF h
<1>5. h[0] = <<>> /\ \A i \in 1 .. Len(q) :
        h[i] = IF q[i].type \in Important THEN Append(h[i - 1], q[i]) ELSE h[i - 1]
  <2>1. \A i \in 0 .. Len(q) : h[i] = Body(h)[i] BY <1>3
  <2> QED BY SMTT(60), <2>1
<1>6. \A i \in 0 .. Len(q) : h[i] \in Seq(Messages)
  <2> DEFINE S == {i \in 0 .. Len(q) : h[i] \in Seq(Messages)}
  <2>1. 0 \in S
    <3>1. 0 \in 0 .. Len(q) /\ <<>> \in Seq(Messages) BY SMTT(60)
    <3> QED BY <1>5, <3>1
  <2>2. ASSUME NEW i \in 0 .. Len(q) - 1, i \in S PROVE i + 1 \in S
    <3>1. i + 1 \in 1 .. Len(q) /\ (i + 1) - 1 = i /\ q[i + 1] \in Messages BY SMTT(60)
    <3>2. h[i + 1] = IF q[i + 1].type \in Important THEN Append(h[i], q[i + 1]) ELSE h[i]
      BY <1>5, <3>1
    <3>3. h[i + 1] \in Seq(Messages) BY SMTT(60), <2>2, <3>1, <3>2
    <3> QED BY SMTT(60), <3>1, <3>3
  <2> HIDE DEF S
  <2>3. Len(q) \in Nat BY SMTT(60)
  <2>4. \A i \in 0 .. Len(q) : i \in S BY <2>1, <2>2, <2>3, CountUp
  <2> QED BY <2>4 DEF S
<1>7. h \in [0 .. Len(q) -> Seq(Messages)]
  <2>1. h = [i \in 0 .. Len(q) |-> h[i]]
     BY <1>3
  <2> QED BY <2>1, <1>6
<1>8. Sifted(q, Len(q), h) BY <1>5, <1>7 DEF Sifted
<1> QED BY <1>4, <1>8
\* The important messages of a queue are messages; an empty queue has none.
LEMMA ImportantOfType ==
  ASSUME NEW q \in Seq(Messages)
  PROVE  ImportantOf(q) \in Seq(Messages) /\ (q = <<>> => ImportantOf(q) = <<>>)
<1>1. PICK f : Sifted(q, Len(q), f) /\ ImportantOf(q) = f[Len(q)] BY ImportantOfIs
<1> QED BY SMTT(60), <1>1 DEF Sifted

\* A message at the end of the queue is the last of the important ones, or is not one.
LEMMA ImportantOfAppend ==
  ASSUME NEW q \in Seq(Messages), NEW m \in Messages
  PROVE  ImportantOf(Append(q, m)) =
           IF m.type \in Important THEN Append(ImportantOf(q), m) ELSE ImportantOf(q)
<1> DEFINE p == Append(q, m)
<1>1. /\ p \in Seq(Messages) /\ Len(p) = Len(q) + 1 /\ p[Len(q) + 1] = m
      /\ \A i \in 1 .. Len(q) : p[i] = q[i]
      /\ Len(q) \in Nat
  BY SMTT(60)
<1> HIDE DEF p
<1>2. PICK f : Sifted(q, Len(q), f) /\ ImportantOf(q) = f[Len(q)] BY ImportantOfIs
<1>3. PICK g : Sifted(p, Len(p), g) /\ ImportantOf(p) = g[Len(p)]
  BY <1>1, ImportantOfIs
<1> DEFINE S == {i \in 0 .. Len(q) : f[i] = g[i]}
<1>4. 0 \in S BY SMTT(60), <1>1, <1>2, <1>3 DEF Sifted
<1>5. ASSUME NEW i \in 0 .. Len(q) - 1, i \in S PROVE i + 1 \in S
  <2>1. /\ i + 1 \in 1 .. Len(q) /\ i + 1 \in 1 .. Len(p) /\ (i + 1) - 1 = i
        /\ i + 1 \in 0 .. Len(q) /\ p[i + 1] = q[i + 1]
    BY SMTT(60), <1>1
  <2>2. f[i + 1] = IF q[i + 1].type \in Important THEN Append(f[i], q[i + 1]) ELSE f[i]
    BY <1>2, <2>1 DEF Sifted
  <2>3. g[i + 1] = IF q[i + 1].type \in Important THEN Append(g[i], q[i + 1]) ELSE g[i]
    BY <1>3, <2>1 DEF Sifted
  <2>4. f[i] = g[i] BY <1>5
  <2>5. f[i + 1] = g[i + 1]
    <3>1. CASE q[i + 1].type \in Important BY <2>2, <2>3, <2>4, <3>1
    <3>2. CASE q[i + 1].type \notin Important BY <2>2, <2>3, <2>4, <3>2
    <3> QED BY <3>1, <3>2
  <2> QED BY <2>1, <2>5
<1> HIDE DEF S
<1>6. \A i \in 0 .. Len(q) : i \in S BY <1>1, <1>4, <1>5, CountUp
<1>7. f[Len(q)] = g[Len(q)] BY SMTT(60), <1>1, <1>6 DEF S
<1>8. Len(q) + 1 \in 1 .. Len(p) /\ (Len(q) + 1) - 1 = Len(q) BY SMTT(60), <1>1
<1>9. g[Len(q) + 1] = IF m.type \in Important THEN Append(g[Len(q)], m) ELSE g[Len(q)]
  BY <1>1, <1>3, <1>8 DEF Sifted
<1> QED BY <1>1, <1>2, <1>3, <1>7, <1>9 DEF p

\* Concatenation is associative.
LEMMA MessagesAssociate ==
  \A a, b, c \in Seq(Messages) : (a \o b) \o c = a \o (b \o c)
BY SMTT(60), ConcatAssociative

\* Appending to the second of two sequences appends to both.
LEMMA ConcatAppend ==
  ASSUME NEW a \in Seq(Messages), NEW b \in Seq(Messages), NEW m \in Messages
  PROVE  a \o Append(b, m) = Append(a \o b, m)
<1>1. Append(b, m) = b \o <<m>> /\ <<m>> \in Seq(Messages) BY SMTT(60), AppendIsConcat
<1>2. a \o b \in Seq(Messages) BY ConcatProperties
<1>3. Append(a \o b, m) = (a \o b) \o <<m>> BY <1>2, AppendIsConcat
<1>4. (a \o b) \o <<m>> = a \o (b \o <<m>>) BY <1>1, MessagesAssociate
<1> QED BY <1>1, <1>3, <1>4

\* The important messages of two queues one after the other.
LEMMA ImportantOfConcat ==
  ASSUME NEW a \in Seq(Messages), NEW b \in Seq(Messages)
  PROVE  ImportantOf(a \o b) = ImportantOf(a) \o ImportantOf(b)
<1> DEFINE c(n) == SubSeq(b, 1, n)
           S == {n \in 0 .. Len(b) : ImportantOf(a \o c(n)) = ImportantOf(a) \o ImportantOf(c(n))}
<1>0. /\ Len(b) \in Nat /\ c(0) = <<>> /\ c(Len(b)) = b
      /\ \A n \in 0 .. Len(b) : c(n) \in Seq(Messages) /\ Len(c(n)) = n
  BY SMTT(60)
<1>1. 0 \in S
  <2>1. a \o <<>> = a /\ ImportantOf(a) \o <<>> = ImportantOf(a) BY SMTT(60), ImportantOfType
  <2>2. <<>> \in Seq(Messages) BY SMTT(60)
  <2>4. ImportantOf(<<>>) = <<>> BY <2>2, ImportantOfType
  <2>3. 0 \in 0 .. Len(b) BY SMTT(60), <1>0
  <2> HIDE DEF c
  <2> QED BY <1>0, <2>1, <2>4, <2>3
<1>2. ASSUME NEW n \in 0 .. Len(b) - 1, n \in S PROVE n + 1 \in S
  <2>1. /\ b[n + 1] \in Messages /\ c(n + 1) = Append(c(n), b[n + 1])
        /\ c(n) \in Seq(Messages) /\ n + 1 \in 0 .. Len(b)
    BY SMTT(60)
  <2> HIDE DEF c
  <2>2. a \o c(n + 1) = Append(a \o c(n), b[n + 1]) /\ a \o c(n) \in Seq(Messages)
    <3>1. a \o Append(c(n), b[n + 1]) = Append(a \o c(n), b[n + 1])
      BY <2>1, ConcatAppend
    <3>2. a \o c(n) \in Seq(Messages) BY <2>1, ConcatProperties
    <3> QED BY <2>1, <3>1, <3>2
  <2>3. ImportantOf(a \o c(n)) = ImportantOf(a) \o ImportantOf(c(n)) BY <1>2
  <2>4. ImportantOf(a) \in Seq(Messages) /\ ImportantOf(c(n)) \in Seq(Messages)
    BY <2>1, ImportantOfType
  <2>5. CASE b[n + 1].type \in Important
    <3>1. ImportantOf(c(n + 1)) = Append(ImportantOf(c(n)), b[n + 1])
      BY <2>1, <2>5, ImportantOfAppend
    <3>2. ImportantOf(a \o c(n + 1)) = Append(ImportantOf(a \o c(n)), b[n + 1])
      BY <2>1, <2>2, <2>5, ImportantOfAppend
    <3>3. ImportantOf(a) \o Append(ImportantOf(c(n)), b[n + 1]) =
            Append(ImportantOf(a) \o ImportantOf(c(n)), b[n + 1])
      BY <2>1, <2>4, ConcatAppend
    <3> QED BY <2>1, <2>3, <3>1, <3>2, <3>3
  <2>6. CASE b[n + 1].type \notin Important
    <3>1. ImportantOf(c(n + 1)) = ImportantOf(c(n))
      BY <2>1, <2>6, ImportantOfAppend
    <3>2. ImportantOf(a \o c(n + 1)) = ImportantOf(a \o c(n))
      BY <2>1, <2>2, <2>6, ImportantOfAppend
    <3> QED BY <2>1, <2>3, <3>1, <3>2
  <2> QED BY <2>5, <2>6
<1> HIDE DEF S
<1>3. \A n \in 0 .. Len(b) : n \in S BY <1>0, <1>1, <1>2, CountUp
<1>4. Len(b) \in S BY SMTT(60), <1>0, <1>3
<1> HIDE DEF c
<1> QED BY <1>0, <1>4 DEF S

\* A message that is not important makes no difference, be it erased or overwritten.
LEMMA UnimportantSplice ==
  ASSUME NEW q \in Seq(Messages), NEW k \in 1 .. Len(q), q[k].type \notin Important,
         NEW m \in Messages, m.type \notin Important
  PROVE  /\ ImportantOf(Without(q, k)) = ImportantOf(q)
         /\ ImportantOf([q EXCEPT ![k] = m]) = ImportantOf(q)
<1> DEFINE a == SubSeq(q, 1, k - 1)
           b == SubSeq(q, k + 1, Len(q))
<1>1. /\ a \in Seq(Messages) /\ Len(a) = k - 1
      /\ \A i \in 1 .. k - 1 : a[i] = q[i]
  BY SMTT(60)
<1>2. /\ b \in Seq(Messages) /\ Len(b) = Len(q) - k
      /\ \A i \in 1 .. Len(q) - k : b[i] = q[i + k]
  BY SMTT(60)
<1>3. Without(q, k) = a \o b BY DEF Without
<1> HIDE DEF a, b
<1>4. ASSUME NEW x \in Messages
      PROVE  [q EXCEPT ![k] = x] = Append(a, x) \o b
  <2> DEFINE u == [q EXCEPT ![k] = x]
             c == Append(a, x)
  <2>1. /\ u \in Seq(Messages) /\ Len(u) = Len(q)
        /\ \A i \in 1 .. Len(q) : u[i] = IF i = k THEN x ELSE q[i]
    BY SMTT(60), ExceptSeq
  <2>2. /\ c \in Seq(Messages) /\ Len(c) = k /\ c[k] = x
        /\ \A i \in 1 .. k - 1 : c[i] = q[i]
    BY SMTT(60), <1>1
  <2> HIDE DEF u, c
  <2>3. /\ c \o b \in Seq(Messages) /\ Len(c \o b) = Len(q)
        /\ \A i \in 1 .. Len(q) : (c \o b)[i] = IF i <= k THEN c[i] ELSE b[i - k]
    <3>1. Len(c) + Len(b) = Len(q) BY SMTT(60), <1>2, <2>2
    <3>2. /\ c \o b \in Seq(Messages) /\ Len(c \o b) = Len(c) + Len(b)
          /\ \A i \in 1 .. Len(c) + Len(b) :
               (c \o b)[i] = IF i <= Len(c) THEN c[i] ELSE b[i - Len(c)]
      <4>1. b \in Seq(Messages) /\ c \in Seq(Messages) BY <1>2, <2>2
      <4> QED BY ONLY SMTT(60), <4>1, ConcatProperties
    <3>3. Len(c) = k BY <2>2
    <3> QED BY ONLY ZenonT(60), <3>1, <3>2, <3>3
  <2>4. ASSUME NEW i \in 1 .. Len(q) PROVE u[i] = (c \o b)[i]
    <3>1. CASE i < k BY SMTT(60), <2>1, <2>2, <2>3, <3>1
    <3>2. CASE i = k BY SMTT(60), <2>1, <2>2, <2>3, <3>2
    <3>3. CASE i > k
      <4>1. i - k \in 1 .. Len(q) - k /\ (i - k) + k = i BY SMTT(60), <3>3
      <4>2. b[i - k] = q[i] BY <1>2, <4>1
      <4>3. i # k /\ ~(i <= k) BY SMTT(60), <3>3
      <4>4. u[i] = q[i] BY <2>1, <4>3
      <4>5. (c \o b)[i] = b[i - k] BY <2>3, <4>3
      <4> QED BY <4>2, <4>4, <4>5
    <3>4. i < k \/ i = k \/ i > k BY SMTT(60)
    <3> QED BY <3>1, <3>2, <3>3, <3>4
  <2>5. u = c \o b BY <2>1, <2>3, <2>4, SeqEqual
  <2> QED BY <2>5 DEF u, c
<1>5. ASSUME NEW x \in Messages, x.type \notin Important
      PROVE  ImportantOf([q EXCEPT ![k] = x]) = ImportantOf(a) \o ImportantOf(b)
  <2>1. Append(a, x) \in Seq(Messages) BY SMTT(60), <1>1
  <2>2. ImportantOf(Append(a, x)) = ImportantOf(a)
    BY <1>1, <1>5, ImportantOfAppend
  <2>3. ImportantOf(Append(a, x) \o b) = ImportantOf(Append(a, x)) \o ImportantOf(b)
    BY <1>2, <2>1, ImportantOfConcat
  <2> QED BY <1>4, <2>2, <2>3
<1>6. q = [q EXCEPT ![k] = q[k]] /\ q[k] \in Messages BY SMTT(60)
<1>7. ImportantOf(q) = ImportantOf(a) \o ImportantOf(b) BY <1>5, <1>6
<1>8. ImportantOf(a \o b) = ImportantOf(a) \o ImportantOf(b)
  BY <1>1, <1>2, ImportantOfConcat
<1> QED BY <1>3, <1>5, <1>7, <1>8

\* sendMessage: the message joins the important ones at their end exactly if it is
\* accepted as one; what is overwritten or given up for it is not important.
LEMMA EnqueueOrder ==
  ASSUME queue \in Seq(Messages), accepted \in Seq(Messages),
         NEW m \in Messages, Enqueue(m)
  PROVE  \/ /\ accepted' = accepted
            /\ ImportantOf(queue') = ImportantOf(queue)
         \/ /\ accepted' = Append(accepted, m)
            /\ ImportantOf(queue') = Append(ImportantOf(queue), m)
<1>1. \A x \in Messages : x.type \in Snapshots \cup {"log"} => x.type \notin Important
  BY PipeAssumption DEF Important
<1>2. CASE PendingAlready(m)
  <2> DEFINE k == FirstOf({m.type})
  <2>1. k \in 1 .. Len(queue) /\ queue[k].type = m.type /\ m.type \in Snapshots
    BY SMTT(60), <1>2, FirstOfType DEF PendingAlready
  <2> HIDE DEF k
  <2>2. queue' = [queue EXCEPT ![k] = m] /\ accepted' = accepted
    BY <1>2 DEF Enqueue, k
  <2>3. m.type \notin Important BY <1>1, <2>1
  <2>4. ImportantOf([queue EXCEPT ![k] = m]) = ImportantOf(queue)
    BY <2>1, <2>3, UnimportantSplice
  <2> QED BY <2>2, <2>4
<1>3. CASE UNCHANGED <<queue, accepted>>
  BY <1>3
<1>4. CASE ~PendingAlready(m) /\ ~UNCHANGED <<queue, accepted>>
  <2> DEFINE q == IF Full THEN Without(queue, Disposable) ELSE queue
  <2>1. Push(q, m) /\ (Full => Disposable # 0)
    BY <1>4 DEF Enqueue
  <2>2. q \in Seq(Messages) /\ ImportantOf(q) = ImportantOf(queue)
    <3>1. CASE Full
      <4>1. /\ Disposable \in 1 .. Len(queue)
            /\ queue[Disposable].type \in Snapshots \cup {"log"}
        BY SMTT(60), <2>1, <3>1, FirstOfType DEF Disposable
      <4>2. queue[Disposable] \in Messages BY <4>1, ElementOfSeq
      <4>3. queue[Disposable].type \notin Important BY <1>1, <4>1, <4>2
      <4>4. ImportantOf(Without(queue, Disposable)) = ImportantOf(queue)
        BY <4>1, <4>2, <4>3, UnimportantSplice
      <4>5. Without(queue, Disposable) \in Seq(Messages) BY <4>1, WithoutFacts
      <4> QED BY <3>1, <4>4, <4>5
    <3>2. CASE ~Full BY <3>2
    <3> QED BY <3>1, <3>2
  <2> HIDE DEF q
  <2>3. CASE m.type \in Important
    BY <2>1, <2>2, <2>3, ImportantOfAppend DEF Push
  <2>4. CASE m.type \notin Important
    BY <2>1, <2>2, <2>4, ImportantOfAppend DEF Push
  <2> QED BY <2>3, <2>4
<1> QED BY <1>2, <1>3, <1>4

\* What the queue accepted is what was written and what is still to be written.
InOrder == accepted = delivered \o ImportantOf(Unwritten)

\* The message being written goes before the queue.
LEMMA UnwrittenIs ==
  ASSUME TypeOK
  PROVE  /\ Unwritten \in Seq(Messages)
         /\ inFlight = None => Unwritten = queue
         /\ inFlight # None => /\ inFlight \in Messages
                              /\ Unwritten = <<inFlight>> \o queue
                              /\ <<inFlight>> \in Seq(Messages)
<1>1. queue \in Seq(Messages) /\ inFlight \in Messages \cup {None} BY DEF TypeOK
<1>2. CASE inFlight = None
  BY <1>1, <1>2, ConcatEmptySeq DEF Unwritten
<1>3. CASE inFlight # None
  <2>1. inFlight \in Messages /\ <<inFlight>> \in Seq(Messages) BY SMTT(60), <1>1, <1>3
  <2>2. Unwritten = <<inFlight>> \o queue BY <1>3 DEF Unwritten
  <2> QED BY <1>1, <1>3, <2>1, <2>2, ConcatProperties
<1> QED BY <1>2, <1>3

\* The steps that touch neither the messages nor their history.
LEMMA QuietOrder ==
  ASSUME InOrder, UNCHANGED <<queue, inFlight, accepted, delivered>>
  PROVE  InOrder'
BY DEF InOrder, Unwritten

\* A message that a sender or a command puts into the queue.
LEMMA EnqueueKeepsOrder ==
  ASSUME TypeOK, TypeOK', InOrder, NEW m \in Messages, Enqueue(m),
         UNCHANGED <<inFlight, delivered>>
  PROVE  InOrder'
<1> DEFINE held == IF inFlight = None THEN <<>> ELSE ImportantOf(<<inFlight>>)
<1>0. /\ queue \in Seq(Messages) /\ queue' \in Seq(Messages)
      /\ accepted \in Seq(Messages) /\ delivered \in Seq(Messages)
  BY DEF TypeOK
<1>1. /\ held \in Seq(Messages) /\ ImportantOf(queue) \in Seq(Messages)
      /\ delivered \o held \in Seq(Messages)
  <2>1. held \in Seq(Messages)
    <3>1. CASE inFlight = None BY SMTT(60), <3>1
    <3>2. CASE inFlight # None BY <3>2, UnwrittenIs, ImportantOfType
    <3> QED BY <3>1, <3>2
  <2> QED BY <1>0, <2>1, ImportantOfType, ConcatProperties
<1>2. ASSUME NEW q \in Seq(Messages), NEW w,
             w = (IF inFlight = None THEN <<>> ELSE <<inFlight>>) \o q
      PROVE  ImportantOf(w) = held \o ImportantOf(q)
  <2>1. ImportantOf(q) \in Seq(Messages) BY ImportantOfType
  <2>2. CASE inFlight = None BY <1>2, <2>1, <2>2, ConcatEmptySeq
  <2>3. CASE inFlight # None
    <3>1. <<inFlight>> \in Seq(Messages) BY <2>3, UnwrittenIs
    <3>2. ImportantOf(<<inFlight>> \o q) = ImportantOf(<<inFlight>>) \o ImportantOf(q)
      BY <3>1, ImportantOfConcat
    <3> QED BY <1>2, <2>3, <3>2
  <2> QED BY <2>2, <2>3
<1>3. ImportantOf(Unwritten) = held \o ImportantOf(queue) BY <1>0, <1>2 DEF Unwritten
<1>4. ImportantOf(Unwritten)' = held \o ImportantOf(queue')
  <2>1. Unwritten' = (IF inFlight = None THEN <<>> ELSE <<inFlight>>) \o queue'
    BY DEF Unwritten
  <2> QED BY <1>0, <1>2, <2>1
<1> HIDE DEF held
<1>5. accepted = (delivered \o held) \o ImportantOf(queue)
  <2>1. accepted = delivered \o (held \o ImportantOf(queue))
    BY <1>3 DEF InOrder
  <2>2. (delivered \o held) \o ImportantOf(queue) = delivered \o (held \o ImportantOf(queue))
    BY <1>0, <1>1, MessagesAssociate
  <2> QED BY <2>1, <2>2
<1>6. accepted' = (delivered \o held) \o ImportantOf(queue')
  <2>1. CASE accepted' = accepted /\ ImportantOf(queue') = ImportantOf(queue)
    BY <1>5, <2>1
  <2>2. CASE /\ accepted' = Append(accepted, m)
             /\ ImportantOf(queue') = Append(ImportantOf(queue), m)
    <3>1. (delivered \o held) \o Append(ImportantOf(queue), m) =
            Append((delivered \o held) \o ImportantOf(queue), m)
      BY <1>1, ConcatAppend
    <3> QED BY <1>5, <2>2, <3>1
  <2> QED BY <1>0, <2>1, <2>2, EnqueueOrder
<1>7. ImportantOf(queue') \in Seq(Messages) BY <1>0, ImportantOfType
<1>8. (delivered \o held) \o ImportantOf(queue') = delivered \o (held \o ImportantOf(queue'))
  <2>1. \A c \in Seq(Messages) : (delivered \o held) \o c = delivered \o (held \o c)
    BY <1>0, <1>1, MessagesAssociate
  <2> QED BY <1>7, <2>1
<1> QED BY <1>4, <1>6, <1>8 DEF InOrder

\* Taking a message from the queue, and putting it back, leave the order alone.
LEMMA MoveKeepsOrder ==
  ASSUME TypeOK, TypeOK', InOrder, UNCHANGED <<accepted, delivered>>,
         \/ /\ queue # <<>> /\ inFlight = None
            /\ inFlight' = Head(queue) /\ queue' = Tail(queue) /\ inFlight' # None
         \/ /\ inFlight # None /\ inFlight' = None
            /\ queue' = <<inFlight>> \o queue
  PROVE  InOrder'
<1>1. CASE /\ queue # <<>> /\ inFlight = None
           /\ inFlight' = Head(queue) /\ queue' = Tail(queue) /\ inFlight' # None
  <2>1. queue \in Seq(Messages) BY DEF TypeOK
  <2>2. <<Head(queue)>> \o Tail(queue) = queue BY SMTT(60), <1>1, <2>1
  <2>3. Unwritten = queue BY <1>1, UnwrittenIs
  <2>4. Unwritten' = <<Head(queue)>> \o Tail(queue) BY <1>1 DEF Unwritten
  <2>5. Unwritten' = Unwritten BY <2>2, <2>3, <2>4
  <2> QED BY <2>5 DEF InOrder
<1>2. CASE inFlight # None /\ inFlight' = None /\ queue' = <<inFlight>> \o queue
  <2>1. Unwritten = <<inFlight>> \o queue BY <1>2, UnwrittenIs
  <2>2. queue' \in Seq(Messages) BY DEF TypeOK
  <2>3. Unwritten' = queue' BY <1>2, <2>2, ConcatEmptySeq DEF Unwritten
  <2> QED BY <1>2, <2>1, <2>3 DEF InOrder
<1> QED BY <1>1, <1>2

\* WriteFile: the message is the first of those not written.
LEMMA WrittenKeepsOrder ==
  ASSUME TypeOK, InOrder, inFlight # None, Written
  PROVE  InOrder'
<1>0. queue \in Seq(Messages) /\ delivered \in Seq(Messages) BY DEF TypeOK
<1>1. /\ inFlight \in Messages /\ Unwritten = <<inFlight>> \o queue
      /\ <<inFlight>> \in Seq(Messages)
  BY UnwrittenIs
<1>2. queue' = queue /\ inFlight' = None /\ accepted' = accepted BY DEF Written
<1>3. Unwritten' = queue BY <1>0, <1>2, ConcatEmptySeq DEF Unwritten
<1>4. ImportantOf(Unwritten) = ImportantOf(<<inFlight>>) \o ImportantOf(queue)
  BY <1>0, <1>1, ImportantOfConcat
<1>5. ImportantOf(queue) \in Seq(Messages) BY <1>0, ImportantOfType
<1>6. /\ <<>> \in Seq(Messages) /\ Append(<<>>, inFlight) = <<inFlight>>
      /\ ImportantOf(<<>>) = <<>>
  <2>1. <<>> \in Seq(Messages) /\ Append(<<>>, inFlight) = <<inFlight>> BY SMTT(60), <1>1
  <2> QED BY <2>1, ImportantOfType
<1>9. ImportantOf(<<inFlight>>) =
        IF inFlight.type \in Important THEN Append(<<>>, inFlight) ELSE <<>>
  BY <1>1, <1>6, ImportantOfAppend
<1>7. CASE inFlight.type \in Important
  <2>1. delivered' = Append(delivered, inFlight) BY <1>7 DEF Written
  <2>2. ImportantOf(<<inFlight>>) = <<inFlight>>
    BY <1>6, <1>7, <1>9
  <2>3. accepted = delivered \o (<<inFlight>> \o ImportantOf(queue))
    BY <1>4, <2>2 DEF InOrder
  <2>4. Append(delivered, inFlight) = delivered \o <<inFlight>>
    BY <1>0, <1>1, AppendIsConcat
  <2>5. (delivered \o <<inFlight>>) \o ImportantOf(queue) =
          delivered \o (<<inFlight>> \o ImportantOf(queue))
    BY <1>0, <1>1, <1>5, MessagesAssociate
  <2> QED BY <1>2, <1>3, <2>1, <2>3, <2>4, <2>5 DEF InOrder
<1>8. CASE inFlight.type \notin Important
  <2>1. delivered' = delivered BY <1>8 DEF Written
  <2>2. ImportantOf(<<inFlight>>) = <<>>
    BY <1>8, <1>9
  <2>3. <<>> \o ImportantOf(queue) = ImportantOf(queue) BY <1>5, ConcatEmptySeq
  <2>4. ImportantOf(Unwritten) = ImportantOf(queue) BY <1>4, <2>2, <2>3
  <2> QED BY <1>2, <1>3, <2>1, <2>4 DEF InOrder
<1> QED BY <1>7, <1>8

\* What the GUIs were written, the message being written and the queue make up what
\* was accepted, in that order, for every number of senders, limit and connection
\* failure: no important message is lost, doubled or overtaken.
THEOREM ImportantStaysInOrder == Spec => []ImportantInOrder
<1>1. Init => InOrder
  <2> SUFFICES ASSUME Init PROVE InOrder OBVIOUS
  <2>1. /\ queue = <<>> /\ inFlight = None /\ accepted = <<>> /\ delivered = <<>>
    BY DEF Init
  <2>2. <<>> \in Seq(Messages) BY SMTT(60)
  <2>3. <<>> \o <<>> = <<>> BY <2>2, ConcatEmptySeq
  <2>4. ImportantOf(<<>>) = <<>> BY <2>2, ImportantOfType
  <2> QED BY <2>1, <2>3, <2>4 DEF InOrder, Unwritten
<1>2. PipeInv /\ PipeInv' /\ InOrder /\ [Next]_vars => InOrder'
  <2> SUFFICES ASSUME PipeInv, PipeInv', InOrder, [Next]_vars PROVE InOrder' OBVIOUS
  <2>0. TypeOK /\ TypeOK' /\ (pc \in {"popped", "writing", "requeue"} <=> inFlight # None)
    BY DEF PipeInv
  <2>1. ASSUME NEW s \in Senders, SendLocked(s) PROVE InOrder'
    <3>1. /\ pending[s] \in Messages /\ Enqueue(pending[s])
          /\ UNCHANGED <<inFlight, delivered>>
      BY <2>0, <2>1 DEF SendLocked, TypeOK
    <3> QED BY <2>0, <3>1, EnqueueKeepsOrder
  <2>2. CASE Reply
    <3>0. UNCHANGED <<inFlight, delivered>> BY <2>2 DEF Reply
    <3>1. CASE UNCHANGED <<queue, accepted>> BY <3>0, <3>1, QuietOrder
    <3>2. CASE ~UNCHANGED <<queue, accepted>>
      <4>1. replies # <<>> /\ Enqueue(Message(Head(replies)))
        BY <2>2, <3>2 DEF Reply
      <4>2. Message(Head(replies)) \in Messages
        BY SMTT(60), <2>0, <4>1, MessageType DEF TypeOK
      <4> QED BY <2>0, <3>0, <4>1, <4>2, EnqueueKeepsOrder
    <3> QED BY <3>1, <3>2
  <2>3. CASE Pop
    <3>1. CASE UNCHANGED <<queue, inFlight>>
      <4>1. UNCHANGED <<accepted, delivered>> BY <2>3 DEF Pop
      <4> QED BY <3>1, <4>1, QuietOrder
    <3>2. CASE ~UNCHANGED <<queue, inFlight>>
      <4>1. /\ queue # <<>> /\ inFlight' = Head(queue) /\ queue' = Tail(queue)
            /\ pc = "drain" /\ pc' = "popped" /\ UNCHANGED <<accepted, delivered>>
        BY <2>3, <3>2 DEF Pop, Goto
      <4>2. inFlight = None /\ inFlight' # None BY <2>0, <4>1 DEF PipeInv
      <4> QED BY <2>0, <4>1, <4>2, MoveKeepsOrder
    <3> QED BY <3>1, <3>2
  <2>4. CASE Written
    <3>1. inFlight # None BY <2>0, <2>4 DEF Written
    <3> QED BY <2>0, <2>4, <3>1, WrittenKeepsOrder
  <2>5. CASE Requeue
    <3>1. /\ inFlight # None /\ inFlight' = None /\ queue' = <<inFlight>> \o queue
          /\ UNCHANGED <<accepted, delivered>>
      BY <2>0, <2>5 DEF Requeue
    <3> QED BY <2>0, <3>1, MoveKeepsOrder
  <2>6. CASE \/ \E s \in Senders, type \in Types : SendMessage(s, type)
             \/ Start \/ LoopTop \/ Listen \/ Accept \/ ConnectFails \/ ProcessIncoming
             \/ StartWrite \/ WriteFails \/ ClosePipe \/ MainStep
             \/ GuiAttach \/ GuiLeave \/ Signal \/ Exited \/ UNCHANGED vars
    <3>1. UNCHANGED <<queue, inFlight, accepted, delivered>>
      <4>1. ASSUME NEW s, NEW type, SendMessage(s, type)
            PROVE  UNCHANGED <<queue, inFlight, accepted, delivered>>
        BY <4>1 DEF SendMessage
      <4>2. ASSUME Start \/ LoopTop \/ Listen \/ Accept \/ ConnectFails
            PROVE  UNCHANGED <<queue, inFlight, accepted, delivered>>
        BY <4>2 DEF Start, LoopTop, Listen, Accept, ConnectFails
      <4>3. ASSUME ProcessIncoming \/ StartWrite \/ WriteFails \/ ClosePipe
            PROVE  UNCHANGED <<queue, inFlight, accepted, delivered>>
        BY <4>3 DEF ProcessIncoming, StartWrite, WriteFails, ClosePipe
      <4>4. ASSUME MainStep PROVE UNCHANGED <<queue, inFlight, accepted, delivered>>
        BY <4>4 DEF MainStep, HttpServerReturns, StopFlags, CancelSynchronousIo, Join
      <4>5. ASSUME GuiAttach \/ GuiLeave \/ Signal \/ Exited \/ UNCHANGED vars
            PROVE  UNCHANGED <<queue, inFlight, accepted, delivered>>
        BY <4>5 DEF GuiAttach, GuiLeave, Signal, Exited, vars
      <4> QED BY <2>6, <4>1, <4>2, <4>3, <4>4, <4>5
    <3> QED BY <3>1, QuietOrder
  <2> QED BY <2>1, <2>2, <2>3, <2>4, <2>5, <2>6 DEF Next, PipeStep
<1>3. PipeInv /\ InOrder => ImportantInOrder BY DEF PipeInv, InOrder, ImportantInOrder
<1> QED BY <1>1, <1>2, <1>3, PipeInvariance, PTL DEF Spec

-----------------------------------------------------------------------------
(* Reports: the invariant *)

\* Report r has all that report q has.
Covers(r, q) ==
    /\ r.windows >= q.windows
    /\ q.notes \subseteq r.notes
    /\ q.final => r.final

\* A list of the reports of S respects the limits of pruneReports.
Limited(S) == Cardinality(S) <= MaxReports /\ TotalSize(S) <= MaxTotalBytes

\* The fields that the write chain and the listing work with.
IsTask(w) ==
    /\ w = [pc |-> w.pc, target |-> w.target, snapshot |-> w.snapshot, temps |-> w.temps,
            names |-> w.names, doomed |-> w.doomed]
    /\ w.target \in Nat
    /\ w.temps \subseteq Sessions /\ w.names \subseteq Sessions /\ w.doomed \subseteq Sessions

ReportTypes ==
    /\ ReportTypeOK
    /\ synced \in [Sessions -> Reports \cup {NoReport}]
    /\ IsTask(writer) /\ IsTask(lister)
    /\ expired \subseteq Sessions
    /\ \A s \in expired : s < session

\* A file has at least what was last written for its transfer, and transfers to
\* come have none.
FilesGood ==
    \A s \in Sessions :
        /\ files[s] # Partial
        /\ files[s] # NoReport => Covers(files[s], synced[s])
        /\ s > session => files[s] = NoReport /\ temporary[s] = NoReport /\ synced[s] = NoReport

\* finish() was called.
Over(p) == p \in {"finishing", "ending"}

\* Nothing has removed the report of the transfer, and its own prune does not.
Kept == ~disturbed /\ Bytes[session] <= MaxTotalBytes

\* What is on the phone when the transfer has ended, and before that when
\* finish() has returned.
Flushed == (progress = "idle" /\ report # NoReport /\ Kept) => report.final /\ files[session] = report
LateGood == (progress = "ending" /\ writer.pc # "move" /\ Kept) => files[session].final

\* The transfer: what is not scheduled is written, unless something went wrong.
MemoryGood ==
    /\ progress = "idle" => writer.pc = "idle" /\ ~writeScheduled
    /\ progress # "idle" => /\ session \in Sessions /\ report \in Reports
                            /\ Covers(report, synced[session])
    /\ report # NoReport => session \in Sessions
    /\ writer.pc = "idle" /\ writeScheduled => persistedRevision < revision
    /\ ~writeScheduled /\ ~disturbed => persistedRevision = revision
    /\ Over(progress) => report.final
    /\ Over(progress) /\ persistedRevision = revision /\ Kept => files[session] = report
    /\ Flushed /\ LateGood

\* The write chain: its snapshot lies between what was written before and the
\* report, and from the move on it is the file.
WriterGood ==
    writer.pc # "idle" =>
        /\ progress # "idle" /\ writeScheduled
        /\ persistedRevision < writer.target /\ writer.target <= revision
        /\ writer.snapshot \in Reports
        /\ Covers(writer.snapshot, synced[session]) /\ Covers(report, writer.snapshot)
        /\ Over(progress) /\ writer.target = revision => writer.snapshot = report
        /\ progress = "ending" => writer.snapshot.final
        /\ writer.pc = "writing" => temporary[session] \in {NoReport, Partial}
        /\ writer.pc \in {"unlink", "move"} => temporary[session] \in {NoReport, writer.snapshot}
        /\ writer.pc \in {"list", "clean", "info", "delete"} =>
              /\ files[session] \in {NoReport, writer.snapshot}
              /\ Kept => files[session] = writer.snapshot

\* What a prune of the write chain leaves is limited and has the present report.
PruneGood ==
    /\ writer.pc \in {"clean", "info"} => Present \subseteq writer.names
    /\ writer.pc = "delete" => /\ Limited(Present \ writer.doomed)
                               /\ Kept => session \notin writer.doomed
    /\ ~pruneDue => Limited(Present)

ReportInv == ReportTypes /\ FilesGood /\ MemoryGood /\ WriterGood /\ PruneGood

-----------------------------------------------------------------------------
(* Numbers and tables *)

\* Induction: what holds of 0 and goes on from each number to the next holds up to n.
LEMMA CountUpTo ==
    ASSUME NEW n \in Nat, NEW S, 0 \in S, \A i \in 1..n : i - 1 \in S => i \in S
    PROVE  \A i \in 0..n : i \in S
<1> SUFFICES ASSUME NEW j \in 0..n, j \notin S PROVE FALSE
  OBVIOUS
<1> DEFINE I == {i \in 0..n : i \notin S}
<1>1. I \in SUBSET Nat /\ I # {}
  BY SMTT(60)
<1>2. PICK x \in I : \A y \in I : x <= y
  <2> HIDE DEF I
  <2> QED BY <1>1, LeastNumber
<1>3. x \in 1..n /\ x - 1 \in 0..n /\ x - 1 < x
  BY SMTT(60)
<1>4. x - 1 \in S
  BY SMTT(60), <1>2, <1>3
<1> QED BY <1>3, <1>4

\* A table that begins with d and goes on by h.
IsTable(f, n, D, d, h) ==
    /\ f \in [0..n -> D] /\ f[0] = d
    /\ \A i \in 1..n : f[i] = h[<<i, f[i - 1]>>]

\* A table is made line by line, so a recursive definition has one.
LEMMA TableExists ==
    ASSUME NEW n \in Nat, NEW D, NEW d \in D, NEW h \in [(1..n) \X D -> D]
    PROVE  \E f : IsTable(f, n, D, d, h)
<1> DEFINE S == {k \in 0..n : \E f : IsTable(f, k, D, d, h)}
<1>1. 0 \in S
  <2>1. [i \in 0..0 |-> d] \in [0..0 -> D] /\ [i \in 0..0 |-> d][0] = d
    BY SMTT(60)
  <2>2. \A i \in 1..0 : FALSE
    BY SMTT(60)
  <2>3. IsTable([i \in 0..0 |-> d], 0, D, d, h)
    BY <2>1, <2>2 DEF IsTable
  <2>4. 0 \in 0..n
    BY SMTT(60)
  <2> QED BY <2>3, <2>4
<1>2. ASSUME NEW k \in 1..n, k - 1 \in S PROVE k \in S
  <2>1. PICK f : IsTable(f, k - 1, D, d, h)
    BY <1>2
  <2> DEFINE g == [i \in 0..k |-> IF i = k THEN h[<<k, f[k - 1]>>] ELSE f[i]]
  <2>2. k \in Nat /\ k - 1 \in 0..k - 1 /\ 0 \in 0..k - 1 /\ k # 0 /\ k \in 0..n
    BY SMTT(60)
  <2>3. f[k - 1] \in D /\ h[<<k, f[k - 1]>>] \in D
    BY <2>1, <2>2 DEF IsTable
  <2>4. ASSUME NEW i \in 0..k PROVE g[i] \in D
    <3>1. i # k => i \in 0..k - 1
      BY SMTT(60)
    <3> QED BY <2>1, <2>3, <3>1 DEF IsTable
  <2>5. g[0] = d
    <3>1. 0 \in 0..k
      BY SMTT(60)
    <3> QED BY <2>1, <2>2, <3>1 DEF IsTable
  <2>6. ASSUME NEW i \in 1..k PROVE g[i] = h[<<i, g[i - 1]>>]
    <3>1. i - 1 \in 0..k /\ i - 1 # k /\ i \in 0..k
      BY SMTT(60)
    <3>2. g[i - 1] = f[i - 1]
      BY <3>1
    <3>3. CASE i = k
      BY <3>1, <3>2, <3>3
    <3>4. CASE i # k
      <4>1. i \in 1..k - 1
        BY SMTT(60), <3>4
      <4>2. f[i] = h[<<i, f[i - 1]>>]
        BY <2>1, <4>1 DEF IsTable
      <4> QED BY <3>1, <3>2, <3>4, <4>2
    <3> QED BY <3>3, <3>4
  <2>7. g \in [0..k -> D]
    <3>1. g = [i \in 0..k |-> g[i]]
      OBVIOUS
    <3> HIDE DEF g
    <3> QED BY <2>4, <3>1
  <2>8. IsTable(g, k, D, d, h)
    <3> HIDE DEF g
    <3> QED BY <2>5, <2>6, <2>7 DEF IsTable
  <2> QED BY <2>2, <2>8
<1>3. \A k \in 0..n : k \in S
  <2> HIDE DEF S
  <2> QED BY <1>1, <1>2, CountUpTo
<1>4. n \in 0..n
  BY SMTT(60)
<1> QED BY <1>3, <1>4

-----------------------------------------------------------------------------
(* The size of several reports *)

SizeIn(S, n) == IF n \in S THEN Bytes[n] ELSE 0

\* f has the sizes of S added up to each number.
IsSum(f, S) ==
    /\ f \in [0..Len(Bytes) -> Nat] /\ f[0] = 0
    /\ \A i \in 1..Len(Bytes) : f[i] = f[i - 1] + SizeIn(S, i)

\* The sizes are numbers above 0, and the transfers are numbered.
LEMMA SizesAreNumbers ==
    /\ Len(Bytes) \in Nat /\ Sessions = 1..Len(Bytes)
    /\ \A n \in Sessions : Bytes[n] \in Nat \ {0}
    /\ MaxReports \in Nat \ {0} /\ MaxTotalBytes \in Nat
BY SMTT(60), ReportAssumption DEF Sessions

\* So is what each transfer adds to a sum.
LEMMA SizeInIsNumber ==
    ASSUME NEW S, NEW n \in 1..Len(Bytes)
    PROVE  SizeIn(S, n) \in Nat
BY SizesAreNumbers DEF SizeIn

\* The recursive definition of a sum defines one.
LEMMA TotalSizeIsSum ==
    ASSUME NEW S
    PROVE  \E f : IsSum(f, S) /\ TotalSize(S) = f[Len(Bytes)]
<1> DEFINE N == Len(Bytes)
           Rule(f) == [n \in 0..N |-> IF n = 0 THEN 0 ELSE f[n - 1] + IF n \in S THEN Bytes[n] ELSE 0]
           g == CHOOSE f : f = Rule(f)
<1>1. TotalSize(S) = g[N]
  BY DEF TotalSize
<1>2. N \in Nat /\ 0 \in Nat /\ 0 \in 0..N
  BY SMTT(60), SizesAreNumbers
<1>3. g = Rule(g)
  <2> DEFINE h == [p \in (1..N) \X Nat |-> p[2] + SizeIn(S, p[1])]
  <2>1. ASSUME NEW p \in (1..N) \X Nat PROVE p[2] + SizeIn(S, p[1]) \in Nat
    <3>1. p[1] \in 1..N /\ p[2] \in Nat
      OBVIOUS
    <3>2. SizeIn(S, p[1]) \in Nat
      BY <3>1, SizeInIsNumber
    <3> QED BY SMTT(60), <3>1, <3>2
  <2>2. h \in [(1..N) \X Nat -> Nat]
    BY <2>1
  <2>3. PICK f : IsTable(f, N, Nat, 0, h)
    <3> HIDE DEF h, N
    <3> QED BY <1>2, <2>2, TableExists
  <2>4. ASSUME NEW n \in 0..N, n # 0 PROVE f[n] = f[n - 1] + IF n \in S THEN Bytes[n] ELSE 0
    <3>1. n \in 1..N /\ n - 1 \in 0..N
      BY SMTT(60), <1>2, <2>4
    <3>2. f[n] = h[<<n, f[n - 1]>>] /\ f[n - 1] \in Nat
      BY <2>3, <3>1 DEF IsTable
    <3>3. <<n, f[n - 1]>> \in (1..N) \X Nat
      BY <3>1, <3>2
    <3>4. f[n] = f[n - 1] + SizeIn(S, n)
      BY <3>2, <3>3
    <3> QED BY <3>4 DEF SizeIn
  <2>5. f = [n \in 0..N |-> f[n]] /\ f[0] = 0
    BY <2>3 DEF IsTable
  <2>6. f = Rule(f)
    BY <2>4, <2>5
  <2> HIDE DEF Rule
  <2> QED BY <2>6
<1> HIDE DEF g
<1>4. g[0] = 0
  BY <1>2, <1>3
<1>5. ASSUME NEW n \in 1..N
      PROVE  /\ g[n] = g[n - 1] + SizeIn(S, n)
             /\ g[n - 1] \in Nat => g[n] \in Nat
  <2>1. n \in 0..N /\ n # 0
    BY SMTT(60), <1>2
  <2>2. g[n] = g[n - 1] + IF n \in S THEN Bytes[n] ELSE 0
    BY <1>3, <2>1
  <2>3. g[n] = g[n - 1] + SizeIn(S, n)
    BY <2>2 DEF SizeIn
  <2>4. SizeIn(S, n) \in Nat
    BY SizeInIsNumber
  <2> QED BY SMTT(60), <2>3, <2>4
<1>6. \A n \in 0..N : g[n] \in Nat
  <2> DEFINE P == {n \in 0..N : g[n] \in Nat}
  <2>1. 0 \in P
    BY <1>2, <1>4
  <2>2. ASSUME NEW n \in 1..N, n - 1 \in P PROVE n \in P
    <3>1. n \in 0..N
      BY SMTT(60), <1>2
    <3> QED BY <1>5, <2>2, <3>1
  <2>3. \A n \in 0..N : n \in P
    <3> HIDE DEF P, N
    <3> QED BY <1>2, <2>1, <2>2, CountUpTo
  <2> QED BY <2>3
<1>7. g \in [0..N -> Nat]
  <2>1. g = [n \in 0..N |-> g[n]]
    BY <1>3
  <2> QED BY <1>6, <2>1
<1> QED BY <1>1, <1>4, <1>5, <1>7 DEF IsSum

\* Fewer reports are no larger.
LEMMA TotalSizeGrows ==
    ASSUME NEW S, NEW T, S \cap Sessions \subseteq T
    PROVE  /\ TotalSize(S) \in Nat /\ TotalSize(T) \in Nat
           /\ TotalSize(S) <= TotalSize(T)
<1> DEFINE N == Len(Bytes)
<1>1. PICK f : IsSum(f, S) /\ TotalSize(S) = f[N]
  BY TotalSizeIsSum
<1>2. PICK g : IsSum(g, T) /\ TotalSize(T) = g[N]
  BY TotalSizeIsSum
<1>3. N \in Nat /\ 0 \in 0..N /\ N \in 0..N
  BY SMTT(60), SizesAreNumbers
<1> DEFINE P == {i \in 0..N : f[i] <= g[i]}
<1>4. 0 \in P
  <2>1. f[0] <= g[0]
    BY SMTT(60), <1>1, <1>2 DEF IsSum
  <2> QED BY <1>3, <2>1
<1>5. ASSUME NEW i \in 1..N, i - 1 \in P PROVE i \in P
  <2>1. i \in 0..N /\ i - 1 \in 0..N /\ i \in Sessions
    BY SMTT(60), <1>3, SizesAreNumbers
  <2>2. f[i - 1] \in Nat /\ g[i - 1] \in Nat /\ f[i - 1] <= g[i - 1]
    BY <1>1, <1>2, <1>5, <2>1 DEF IsSum
  <2>3. SizeIn(S, i) <= SizeIn(T, i) /\ SizeIn(S, i) \in Nat /\ SizeIn(T, i) \in Nat
    BY SMTT(60), <2>1, SizesAreNumbers DEF SizeIn
  <2>4. f[i] = f[i - 1] + SizeIn(S, i) /\ g[i] = g[i - 1] + SizeIn(T, i)
    BY <1>1, <1>2 DEF IsSum
  <2>5. f[i] <= g[i]
    BY SMTT(60), <2>2, <2>3, <2>4
  <2> QED BY <2>1, <2>5
<1>6. \A i \in 0..N : i \in P
  <2> HIDE DEF P, N
  <2> QED BY <1>3, <1>4, <1>5, CountUpTo
<1>7. f[N] \in Nat /\ g[N] \in Nat
  BY <1>1, <1>2, <1>3 DEF IsSum
<1> QED BY <1>1, <1>2, <1>3, <1>6, <1>7

\* A report more adds its size.
LEMMA TotalSizeAdds ==
    ASSUME NEW S, NEW s \in Sessions, s \notin S
    PROVE  TotalSize(S \cup {s}) = TotalSize(S) + Bytes[s]
<1> DEFINE N == Len(Bytes)
           T == S \cup {s}
<1>1. PICK f : IsSum(f, S) /\ TotalSize(S) = f[N]
  BY TotalSizeIsSum
<1>2. PICK g : IsSum(g, T) /\ TotalSize(T) = g[N]
  BY TotalSizeIsSum
<1>3. N \in Nat /\ 0 \in 0..N /\ N \in 0..N /\ s \in 1..N /\ Bytes[s] \in Nat
  BY SMTT(60), SizesAreNumbers
<1> DEFINE P == {i \in 0..N : g[i] = f[i] + IF i < s THEN 0 ELSE Bytes[s]}
<1>4. 0 \in P
  <2>1. g[0] = f[0] + IF 0 < s THEN 0 ELSE Bytes[s]
    BY SMTT(60), <1>1, <1>2, <1>3 DEF IsSum
  <2> QED BY <1>3, <2>1
<1>5. ASSUME NEW i \in 1..N, i - 1 \in P PROVE i \in P
  <2>1. i \in 0..N /\ i - 1 \in 0..N /\ i \in Sessions
    BY SMTT(60), <1>3, SizesAreNumbers
  <2>2. f[i - 1] \in Nat /\ g[i - 1] \in Nat
    BY <1>1, <1>2, <2>1 DEF IsSum
  <2>3. g[i - 1] = f[i - 1] + IF i - 1 < s THEN 0 ELSE Bytes[s]
    BY <1>5
  <2>4. f[i] = f[i - 1] + SizeIn(S, i) /\ g[i] = g[i - 1] + SizeIn(T, i)
    BY <1>1, <1>2 DEF IsSum
  <2>5. SizeIn(S, i) \in Nat /\ SizeIn(T, i) = SizeIn(S, i) + IF i = s THEN Bytes[s] ELSE 0
    BY SMTT(60), <1>3, <2>1, SizesAreNumbers DEF SizeIn
  <2>6. g[i] = f[i] + IF i < s THEN 0 ELSE Bytes[s]
    <3> HIDE DEF T
    <3> QED BY SMTT(60), <1>3, <2>2, <2>3, <2>4, <2>5
  <2> QED BY <2>1, <2>6
<1>6. \A i \in 0..N : i \in P
  <2> HIDE DEF P, N
  <2> QED BY <1>3, <1>4, <1>5, CountUpTo
<1>7. ~(N < s)
  BY SMTT(60), <1>3
<1> QED BY <1>1, <1>2, <1>3, <1>6, <1>7

\* Nothing has no size.
LEMMA NothingHasNoSize ==
    ASSUME NEW S, S \cap Sessions = {}
    PROVE  TotalSize(S) = 0
<1> DEFINE N == Len(Bytes)
<1>1. PICK f : IsSum(f, S) /\ TotalSize(S) = f[N]
  BY TotalSizeIsSum
<1>2. N \in Nat /\ 0 \in 0..N /\ N \in 0..N
  BY SMTT(60), SizesAreNumbers
<1> DEFINE P == {i \in 0..N : f[i] = 0}
<1>3. 0 \in P
  BY <1>1, <1>2 DEF IsSum
<1>4. ASSUME NEW i \in 1..N, i - 1 \in P PROVE i \in P
  <2>1. i \in 0..N /\ i \in Sessions
    BY SMTT(60), <1>2, SizesAreNumbers
  <2>2. f[i] = f[i - 1] + SizeIn(S, i) /\ f[i - 1] = 0
    BY <1>1, <1>4 DEF IsSum
  <2>3. SizeIn(S, i) = 0
    BY <2>1 DEF SizeIn
  <2>4. f[i] = 0
    BY SMTT(60), <2>2, <2>3
  <2> QED BY <2>1, <2>4
<1>5. \A i \in 0..N : i \in P
  <2> HIDE DEF P, N
  <2> QED BY <1>2, <1>3, <1>4, CountUpTo
<1> QED BY <1>1, <1>2, <1>5

-----------------------------------------------------------------------------
(* What pruneReports keeps *)

InNumber(names, s) == Cardinality(Newer(names, s)) < MaxReports

\* What the i-th of the newest transfers adds to the reports kept before it.
Adds(names, i, before) ==
    {s \in names \cap Present :
        /\ s = Len(Bytes) + 1 - i
        /\ s \notin expired /\ InNumber(names, s)
        /\ TotalSize(before) + Bytes[s] <= MaxTotalBytes}

IsKept(f, names) ==
    /\ f \in [0..Len(Bytes) -> SUBSET Sessions] /\ f[0] = {}
    /\ \A i \in 1..Len(Bytes) : f[i] = f[i - 1] \cup Adds(names, i, f[i - 1])

\* The recursive definition of what is kept defines it.
LEMMA RetainedIsKept ==
    ASSUME NEW names
    PROVE  \E f : /\ IsKept(f, names)
                  /\ Retained(names) = f[Len(Bytes)] \cup {s \in names \ Present : InNumber(names, s)}
<1> DEFINE N == Len(Bytes)
           D == SUBSET Sessions
           Rule(f) == [i \in 0..N |->
                         IF i = 0 THEN {}
                         ELSE f[i - 1] \cup
                              {s \in names \cap Present :
                                 /\ s = N + 1 - i
                                 /\ s \notin expired /\ Cardinality(Newer(names, s)) < MaxReports
                                 /\ TotalSize(f[i - 1]) + Bytes[s] <= MaxTotalBytes}]
           g == CHOOSE f : f = Rule(f)
<1>1. Retained(names) = g[N] \cup {s \in names \ Present : InNumber(names, s)}
  BY DEF Retained, InNumber
<1>2. N \in Nat /\ {} \in D /\ 0 \in 0..N
  BY SMTT(60), SizesAreNumbers
<1>3. ASSUME NEW i, NEW b \in D PROVE b \cup Adds(names, i, b) \in D
  BY DEF Adds, Present
<1>4. \A f : Rule(f) = [i \in 0..N |-> IF i = 0 THEN {} ELSE f[i - 1] \cup Adds(names, i, f[i - 1])]
  BY DEF Adds, InNumber
<1> HIDE DEF Rule
<1>5. g = Rule(g)
  <2> DEFINE h == [p \in (1..N) \X D |-> p[2] \cup Adds(names, p[1], p[2])]
  <2>1. ASSUME NEW p \in (1..N) \X D PROVE p[2] \cup Adds(names, p[1], p[2]) \in D
    <3>1. p[2] \in D
      OBVIOUS
    <3> HIDE DEF D
    <3> QED BY <1>3, <3>1
  <2>2. h \in [(1..N) \X D -> D]
    <3> HIDE DEF D
    <3> QED BY <2>1
  <2>3. PICK f : IsTable(f, N, D, {}, h)
    <3> HIDE DEF h, N, D
    <3> QED BY <1>2, <2>2, TableExists
  <2>4. ASSUME NEW i \in 0..N, i # 0 PROVE f[i] = f[i - 1] \cup Adds(names, i, f[i - 1])
    <3>1. i \in 1..N /\ i - 1 \in 0..N
      BY SMTT(60), <1>2, <2>4
    <3>2. f[i] = h[<<i, f[i - 1]>>] /\ f[i - 1] \in D
      BY <2>3, <3>1 DEF IsTable
    <3>3. <<i, f[i - 1]>> \in (1..N) \X D
      BY <3>1, <3>2
    <3> HIDE DEF D
    <3> QED BY <3>2, <3>3
  <2>5. f = [i \in 0..N |-> f[i]] /\ f[0] = {}
    BY <2>3 DEF IsTable
  <2>6. f = Rule(f)
    BY <1>4, <2>4, <2>5
  <2> QED BY <2>6
<1> HIDE DEF g
<1>6. g[0] = {}
  BY <1>2, <1>4, <1>5
<1>7. ASSUME NEW i \in 1..N PROVE g[i] = g[i - 1] \cup Adds(names, i, g[i - 1])
  <2>1. i \in 0..N /\ i # 0
    BY SMTT(60), <1>2
  <2> QED BY <1>4, <1>5, <2>1
<1>8. \A i \in 0..N : g[i] \in D
  <2> DEFINE P == {i \in 0..N : g[i] \in D}
  <2>1. 0 \in P
    BY <1>2, <1>6
  <2>2. ASSUME NEW i \in 1..N, i - 1 \in P PROVE i \in P
    <3>1. i \in 0..N
      BY SMTT(60), <1>2
    <3>2. g[i - 1] \in D
      BY <2>2
    <3>3. g[i - 1] \cup Adds(names, i, g[i - 1]) \in D
      <4> HIDE DEF D
      <4> QED BY <1>3, <3>2
    <3>4. g[i] \in D
      BY <1>7, <3>3
    <3> QED BY <3>1, <3>4
  <2>3. \A i \in 0..N : i \in P
    <3> HIDE DEF P, N
    <3> QED BY <1>2, <2>1, <2>2, CountUpTo
  <2> QED BY <2>3
<1>9. g \in [0..N -> D]
  <2>1. g = [i \in 0..N |-> g[i]]
    BY <1>4, <1>5
  <2> HIDE DEF D
  <2> QED BY <1>8, <2>1
<1> QED BY <1>1, <1>6, <1>7, <1>9 DEF IsKept

\* What is kept is there and in number, the first i being the newest i, and its
\* size is limited.
LEMMA KeptIsLimited ==
    ASSUME NEW names, NEW f, IsKept(f, names), NEW i \in 0..Len(Bytes)
    PROVE  /\ \A s \in f[i] : s \in names \cap Present /\ s > Len(Bytes) - i /\ InNumber(names, s)
           /\ TotalSize(f[i]) <= MaxTotalBytes
<1> DEFINE N == Len(Bytes)
           Q(j) == \A s \in f[j] : s \in names \cap Present /\ s > N - j /\ InNumber(names, s)
           P == {j \in 0..N : Q(j) /\ TotalSize(f[j]) <= MaxTotalBytes}
<1>1. N \in Nat /\ MaxTotalBytes \in Nat /\ 0 \in 0..N
  BY SMTT(60), SizesAreNumbers
<1>2. 0 \in P
  <2>1. f[0] = {} /\ TotalSize({}) = 0
    BY NothingHasNoSize DEF IsKept
  <2>2. TotalSize(f[0]) <= MaxTotalBytes
    BY SMTT(60), <1>1, <2>1
  <2> QED BY <1>1, <2>1, <2>2
<1>3. ASSUME NEW j \in 1..N, j - 1 \in P PROVE j \in P
  <2>1. j \in 0..N /\ j - 1 \in 0..N /\ j \in Nat
    BY SMTT(60), <1>1
  <2>2. f[j] = f[j - 1] \cup Adds(names, j, f[j - 1])
    BY DEF IsKept
  <2>3. Q(j - 1) /\ TotalSize(f[j - 1]) <= MaxTotalBytes
    BY <1>3
  <2>4. Q(j)
    <3>1. ASSUME NEW s \in f[j - 1] PROVE s > N - j
      <4>1. s > N - (j - 1) /\ s \in Sessions
        BY <2>1, <2>3 DEF Present
      <4> QED BY SMTT(60), <1>1, <2>1, <4>1, SizesAreNumbers
    <3>2. ASSUME NEW s \in Adds(names, j, f[j - 1])
          PROVE  s \in names \cap Present /\ s > N - j /\ InNumber(names, s)
      <4>1. s = N + 1 - j /\ s \in names \cap Present /\ InNumber(names, s)
        BY DEF Adds
      <4> QED BY SMTT(60), <1>1, <2>1, <4>1
    <3> QED BY <2>2, <2>3, <3>1, <3>2
  <2>5. TotalSize(f[j]) <= MaxTotalBytes
    <3>1. CASE Adds(names, j, f[j - 1]) = {}
      <4>1. f[j] = f[j - 1]
        BY <2>2, <3>1
      <4> QED BY <2>3, <4>1
    <3>2. CASE Adds(names, j, f[j - 1]) # {}
      <4>1. PICK s \in Adds(names, j, f[j - 1]) : TRUE
        BY <3>2
      <4>2. s = N + 1 - j /\ s \in Sessions /\ TotalSize(f[j - 1]) + Bytes[s] <= MaxTotalBytes
        BY DEF Adds, Present
      <4>3. Adds(names, j, f[j - 1]) = {s}
        BY <4>1, <4>2 DEF Adds
      <4>4. s \notin f[j - 1]
        <5>1. ~(s > N - (j - 1))
          BY SMTT(60), <1>1, <2>1, <4>2
        <5> QED BY <2>3, <5>1
      <4>5. TotalSize(f[j]) = TotalSize(f[j - 1]) + Bytes[s]
        BY <2>2, <4>2, <4>3, <4>4, TotalSizeAdds
      <4> QED BY <4>2, <4>5
    <3> QED BY <3>1, <3>2
  <2> QED BY <2>1, <2>4, <2>5
<1>4. \A j \in 0..N : j \in P
  <2> HIDE DEF P, N
  <2> QED BY <1>1, <1>2, <1>3, CountUpTo
<1> QED BY <1>4

\* Reports that are in number are not too many.
LEMMA InNumberIsLimited ==
    ASSUME NEW names, names \subseteq Sessions,
           NEW K \in SUBSET (names \cap Present), \A s \in K : InNumber(names, s)
    PROVE  Cardinality(K) <= MaxReports
<1>1. IsFiniteSet(Sessions)
  <2>1. Len(Bytes) \in Int /\ 1 \in Int
    BY SMTT(60), SizesAreNumbers
  <2> QED BY <2>1, SizesAreNumbers, FS_Interval
<1>2. ASSUME NEW T, T \subseteq Sessions PROVE IsFiniteSet(T) /\ Cardinality(T) \in Nat
  BY <1>1, <1>2, FS_Subset, FS_CardinalityType
<1>3. MaxReports \in Nat /\ Sessions \subseteq Nat
  BY SMTT(60), SizesAreNumbers
<1>4. K \subseteq Sessions
  OBVIOUS
<1>5. CASE K = {}
  <2>1. Cardinality(K) = 0
    BY <1>5, FS_EmptySet
  <2> QED BY SMTT(60), <1>3, <2>1
<1>6. CASE K # {}
  <2>1. PICK m \in K : \A t \in K : m <= t
    BY <1>3, <1>4, <1>6, LeastNumber
  <2>2. K \ {m} \subseteq Newer(names, m)
    <3> SUFFICES ASSUME NEW t \in K, t # m PROVE t \in Newer(names, m)
      OBVIOUS
    <3>1. t > m
      <4>1. m <= t /\ t \in Nat /\ m \in Nat
        BY <1>3, <1>4, <2>1
      <4> QED BY SMTT(60), <4>1
    <3>2. t \in Present /\ m \in Present /\ t \in names
      OBVIOUS
    <3> QED BY <3>1, <3>2 DEF Newer
  <2>3. Newer(names, m) \subseteq Sessions
    BY DEF Newer
  <2>4. Cardinality(K \ {m}) <= Cardinality(Newer(names, m))
    BY <1>2, <2>2, <2>3, FS_Subset
  <2>5. Cardinality(K \ {m}) = Cardinality(K) - 1
    BY <1>2, <1>4, FS_RemoveElement
  <2>6. Cardinality(Newer(names, m)) < MaxReports
    BY DEF InNumber
  <2>7. Cardinality(K) \in Nat /\ Cardinality(Newer(names, m)) \in Nat
    BY <1>2, <1>4, <2>3
  <2> QED BY SMTT(60), <1>3, <2>4, <2>5, <2>6, <2>7
<1> QED BY <1>5, <1>6

\* What pruneReports keeps of the reports that are there respects both limits.
LEMMA RetainedIsLimited ==
    ASSUME NEW names, names \subseteq Sessions
    PROVE  Limited(Retained(names) \cap Present)
<1>1. PICK f : /\ IsKept(f, names)
               /\ Retained(names) = f[Len(Bytes)] \cup {s \in names \ Present : InNumber(names, s)}
  BY RetainedIsKept
<1>2. Len(Bytes) \in 0..Len(Bytes)
  BY SMTT(60), SizesAreNumbers
<1>3. /\ \A s \in f[Len(Bytes)] : s \in names \cap Present /\ InNumber(names, s)
      /\ TotalSize(f[Len(Bytes)]) <= MaxTotalBytes
  BY <1>1, <1>2, KeptIsLimited
<1>4. Retained(names) \cap Present = f[Len(Bytes)]
  BY <1>1, <1>3
<1>5. Cardinality(f[Len(Bytes)]) <= MaxReports
  BY <1>3, InNumberIsLimited
<1> QED BY <1>3, <1>4, <1>5 DEF Limited

\* The newest report is kept, if it fits.
LEMMA NewestIsRetained ==
    ASSUME NEW names, names \subseteq Sessions, NEW s \in names \cap Present, s \notin expired,
           \A t \in names \cap Present : t <= s, Bytes[s] <= MaxTotalBytes
    PROVE  s \in Retained(names)
<1> DEFINE N == Len(Bytes)
           k == N + 1 - s
<1>1. PICK f : IsKept(f, names) /\ f[N] \subseteq Retained(names)
  BY RetainedIsKept
<1>2. s \in Sessions /\ Sessions \subseteq Nat /\ N \in Nat
  BY SMTT(60), SizesAreNumbers
<1>3. k \in 1..N /\ k - 1 \in 0..N /\ k \in Nat /\ N \in 0..N /\ N - (k - 1) = s /\ s = N + 1 - k
  BY SMTT(60), SizesAreNumbers
<1> HIDE DEF k
<1>4. f[k - 1] = {}
  <2> SUFFICES ASSUME NEW t \in f[k - 1] PROVE FALSE
    OBVIOUS
  <2>1. t \in names \cap Present /\ t > N - (k - 1)
    BY <1>1, <1>3, KeptIsLimited
  <2>2. t <= s /\ t \in Nat /\ s \in Nat
    BY <1>2, <2>1
  <2> QED BY SMTT(60), <1>3, <2>1, <2>2
<1>5. InNumber(names, s)
  <2>1. ASSUME NEW t \in Newer(names, s) PROVE FALSE
    <3>1. t \in names
      BY DEF Newer
    <3>2. t \in Present /\ t > s
      BY DEF Newer
    <3>3. t <= s /\ t \in Nat /\ s \in Nat
      BY <1>2, <3>1, <3>2
    <3> QED BY SMTT(60), <3>2, <3>3
  <2>2. Newer(names, s) = {}
    BY <2>1
  <2>3. Cardinality(Newer(names, s)) = 0
    BY <2>2, FS_EmptySet
  <2>4. MaxReports \in Nat \ {0}
    BY SizesAreNumbers
  <2>5. Cardinality(Newer(names, s)) < MaxReports
    BY SMTT(60), <2>3, <2>4
  <2> QED BY <2>5 DEF InNumber
<1>6. TotalSize(f[k - 1]) + Bytes[s] <= MaxTotalBytes
  <2>1. TotalSize(f[k - 1]) = 0
    BY <1>4, NothingHasNoSize
  <2>2. Bytes[s] \in Nat /\ Bytes[s] <= MaxTotalBytes
    BY <1>2, SizesAreNumbers
  <2> QED BY SMTT(60), <2>1, <2>2
<1>7. s \in f[k]
  <2>1. s \in Adds(names, k, f[k - 1])
    BY <1>3, <1>5, <1>6 DEF Adds
  <2> QED BY <1>1, <1>3, <2>1 DEF IsKept
<1> DEFINE P == {j \in 0..N : j < k \/ s \in f[j]}
<1>8. 0 \in P
  BY SMTT(60), <1>2, <1>3
<1>9. ASSUME NEW j \in 1..N, j - 1 \in P PROVE j \in P
  <2>1. j \in 0..N /\ (j - 1 < k => j < k \/ j = k)
    BY SMTT(60), <1>2, <1>3
  <2>2. f[j] = f[j - 1] \cup Adds(names, j, f[j - 1])
    BY <1>1 DEF IsKept
  <2> QED BY <1>7, <1>9, <2>1, <2>2
<1>10. \A j \in 0..N : j \in P
  <2> HIDE DEF P, N
  <2> QED BY <1>2, <1>8, <1>9, CountUpTo
<1>11. ~(N < k)
  BY SMTT(60), <1>2, <1>3
<1> QED BY <1>1, <1>3, <1>10, <1>11

-----------------------------------------------------------------------------
(* Reports: what the steps share *)

Versions == Reports \cup {NoReport}
Stages == {"idle", "starting", "running", "finishing", "ending"}

\* A report covers itself and what it has grown from, and every report nothing.
LEMMA CoversItself ==
    ASSUME NEW r \in Versions
    PROVE  Covers(r, r)
BY SMTT(60) DEF Covers, Versions, Reports, NoReport

LEMMA CoversOlder ==
    ASSUME NEW p \in Versions, NEW q \in Versions, NEW r \in Versions, Covers(r, q), Covers(q, p)
    PROVE  Covers(r, p)
BY SMTT(60) DEF Covers, Versions, Reports, NoReport

LEMMA CoversNothing ==
    ASSUME NEW r \in Reports
    PROVE  Covers(r, NoReport)
BY SMTT(60) DEF Covers, Reports, NoReport

\* The values of a report that are no report.
LEMMA MarkersAreNoReports ==
    /\ NoReport \notin Reports /\ Partial \notin Reports /\ Partial # NoReport
    /\ EmptyReport \in Reports /\ ~NoReport.final
<1>1. NoReport.windows = -1 /\ Partial.windows = -2 /\ ~NoReport.final
  BY DEF NoReport, Partial
<1>2. \A r \in Reports : r.windows \in Nat
  BY DEF Reports
<1>3. -1 \notin Nat /\ -2 \notin Nat /\ -1 # -2
  BY SMTT(60)
<1>4. EmptyReport \in Reports
  <2>1. 0 \in Nat
    OBVIOUS
  <2> QED BY <2>1 DEF EmptyReport, Reports
<1> QED BY <1>1, <1>2, <1>3, <1>4

ReportIs(r, w, n, f) == r = [windows |-> w, notes |-> n, final |-> f]

\* What EXCEPT makes of a report.
LEMMA ReportFields ==
    ASSUME NEW r, NEW w, NEW n, NEW f, ReportIs(r, w, n, f), NEW x
    PROVE  /\ ReportIs([r EXCEPT !.windows = x], x, n, f)
           /\ ReportIs([r EXCEPT !.notes = x], w, x, f)
           /\ ReportIs([r EXCEPT !.final = x], w, n, x)
<1> DEFINE a == [r EXCEPT !.windows = x]
           b == [r EXCEPT !.notes = x]
           c == [r EXCEPT !.final = x]
<1>1. /\ a.windows = x /\ a.notes = n /\ a.final = f
      /\ a = [y \in {"windows", "notes", "final"} |-> a[y]]
  BY DEF ReportIs
<1>2. /\ b.windows = w /\ b.notes = x /\ b.final = f
      /\ b = [y \in {"windows", "notes", "final"} |-> b[y]]
  BY DEF ReportIs
<1>3. /\ c.windows = w /\ c.notes = n /\ c.final = x
      /\ c = [y \in {"windows", "notes", "final"} |-> c[y]]
  BY DEF ReportIs
<1> HIDE DEF a, b, c
<1>4. ReportIs(a, x, n, f) /\ ReportIs(b, w, x, f) /\ ReportIs(c, w, n, x)
  BY <1>1, <1>2, <1>3 DEF ReportIs
<1> QED BY <1>4 DEF a, b, c

\* A report made of its fields.
LEMMA ReportOfFields ==
    ASSUME NEW r, NEW w \in Nat, NEW n \in SUBSET Notes, NEW f \in BOOLEAN, ReportIs(r, w, n, f)
    PROVE  r \in Reports /\ r.windows = w /\ r.notes = n /\ r.final = f
BY DEF ReportIs, Reports

\* A report grows by a window, a note and its end.
LEMMA ReportGrows ==
    ASSUME NEW r \in Reports
    PROVE  /\ [r EXCEPT !.windows = @ + 1] \in Reports
           /\ Covers([r EXCEPT !.windows = @ + 1], r)
           /\ \A n \in Notes : /\ [r EXCEPT !.notes = @ \cup {n}] \in Reports
                               /\ Covers([r EXCEPT !.notes = @ \cup {n}], r)
           /\ [r EXCEPT !.final = TRUE] \in Reports
           /\ [r EXCEPT !.final = TRUE].final
           /\ Covers([r EXCEPT !.final = TRUE], r)
<1>1. PICK w \in Nat, m \in SUBSET Notes, f \in BOOLEAN :
        ReportIs(r, w, m, f) /\ r.windows = w /\ r.notes = m /\ r.final = f
  <2>1. r = [windows |-> r.windows, notes |-> r.notes, final |-> r.final]
    BY DEF Reports
  <2>2. r.windows \in Nat /\ r.notes \in SUBSET Notes /\ r.final \in BOOLEAN
    BY DEF Reports
  <2> QED BY <2>1, <2>2 DEF ReportIs
<1>2. w + 1 \in Nat /\ w + 1 >= w /\ w >= w
  BY SMTT(60)
<1>3. ASSUME NEW q, ReportIs(q, w + 1, m, f) PROVE q \in Reports /\ Covers(q, r)
  <2>1. q \in Reports /\ q.windows = w + 1 /\ q.notes = m /\ q.final = f
    BY <1>2, <1>3, ReportOfFields
  <2> QED BY <1>1, <1>2, <2>1 DEF Covers
<1>4. ASSUME NEW q, ReportIs(q, w, m, TRUE) PROVE q \in Reports /\ q.final /\ Covers(q, r)
  <2>1. TRUE \in BOOLEAN
    OBVIOUS
  <2>2. q \in Reports /\ q.windows = w /\ q.notes = m /\ q.final = TRUE
    BY <1>4, <2>1, ReportOfFields
  <2> QED BY <1>1, <1>2, <2>2 DEF Covers
<1>5. ASSUME NEW n \in Notes, NEW q, ReportIs(q, w, m \cup {n}, f) PROVE q \in Reports /\ Covers(q, r)
  <2>1. m \cup {n} \in SUBSET Notes /\ m \subseteq m \cup {n}
    OBVIOUS
  <2>2. q \in Reports /\ q.windows = w /\ q.notes = m \cup {n} /\ q.final = f
    BY <1>5, <2>1, ReportOfFields
  <2> QED BY <1>1, <1>2, <2>1, <2>2 DEF Covers
<1>6. ReportIs([r EXCEPT !.windows = r.windows + 1], w + 1, m, f)
  BY <1>1, ReportFields
<1>7. ReportIs([r EXCEPT !.final = TRUE], w, m, TRUE)
  BY <1>1, ReportFields
<1>8. \A n \in Notes : ReportIs([r EXCEPT !.notes = r.notes \cup {n}], w, m \cup {n}, f)
  BY <1>1, ReportFields
<1>9. /\ [r EXCEPT !.windows = r.windows + 1] \in Reports
      /\ Covers([r EXCEPT !.windows = r.windows + 1], r)
  BY <1>3, <1>6
<1>10. ASSUME NEW n \in Notes
       PROVE  /\ [r EXCEPT !.notes = r.notes \cup {n}] \in Reports
              /\ Covers([r EXCEPT !.notes = r.notes \cup {n}], r)
  BY <1>5, <1>8
<1>11. /\ [r EXCEPT !.final = TRUE] \in Reports
       /\ [r EXCEPT !.final = TRUE].final
       /\ Covers([r EXCEPT !.final = TRUE], r)
  BY <1>4, <1>7
<1> QED BY <1>9, <1>10, <1>11

\* Fewer reports stay within the limits.
LEMMA FewerAreLimited ==
    ASSUME NEW T \in SUBSET Sessions, NEW S \in SUBSET T, Limited(T)
    PROVE  Limited(S)
<1>1. IsFiniteSet(Sessions)
  <2>1. Len(Bytes) \in Int /\ 1 \in Int
    BY SMTT(60), SizesAreNumbers
  <2> QED BY <2>1, SizesAreNumbers, FS_Interval
<1>2. IsFiniteSet(T) /\ Cardinality(S) <= Cardinality(T) /\ IsFiniteSet(S)
  BY <1>1, FS_Subset
<1>3. Cardinality(S) \in Nat /\ Cardinality(T) \in Nat /\ MaxReports \in Nat /\ MaxTotalBytes \in Nat
  BY <1>2, FS_CardinalityType, SizesAreNumbers
<1>4. TotalSize(S) \in Nat /\ TotalSize(T) \in Nat /\ TotalSize(S) <= TotalSize(T)
  BY TotalSizeGrows
<1>5. Cardinality(T) <= MaxReports /\ TotalSize(T) <= MaxTotalBytes
  BY DEF Limited
<1>6. Cardinality(S) <= MaxReports /\ TotalSize(S) <= MaxTotalBytes
  BY ONLY SMTT(60), <1>2, <1>3, <1>4, <1>5
<1> QED BY <1>6 DEF Limited

\* Which reports are there depends on the files alone.
LEMMA PresentStays ==
    ASSUME UNCHANGED files
    PROVE  Present' = Present
BY DEF Present

\* Deleting a file removes one.
LEMMA PresentShrinks ==
    ASSUME NEW s \in Sessions, files \in [Sessions -> Versions \cup {Partial}],
           files' = [files EXCEPT ![s] = NoReport]
    PROVE  /\ Present' = Present \ {s}
           /\ files'[s] = NoReport
           /\ \A t \in Sessions \ {s} : files'[t] = files[t]
           /\ files' \in [Sessions -> Versions \cup {Partial}]
<1>1. /\ files'[s] = NoReport
      /\ \A t \in Sessions \ {s} : files'[t] = files[t]
  OBVIOUS
<1>2. files' \in [Sessions -> Versions \cup {Partial}]
  BY DEF Versions
<1> QED BY <1>1, <1>2 DEF Present

\* PruneGood lasts while reports are only removed and the write chain rests.
LEMMA PruneStays ==
    ASSUME PruneGood, Present' \subseteq Present, UNCHANGED <<writer, pruneDue, session>>,
           disturbed => disturbed'
    PROVE  PruneGood'
<1>1. Present \subseteq Sessions /\ Present \ writer.doomed \subseteq Sessions
  BY DEF Present
<1>2. writer'.pc \in {"clean", "info"} => Present' \subseteq writer'.names
  BY DEF PruneGood
<1>5. Kept' => Kept
  BY DEF Kept
<1>3. ASSUME writer.pc = "delete"
      PROVE  Limited(Present \ writer.doomed)' /\ (Kept' => session' \notin writer'.doomed)
  <2>1. Limited(Present \ writer.doomed) /\ (Kept => session \notin writer.doomed)
    BY <1>3 DEF PruneGood
  <2>2. Limited(Present' \ writer.doomed)
    BY <1>1, <2>1, FewerAreLimited
  <2>3. Limited(Present \ writer.doomed)'
    BY <2>2 DEF Limited, TotalSize
  <2> QED BY <1>5, <2>1, <2>3
<1>4. ASSUME ~pruneDue PROVE Limited(Present)'
  <2>1. Limited(Present)
    BY <1>4 DEF PruneGood
  <2>2. Limited(Present')
    BY <1>1, <2>1, FewerAreLimited
  <2> QED BY <2>2 DEF Limited, TotalSize
<1> QED BY <1>2, <1>3, <1>4 DEF PruneGood

\* FilesGood lasts while no file is written.
LEMMA FilesStay ==
    ASSUME ReportTypes, FilesGood, UNCHANGED <<files, temporary, synced, session>>
    PROVE  FilesGood'
BY DEF FilesGood, Covers

\* The types of the rest, where only the transfer goes on.
LEMMA MemoryTypes ==
    ASSUME ReportTypes, UNCHANGED <<writer, lister, files, temporary, synced, expired, session>>,
           progress' \in Stages, hidden' \in BOOLEAN, report' \in Versions, revision' \in Nat,
           persistedRevision' \in 0..revision', writeScheduled' \in BOOLEAN
    PROVE  ReportTypes'
BY DEF ReportTypes, ReportTypeOK, IsTask, Stages, Versions

-----------------------------------------------------------------------------
(* Reports: the transfer *)

\* The numbers of the invariant.
LEMMA ReportNumbers ==
    ASSUME ReportTypes
    PROVE  /\ revision \in Nat /\ persistedRevision \in Nat /\ persistedRevision <= revision
           /\ writer.target \in Nat /\ session \in Nat
<1>1. revision \in Nat /\ persistedRevision \in 0..revision /\ session \in 0..Len(Bytes)
  BY DEF ReportTypes, ReportTypeOK
<1>2. writer.target \in Nat
  BY DEF ReportTypes, IsTask
<1> QED BY ONLY SMTT(60), <1>1, <1>2

\* The report of a transfer only grows, and what is queued is a new revision;
\* only the end of the transfer makes the report final.
LEMMA TransferGoesOn ==
    ASSUME ReportInv,
           UNCHANGED <<session, persistedRevision, writer, lister, temporary, files, expired,
                       synced, disturbed, pruneDue>>,
           hidden' \in BOOLEAN, progress # "idle", progress' \in Stages \ {"idle"},
           report' \in Reports, Covers(report', report),
           revision' \in Nat, revision <= revision', writeScheduled' \in BOOLEAN,
           writeScheduled => writeScheduled',
           ~writeScheduled /\ writeScheduled' => revision < revision',
           ~writeScheduled' => revision' = revision,
           Over(progress') => report'.final,
           \/ Over(progress') => Over(progress) /\ report' = report /\ revision' = revision
           \/ revision < revision',
           progress' = "ending" =>
              progress = "ending" \/ (writer.pc = "idle" /\ (Kept => files[session].final))
    PROVE  ReportInv'
<1>1. /\ ReportTypes /\ FilesGood /\ MemoryGood /\ WriterGood /\ PruneGood
      /\ session \in Sessions /\ report \in Reports /\ Covers(report, synced[session])
      /\ synced[session] \in Versions
  <2>1. ReportTypes /\ FilesGood /\ MemoryGood /\ WriterGood /\ PruneGood
    BY DEF ReportInv
  <2>2. session \in Sessions /\ report \in Reports /\ Covers(report, synced[session])
    BY <2>1 DEF MemoryGood
  <2> QED BY <2>1, <2>2 DEF ReportTypes, Versions
<1>2. /\ revision \in Nat /\ persistedRevision \in Nat /\ persistedRevision <= revision
      /\ writer.target \in Nat
  BY <1>1, ReportNumbers
<1>3. persistedRevision \in 0..revision' /\ persistedRevision <= revision'
  BY ONLY SMTT(60), <1>2, revision <= revision', revision' \in Nat
<1>4. ReportTypes'
  <2>1. report' \in Versions /\ progress' \in Stages
    BY DEF Versions
  <2> QED BY <1>1, <1>3, <2>1, MemoryTypes
<1>5. FilesGood' /\ PruneGood'
  <2>1. Present' \subseteq Present
    BY PresentStays
  <2> QED BY <1>1, <2>1, FilesStay, PruneStays
<1>6. Covers(report', synced[session])
  BY <1>1, CoversOlder DEF Versions
<1>7. MemoryGood'
  <2>1. writer.pc = "idle" /\ writeScheduled' => persistedRevision < revision'
    <3>1. writer.pc = "idle" /\ writeScheduled => persistedRevision < revision
      BY <1>1 DEF MemoryGood
    <3> QED BY ONLY SMTT(60), <1>2, <3>1, revision <= revision', revision' \in Nat,
               ~writeScheduled /\ writeScheduled' => revision < revision'
  <2>2. ~writeScheduled' /\ ~disturbed => persistedRevision = revision'
    BY <1>1 DEF MemoryGood
  <2>3. Over(progress') /\ persistedRevision = revision' /\ Kept => files[session] = report'
    <3>1. revision < revision' => persistedRevision # revision'
      BY ONLY SMTT(60), <1>2, revision' \in Nat
    <3> QED BY <1>1, <3>1 DEF MemoryGood
  <2>4. report' # NoReport => session \in Sessions
    BY <1>1
  <2>5. Covers(report, synced[session])'
    BY <1>6 DEF Covers
  <2>6. Kept' <=> Kept
    BY DEF Kept
  <2>7. Flushed' /\ LateGood'
    BY <1>1, <2>6 DEF Flushed, LateGood, MemoryGood
  <2> QED BY <1>1, <2>1, <2>2, <2>3, <2>4, <2>5, <2>6, <2>7 DEF MemoryGood
<1>8. WriterGood'
  <2> SUFFICES ASSUME writer.pc # "idle" PROVE WriterGood'
    BY DEF WriterGood
  <2>1. /\ writeScheduled /\ persistedRevision < writer.target /\ writer.target <= revision
        /\ writer.snapshot \in Reports
        /\ Covers(writer.snapshot, synced[session]) /\ Covers(report, writer.snapshot)
        /\ Over(progress) /\ writer.target = revision => writer.snapshot = report
        /\ progress = "ending" => writer.snapshot.final
    BY <1>1 DEF WriterGood
  <2>2. Covers(report', writer.snapshot)
    BY <1>1, <2>1, CoversOlder DEF Versions
  <2>3. writer.target <= revision' /\ (revision < revision' => writer.target # revision')
    BY ONLY SMTT(60), <1>2, <2>1, revision <= revision', revision' \in Nat
  <2>4. Over(progress') /\ writer.target = revision' => writer.snapshot = report'
    BY <2>1, <2>3
  <2>5. Covers(writer.snapshot, synced[session])' /\ Covers(report, writer.snapshot)'
    BY <2>1, <2>2 DEF Covers
  <2>6. (progress' = "ending" => writer.snapshot.final) /\ (Kept' <=> Kept)
    BY <2>1 DEF Kept
  <2> QED BY <1>1, <2>1, <2>3, <2>4, <2>5, <2>6 DEF WriterGood
<1> QED BY <1>4, <1>5, <1>7, <1>8 DEF ReportInv

\* The first write of a transfer is over.
LEMMA BegunStep ==
    ASSUME ReportInv, Begun
    PROVE  ReportInv'
<1>1. /\ progress = "starting" /\ progress' = "running"
      /\ UNCHANGED <<session, persistedRevision, writer, lister, temporary, files, expired,
                     synced, disturbed, pruneDue, hidden, report, revision, writeScheduled>>
  BY DEF Begun, history
<1>2. /\ report \in Reports /\ hidden \in BOOLEAN /\ revision \in Nat /\ writeScheduled \in BOOLEAN
  BY <1>1 DEF ReportInv, MemoryGood, ReportTypes, ReportTypeOK
<1>3. Covers(report, report) /\ revision <= revision /\ progress' \in Stages \ {"idle"}
  <2>1. revision <= revision
    BY SMTT(60), <1>2
  <2> QED BY <1>1, <1>2, <2>1, CoversItself DEF Versions, Stages
<1>4. ~Over(progress') /\ progress' # "ending"
  BY <1>1 DEF Over
<1> QED BY <1>1, <1>2, <1>3, <1>4, TransferGoesOn

\* The user leaves the transfer.
LEMMA HideTransferStep ==
    ASSUME ReportInv, HideTransfer
    PROVE  ReportInv'
<1>1. /\ progress # "idle" /\ hidden' = TRUE
      /\ UNCHANGED <<session, persistedRevision, writer, lister, temporary, files, expired,
                     synced, disturbed, pruneDue, progress, report, revision, writeScheduled>>
  BY DEF HideTransfer, history
<1>2. /\ report \in Reports /\ revision \in Nat /\ writeScheduled \in BOOLEAN
      /\ progress \in Stages /\ (Over(progress) => report.final)
  BY <1>1 DEF ReportInv, MemoryGood, ReportTypes, ReportTypeOK, Stages
<1>3. Covers(report, report) /\ revision <= revision /\ hidden' \in BOOLEAN
  <2>1. revision <= revision
    BY SMTT(60), <1>2
  <2> QED BY <1>1, <1>2, <2>1, CoversItself DEF Versions
<1> QED BY <1>1, <1>2, <1>3, TransferGoesOn

\* What the steps that queue a write have in common.
LEMMA QueuedIsNewer ==
    ASSUME ReportInv, NEW r \in Reports, Covers(r, report), QueueWrite(r),
           UNCHANGED <<session, persistedRevision, writer, lister, temporary, files, expired,
                       synced, disturbed, pruneDue, hidden>>,
           progress # "idle", progress' \in Stages \ {"idle"}, Over(progress') => r.final,
           progress' = "ending" => progress = "ending"
    PROVE  ReportInv'
<1>1. report' = r /\ revision' = revision + 1 /\ writeScheduled' = TRUE
  BY DEF QueueWrite
<1>2. revision \in Nat /\ hidden \in BOOLEAN
  BY DEF ReportInv, ReportTypes, ReportTypeOK
<1>3. revision' \in Nat /\ revision <= revision' /\ revision < revision'
  BY ONLY SMTT(60), <1>1, <1>2
<1> QED BY <1>1, <1>2, <1>3, TransferGoesOn

\* A window is counted, and written at every PersistInterval-th.
LEMMA CheckpointWindowStep ==
    ASSUME ReportInv, CheckpointWindow
    PROVE  ReportInv'
<1> DEFINE r == [report EXCEPT !.windows = @ + 1]
<1>1. /\ progress = "running" /\ progress' = progress
      /\ UNCHANGED <<session, persistedRevision, writer, lister, temporary, files, expired,
                     synced, disturbed, pruneDue, hidden>>
      /\ QueueWrite(r) \/ (report' = r /\ UNCHANGED <<revision, writeScheduled>>)
  BY DEF CheckpointWindow, history
<1>2. /\ report \in Reports /\ revision \in Nat /\ writeScheduled \in BOOLEAN /\ hidden \in BOOLEAN
  BY <1>1 DEF ReportInv, MemoryGood, ReportTypes, ReportTypeOK
<1>3. r \in Reports /\ Covers(r, report)
  BY <1>2, ReportGrows
<1>4. progress' \in Stages \ {"idle"} /\ ~Over(progress') /\ progress # "idle" /\ progress' # "ending"
  BY <1>1 DEF Stages, Over
<1> HIDE DEF r
<1>5. CASE QueueWrite(r)
  BY <1>1, <1>3, <1>4, <1>5, QueuedIsNewer
<1>6. CASE report' = r /\ UNCHANGED <<revision, writeScheduled>>
  <2>1. revision <= revision
    BY SMTT(60), <1>2
  <2> QED BY <1>1, <1>2, <1>3, <1>4, <1>6, <2>1, TransferGoesOn
<1> QED BY <1>1, <1>5, <1>6

\* Measurements are noted in memory.
LEMMA RecordMeasurementsStep ==
    ASSUME ReportInv, RecordMeasurements
    PROVE  ReportInv'
<1> DEFINE r == [report EXCEPT !.notes = @ \cup {"measurements"}]
<1>1. /\ progress = "running" /\ report' = r
      /\ UNCHANGED <<session, persistedRevision, writer, lister, temporary, files, expired,
                     synced, disturbed, pruneDue, hidden, revision, writeScheduled, progress>>
  BY DEF RecordMeasurements, history
<1>2. /\ report \in Reports /\ revision \in Nat /\ writeScheduled \in BOOLEAN /\ hidden \in BOOLEAN
  BY <1>1 DEF ReportInv, MemoryGood, ReportTypes, ReportTypeOK
<1>3. r \in Reports /\ Covers(r, report)
  BY <1>2, ReportGrows DEF Notes
<1>4. progress' \in Stages \ {"idle"} /\ ~Over(progress') /\ progress # "idle" /\ progress' # "ending"
  BY <1>1 DEF Stages, Over
<1>5. revision <= revision
  BY SMTT(60), <1>2
<1> HIDE DEF r
<1> QED BY <1>1, <1>2, <1>3, <1>4, <1>5, TransferGoesOn

\* The totals are noted and written.
LEMMA UpdateTransferStep ==
    ASSUME ReportInv, UpdateTransfer
    PROVE  ReportInv'
<1> DEFINE r == [report EXCEPT !.notes = @ \cup {"totals"}]
<1>1. /\ progress = "running" /\ QueueWrite(r)
      /\ UNCHANGED <<session, persistedRevision, writer, lister, temporary, files, expired,
                     synced, disturbed, pruneDue, hidden, progress>>
  BY DEF UpdateTransfer, history
<1>2. report \in Reports
  BY <1>1 DEF ReportInv, MemoryGood
<1>3. r \in Reports /\ Covers(r, report)
  BY <1>2, ReportGrows DEF Notes
<1>4. progress' \in Stages \ {"idle"} /\ ~Over(progress') /\ progress # "idle" /\ progress' # "ending"
  BY <1>1 DEF Stages, Over
<1> HIDE DEF r
<1> QED BY <1>1, <1>3, <1>4, QueuedIsNewer

\* The thermal state is noted and written, at any time of the transfer.
LEMMA RecordThermalStep ==
    ASSUME ReportInv, RecordThermal
    PROVE  ReportInv'
<1> DEFINE r == [report EXCEPT !.notes = @ \cup {"thermal"}]
<1>1. /\ progress # "idle" /\ QueueWrite(r)
      /\ UNCHANGED <<session, persistedRevision, writer, lister, temporary, files, expired,
                     synced, disturbed, pruneDue, hidden, progress>>
  BY DEF RecordThermal, history
<1>2. report \in Reports /\ progress \in Stages /\ (Over(progress) => report.final)
  BY <1>1 DEF ReportInv, MemoryGood, ReportTypes, ReportTypeOK, Stages
<1>3. r \in Reports /\ Covers(r, report)
  BY <1>2, ReportGrows DEF Notes
<1>4. Over(progress') => r.final
  BY <1>1, <1>2, <1>3 DEF Covers
<1> HIDE DEF r
<1> QED BY <1>1, <1>2, <1>3, <1>4, QueuedIsNewer

\* The report becomes final and is written.
LEMMA FinishReportStep ==
    ASSUME ReportInv, FinishReport
    PROVE  ReportInv'
<1> DEFINE r == [report EXCEPT !.final = TRUE]
<1>1. /\ progress = "running" /\ progress' = "finishing" /\ QueueWrite(r)
      /\ UNCHANGED <<session, persistedRevision, writer, lister, temporary, files, expired,
                     synced, disturbed, pruneDue, hidden>>
  BY DEF FinishReport, history
<1>2. report \in Reports
  BY <1>1 DEF ReportInv, MemoryGood
<1>3. r \in Reports /\ Covers(r, report) /\ r.final
  BY <1>2, ReportGrows
<1>4. progress' \in Stages \ {"idle"} /\ progress # "idle" /\ progress' # "ending"
  BY <1>1 DEF Stages
<1> HIDE DEF r
<1> QED BY <1>1, <1>3, <1>4, QueuedIsNewer

\* finish() returns: the last revision is on the phone.
LEMMA FinishedStep ==
    ASSUME ReportInv, Finished
    PROVE  ReportInv'
<1>1. /\ progress = "finishing" /\ progress' = "ending" /\ writer.pc = "idle" /\ ~writeScheduled
      /\ UNCHANGED <<session, persistedRevision, writer, lister, temporary, files, expired,
                     synced, disturbed, pruneDue, hidden, report, revision, writeScheduled>>
  BY DEF Finished, history, ChainSettled
<1>2. /\ report \in Reports /\ hidden \in BOOLEAN /\ revision \in Nat /\ writeScheduled \in BOOLEAN
  BY <1>1 DEF ReportInv, MemoryGood, ReportTypes, ReportTypeOK
<1>3. Covers(report, report) /\ revision <= revision /\ progress' \in Stages \ {"idle"}
  <2>1. revision <= revision
    BY SMTT(60), <1>2
  <2> QED BY <1>1, <1>2, <2>1, CoversItself DEF Versions, Stages
<1>4. Over(progress)
  BY <1>1 DEF Over
<1>5. report.final /\ (Kept => files[session].final)
  <2>1. MemoryGood
    BY DEF ReportInv
  <2>2. report.final /\ (~disturbed => persistedRevision = revision)
    BY <1>1, <1>4, <2>1 DEF MemoryGood
  <2> QED BY <1>4, <2>1, <2>2 DEF MemoryGood, Kept
<1> QED BY <1>1, <1>2, <1>3, <1>4, <1>5, TransferGoesOn

\* The transfer is over: the last revision is on the phone.
LEMMA TransferEndedStep ==
    ASSUME ReportInv, TransferEnded
    PROVE  ReportInv'
<1>1. /\ progress = "ending" /\ progress' = "idle" /\ writer.pc = "idle" /\ ~writeScheduled
      /\ UNCHANGED <<session, persistedRevision, writer, lister, temporary, files, expired,
                     synced, disturbed, pruneDue, hidden, report, revision, writeScheduled>>
  BY DEF TransferEnded, history, ChainSettled
<1>2. ReportTypes /\ FilesGood /\ MemoryGood /\ WriterGood /\ PruneGood
  BY DEF ReportInv
<1>3. ReportTypes'
  <2>1. /\ hidden \in BOOLEAN /\ report \in Versions /\ revision \in Nat
        /\ persistedRevision \in 0..revision /\ writeScheduled \in BOOLEAN /\ progress' \in Stages
    BY <1>1, <1>2 DEF ReportTypes, ReportTypeOK, Versions, Stages
  <2> QED BY <1>1, <1>2, <2>1, MemoryTypes
<1>4. FilesGood' /\ PruneGood'
  <2>1. Present' \subseteq Present
    BY <1>1, PresentStays
  <2> QED BY <1>1, <1>2, <2>1, FilesStay, PruneStays
<1>5. Flushed' /\ LateGood'
  <2>1. Over(progress)
    BY <1>1 DEF Over
  <2>2. report.final /\ (~disturbed => persistedRevision = revision)
    BY <1>1, <1>2, <2>1 DEF MemoryGood
  <2>3. Kept => files[session] = report
    BY <1>2, <2>1, <2>2 DEF MemoryGood, Kept
  <2>4. Kept' <=> Kept
    BY <1>1 DEF Kept
  <2> QED BY <1>1, <2>2, <2>3, <2>4 DEF Flushed, LateGood
<1>6. MemoryGood'
  <2>1. ~Over(progress')
    BY <1>1 DEF Over
  <2> QED BY <1>1, <1>2, <1>5, <2>1 DEF MemoryGood
<1>7. WriterGood'
  BY <1>1 DEF WriterGood
<1> QED BY <1>3, <1>4, <1>6, <1>7 DEF ReportInv

\* The next transfer starts with nothing on the phone.
LEMMA BeginReportStep ==
    ASSUME ReportInv, BeginReport
    PROVE  ReportInv'
<1>1. /\ progress = "idle" /\ session < Len(Bytes) /\ session' = session + 1
      /\ progress' = "starting" /\ hidden' = FALSE /\ report' = EmptyReport
      /\ revision' = 1 /\ persistedRevision' = 0 /\ writeScheduled' = TRUE /\ disturbed' = FALSE
      /\ UNCHANGED <<writer, lister, temporary, files, expired, synced, pruneDue>>
  BY DEF BeginReport
<1>2. ReportTypes /\ FilesGood /\ MemoryGood /\ WriterGood /\ PruneGood
  BY DEF ReportInv
<1>3. writer.pc = "idle"
  BY <1>1, <1>2 DEF MemoryGood
<1>4. /\ session \in Nat /\ session' \in Sessions /\ session' \in 0..Len(Bytes) /\ session' > session
      /\ \A s \in Sessions : s > session' => s > session
      /\ \A s \in Sessions : s < session => s < session'
  BY SMTT(60), <1>1, <1>2, SizesAreNumbers DEF ReportTypes, ReportTypeOK
<1>5. 0 \in 0..1 /\ 1 \in Nat /\ 0 < 1
  BY SMTT(60)
<1>6. ReportTypes'
  BY <1>1, <1>2, <1>4, <1>5, MarkersAreNoReports DEF ReportTypes, ReportTypeOK, IsTask
<1>7. FilesGood'
  BY <1>1, <1>2, <1>4 DEF FilesGood, Covers
<1>8. MemoryGood'
  <2>1. synced[session'] = NoReport
    BY <1>2, <1>4 DEF FilesGood
  <2>2. Covers(report', synced[session'])
    BY <1>1, <2>1, CoversNothing, MarkersAreNoReports
  <2>3. Covers(report, synced[session])'
    BY <1>1, <2>2 DEF Covers
  <2>4. ~Over(progress')
    BY <1>1 DEF Over
  <2> QED BY <1>1, <1>4, <1>5, <2>3, <2>4, MarkersAreNoReports DEF MemoryGood, Flushed, LateGood
<1>9. WriterGood'
  BY <1>1, <1>3 DEF WriterGood
<1>10. PruneGood'
  <2>1. Present' = Present
    BY <1>1, PresentStays
  <2>2. ~pruneDue => Limited(Present)
    BY <1>2 DEF PruneGood
  <2>3. ~pruneDue => Limited(Present)'
    BY <2>1, <2>2 DEF Limited, TotalSize
  <2> QED BY <1>1, <1>3, <2>3 DEF PruneGood
<1> QED BY <1>6, <1>7, <1>8, <1>9, <1>10 DEF ReportInv

-----------------------------------------------------------------------------
(* Reports: the write chain *)

TaskIs(w, p, t, s, x, n, d) ==
    w = [pc |-> p, target |-> t, snapshot |-> s, temps |-> x, names |-> n, doomed |-> d]

FieldsFit(t, x, n, d) == t \in Nat /\ x \subseteq Sessions /\ n \subseteq Sessions /\ d \subseteq Sessions

\* A task made of its fields.
LEMMA TaskOfFields ==
    ASSUME NEW w, NEW p, NEW t, NEW s, NEW x, NEW n, NEW d,
           FieldsFit(t, x, n, d), TaskIs(w, p, t, s, x, n, d)
    PROVE  /\ IsTask(w)
           /\ w.pc = p /\ w.target = t /\ w.snapshot = s
           /\ w.temps = x /\ w.names = n /\ w.doomed = d
<1>1. /\ w.pc = p /\ w.target = t /\ w.snapshot = s
      /\ w.temps = x /\ w.names = n /\ w.doomed = d
  BY DEF TaskIs
<1>2. w = [pc |-> w.pc, target |-> w.target, snapshot |-> w.snapshot, temps |-> w.temps,
           names |-> w.names, doomed |-> w.doomed]
  BY <1>1 DEF TaskIs
<1> QED BY <1>1, <1>2 DEF IsTask, FieldsFit

\* What EXCEPT makes of a task.
LEMMA TaskFields ==
    ASSUME NEW w, NEW p, NEW t, NEW s, NEW x, NEW n, NEW d, TaskIs(w, p, t, s, x, n, d),
           NEW q, NEW u, NEW v
    PROVE  /\ TaskIs([w EXCEPT !.pc = q], q, t, s, x, n, d)
           /\ TaskIs([w EXCEPT !.doomed = u], p, t, s, x, n, u)
           /\ TaskIs([w EXCEPT !.pc = q, !.doomed = u], q, t, s, x, n, u)
           /\ TaskIs([w EXCEPT !.pc = q, !.names = u, !.temps = v], q, t, s, v, u, d)
           /\ TaskIs([w EXCEPT !.pc = q, !.target = u, !.snapshot = v], q, u, v, x, n, d)
<1> DEFINE F == {"pc", "target", "snapshot", "temps", "names", "doomed"}
           a == [w EXCEPT !.pc = q]
           b == [w EXCEPT !.doomed = u]
           c == [w EXCEPT !.pc = q, !.doomed = u]
           e == [w EXCEPT !.pc = q, !.names = u, !.temps = v]
           f == [w EXCEPT !.pc = q, !.target = u, !.snapshot = v]
<1>1. /\ a.pc = q /\ a.target = t /\ a.snapshot = s /\ a.temps = x /\ a.names = n /\ a.doomed = d
      /\ a = [y \in F |-> a[y]]
  BY DEF TaskIs
<1>2. /\ b.pc = p /\ b.target = t /\ b.snapshot = s /\ b.temps = x /\ b.names = n /\ b.doomed = u
      /\ b = [y \in F |-> b[y]]
  BY DEF TaskIs
<1>3. /\ c.pc = q /\ c.target = t /\ c.snapshot = s /\ c.temps = x /\ c.names = n /\ c.doomed = u
      /\ c = [y \in F |-> c[y]]
  BY DEF TaskIs
<1>4. /\ e.pc = q /\ e.target = t /\ e.snapshot = s /\ e.temps = v /\ e.names = u /\ e.doomed = d
      /\ e = [y \in F |-> e[y]]
  BY DEF TaskIs
<1>5. /\ f.pc = q /\ f.target = u /\ f.snapshot = v /\ f.temps = x /\ f.names = n /\ f.doomed = d
      /\ f = [y \in F |-> f[y]]
  BY DEF TaskIs
<1> HIDE DEF a, b, c, e, f
<1>6. TaskIs(a, q, t, s, x, n, d)
  BY <1>1 DEF TaskIs
<1>7. TaskIs(b, p, t, s, x, n, u)
  BY <1>2 DEF TaskIs
<1>8. TaskIs(c, q, t, s, x, n, u)
  BY <1>3 DEF TaskIs
<1>9. TaskIs(e, q, t, s, v, u, d)
  BY <1>4 DEF TaskIs
<1>10. TaskIs(f, q, u, v, x, n, d)
  BY <1>5 DEF TaskIs
<1> QED BY <1>6, <1>7, <1>8, <1>9, <1>10 DEF a, b, c, e, f

\* A task has its fields.
LEMMA TaskHasFields ==
    ASSUME NEW w, IsTask(w)
    PROVE  \E p, t, s, x, n, d :
              /\ TaskIs(w, p, t, s, x, n, d) /\ FieldsFit(t, x, n, d)
              /\ w.pc = p /\ w.target = t /\ w.snapshot = s
              /\ w.temps = x /\ w.names = n /\ w.doomed = d
<1>1. TaskIs(w, w.pc, w.target, w.snapshot, w.temps, w.names, w.doomed)
  BY DEF IsTask, TaskIs
<1>2. FieldsFit(w.target, w.temps, w.names, w.doomed)
  BY DEF IsTask, FieldsFit
<1> QED BY <1>1, <1>2

Deletes(v, w, r) == v = [w EXCEPT !.doomed = w.doomed \ {r}]
Moves(v, w, q) == v = [w EXCEPT !.pc = q]
SameWork(v, w) == v.target = w.target /\ v.snapshot = w.snapshot

\* The steps of a task change the fields they name.
LEMMA TaskGoesOn ==
    ASSUME NEW w, IsTask(w), NEW v, NEW q, Moves(v, w, q)
    PROVE  /\ IsTask(v) /\ v.pc = q /\ SameWork(v, w)
           /\ v.temps = w.temps /\ v.names = w.names /\ v.doomed = w.doomed
<1>1. PICK p, t, s, x, n, d :
        /\ TaskIs(w, p, t, s, x, n, d) /\ FieldsFit(t, x, n, d)
        /\ w.pc = p /\ w.target = t /\ w.snapshot = s
        /\ w.temps = x /\ w.names = n /\ w.doomed = d
  BY TaskHasFields
<1>2. TaskIs(w, p, t, s, x, n, d) /\ FieldsFit(t, x, n, d)
  BY <1>1
<1>3. TaskIs(v, q, t, s, x, n, d)
  BY ONLY ZenonT(60), <1>2, Moves(v, w, q), TaskFields DEF Moves
<1>4. IsTask(v) /\ v.pc = q /\ v.target = t /\ v.snapshot = s /\ v.temps = x /\ v.names = n /\ v.doomed = d
  BY ONLY ZenonT(60), <1>2, <1>3, TaskOfFields
<1> QED BY ONLY ZenonT(60), <1>1, <1>4 DEF SameWork

\* Reading the directory.
LEMMA TaskReads ==
    ASSUME NEW w, IsTask(w)
    PROVE  /\ IsTask(ReadDirectory(w)) /\ ReadDirectory(w).pc = "clean"
           /\ SameWork(ReadDirectory(w), w) /\ ReadDirectory(w).names = Present
<1> DEFINE T == {s \in Sessions : temporary[s] # NoReport}
           v == ReadDirectory(w)
<1>1. PICK p, t, s, x, n, d :
        /\ TaskIs(w, p, t, s, x, n, d) /\ FieldsFit(t, x, n, d)
        /\ w.pc = p /\ w.target = t /\ w.snapshot = s
        /\ w.temps = x /\ w.names = n /\ w.doomed = d
  BY TaskHasFields
<1>2. TaskIs(w, p, t, s, x, n, d) /\ FieldsFit(t, x, n, d)
  BY <1>1
<1>3. v = [w EXCEPT !.pc = "clean", !.names = Present, !.temps = T]
  BY DEF ReadDirectory
<1>4. FieldsFit(t, T, Present, d)
  BY <1>1, <1>2 DEF FieldsFit, Present
<1> HIDE DEF T, v
<1>5. TaskIs(v, "clean", t, s, T, Present, d)
  BY ONLY ZenonT(60), <1>2, <1>3, TaskFields
<1>6. IsTask(v) /\ v.pc = "clean" /\ v.target = t /\ v.snapshot = s /\ v.names = Present
  BY ONLY ZenonT(60), <1>4, <1>5, TaskOfFields
<1>7. SameWork(v, w)
  BY ONLY ZenonT(60), <1>1, <1>6 DEF SameWork
<1> QED BY <1>6, <1>7 DEF v

\* Deciding what to delete.
LEMMA TaskDecides ==
    ASSUME NEW w, IsTask(w)
    PROVE  /\ IsTask(GetInfo(w)) /\ GetInfo(w).pc = "delete"
           /\ SameWork(GetInfo(w), w) /\ GetInfo(w).doomed = w.names \ Retained(w.names)
<1> DEFINE D == w.names \ Retained(w.names)
           v == GetInfo(w)
<1>1. PICK p, t, s, x, n, d :
        /\ TaskIs(w, p, t, s, x, n, d) /\ FieldsFit(t, x, n, d)
        /\ w.pc = p /\ w.target = t /\ w.snapshot = s
        /\ w.temps = x /\ w.names = n /\ w.doomed = d
  BY TaskHasFields
<1>2. TaskIs(w, p, t, s, x, n, d) /\ FieldsFit(t, x, n, d)
  BY <1>1
<1>3. v = [w EXCEPT !.pc = "delete", !.doomed = D]
  BY DEF GetInfo
<1>4. FieldsFit(t, x, n, D)
  BY <1>1, <1>2 DEF FieldsFit
<1> HIDE DEF D, v
<1>5. TaskIs(v, "delete", t, s, x, n, D)
  BY ONLY ZenonT(60), <1>2, <1>3, TaskFields
<1>6. IsTask(v) /\ v.pc = "delete" /\ v.target = t /\ v.snapshot = s /\ v.doomed = D
  BY ONLY ZenonT(60), <1>4, <1>5, TaskOfFields
<1>7. SameWork(v, w)
  BY ONLY ZenonT(60), <1>1, <1>6 DEF SameWork
<1> QED BY <1>6, <1>7 DEF v, D

\* Deleting one.
LEMMA TaskDeletes ==
    ASSUME NEW w, IsTask(w), NEW v, NEW r, Deletes(v, w, r)
    PROVE  IsTask(v) /\ v.pc = w.pc /\ SameWork(v, w) /\ v.doomed = w.doomed \ {r}
<1> DEFINE D == w.doomed \ {r}
<1>1. PICK p, t, s, x, n, d :
        /\ TaskIs(w, p, t, s, x, n, d) /\ FieldsFit(t, x, n, d)
        /\ w.pc = p /\ w.target = t /\ w.snapshot = s
        /\ w.temps = x /\ w.names = n /\ w.doomed = d
  BY TaskHasFields
<1>2. TaskIs(w, p, t, s, x, n, d) /\ FieldsFit(t, x, n, d)
  BY <1>1
<1>3. v = [w EXCEPT !.doomed = D]
  BY DEF Deletes
<1>4. FieldsFit(t, x, n, D)
  BY <1>1, <1>2 DEF FieldsFit
<1> HIDE DEF D
<1>5. TaskIs(v, p, t, s, x, n, D)
  BY ONLY ZenonT(60), <1>2, <1>3, TaskFields
<1>6. IsTask(v) /\ v.pc = p /\ v.target = t /\ v.snapshot = s /\ v.doomed = D
  BY ONLY ZenonT(60), <1>4, <1>5, TaskOfFields
<1>7. SameWork(v, w) /\ v.pc = w.pc
  BY ONLY ZenonT(60), <1>1, <1>6 DEF SameWork
<1> QED BY <1>6, <1>7 DEF D

\* A task at rest.
LEMMA RestingTask ==
    IsTask(NoTask) /\ NoTask.pc = "idle" /\ NoTask.snapshot = NoReport
<1>1. TaskIs(NoTask, "idle", 0, NoReport, {}, {}, {})
  BY DEF TaskIs, NoTask
<1>2. FieldsFit(0, {}, {}, {})
  BY DEF FieldsFit
<1> QED BY <1>1, <1>2, TaskOfFields

\* PruneGood lasts while no prune is under way.
LEMMA PruneRests ==
    ASSUME PruneGood, Present' \subseteq Present, UNCHANGED pruneDue,
           writer'.pc \notin {"clean", "info", "delete"}
    PROVE  PruneGood'
<1>1. ASSUME ~pruneDue PROVE Limited(Present)'
  <2>1. Limited(Present) /\ Present \subseteq Sessions
    BY <1>1 DEF PruneGood, Present
  <2>2. Limited(Present')
    BY <2>1, FewerAreLimited
  <2> QED BY <2>2 DEF Limited, TotalSize
<1> QED BY <1>1 DEF PruneGood

FileContents == Reports \cup {NoReport, Partial}
FileTable == [Sessions -> FileContents]

\* A step of the write chain between its snapshot and its end: other files are
\* at most removed, and the file of the transfer becomes the snapshot or goes.
LEMMA WriterWorks ==
    ASSUME ReportInv,
           UNCHANGED <<session, progress, hidden, report, revision, persistedRevision,
                       writeScheduled, lister, expired, synced, disturbed>>,
           writer.pc # "idle", writer'.pc # "idle", IsTask(writer'),
           SameWork(writer', writer),
           temporary' \in FileTable, files' \in FileTable,
           \A s \in Sessions \ {session} : /\ temporary'[s] \in {temporary[s], NoReport}
                                           /\ files'[s] \in {files[s], NoReport},
           files'[session] \in {files[session], NoReport, writer.snapshot},
           writer'.pc = "writing" => temporary'[session] \in {NoReport, Partial},
           writer'.pc \in {"unlink", "move"} => temporary'[session] \in {NoReport, writer.snapshot},
           writer'.pc \in {"list", "clean", "info", "delete"} =>
              /\ files'[session] \in {NoReport, writer.snapshot}
              /\ Kept => files'[session] = writer.snapshot,
           writer'.pc = "move" \/ files'[session] = writer.snapshot
              \/ (writer.pc # "move" /\ (Kept => files'[session] = files[session])),
           PruneGood'
    PROVE  ReportInv'
<1>1. ReportTypes /\ FilesGood /\ MemoryGood /\ WriterGood
  BY DEF ReportInv
<1>2. /\ progress # "idle" /\ writeScheduled /\ writer.snapshot \in Reports
      /\ persistedRevision < writer.target /\ writer.target <= revision
      /\ Covers(writer.snapshot, synced[session]) /\ Covers(report, writer.snapshot)
      /\ Over(progress) /\ writer.target = revision => writer.snapshot = report
      /\ progress = "ending" => writer.snapshot.final
  BY <1>1 DEF WriterGood
<1>3. persistedRevision # revision
  <2>1. persistedRevision \in Nat /\ revision \in Nat /\ writer.target \in Nat
    BY <1>1, ReportNumbers
  <2> QED BY ONLY SMTT(60), <1>2, <2>1
<1>4. ReportTypes'
  <2>1. ReportTypeOK'
    BY <1>1, <1>2 DEF ReportTypes, ReportTypeOK, FileTable, FileContents, SameWork
  <2> QED BY <1>1, <2>1 DEF ReportTypes, IsTask
<1>5. FilesGood'
  <2> SUFFICES ASSUME NEW s \in Sessions
               PROVE  /\ files'[s] # Partial
                      /\ files'[s] # NoReport => Covers(files'[s], synced[s])
                      /\ s > session =>
                            files'[s] = NoReport /\ temporary'[s] = NoReport /\ synced[s] = NoReport
    BY DEF FilesGood, Covers
  <2>1. /\ files[s] # Partial
        /\ files[s] # NoReport => Covers(files[s], synced[s])
        /\ s > session => files[s] = NoReport /\ temporary[s] = NoReport /\ synced[s] = NoReport
    BY <1>1 DEF FilesGood
  <2>2. s > session => s # session
    BY SMTT(60), <1>1, ReportNumbers
  <2>3. NoReport # Partial /\ writer.snapshot # Partial
    BY <1>2, MarkersAreNoReports
  <2>4. CASE s = session
    BY <1>2, <2>1, <2>2, <2>3, <2>4
  <2>5. CASE s # session
    BY <2>1, <2>3, <2>5
  <2> QED BY <2>4, <2>5
<1>6. MemoryGood'
  <2>1. Flushed' /\ (Kept' <=> Kept)
    BY <1>2 DEF Flushed, Kept
  <2>2. session \in Sessions /\ report \in Reports /\ Covers(report, synced[session])
    BY <1>1, <1>2 DEF MemoryGood
  <2>3. Covers(report, synced[session])'
    BY <2>2 DEF Covers
  <2>4. LateGood'
    BY <1>1, <1>2, <2>1 DEF MemoryGood, LateGood
  <2> QED BY <1>1, <1>2, <1>3, <2>1, <2>2, <2>3, <2>4 DEF MemoryGood
<1>7. WriterGood'
  <2>1. Covers(writer.snapshot, synced[session])' /\ Covers(report, writer.snapshot)'
    BY <1>2 DEF Covers, SameWork
  <2>2. Kept' <=> Kept
    BY DEF Kept
  <2> QED BY <1>2, <2>1, <2>2 DEF WriterGood, SameWork
<1> QED BY <1>4, <1>5, <1>6, <1>7 DEF ReportInv

\* Which transfer the write chain works for.
LEMMA WriterSession ==
    ASSUME ReportInv, writer.pc # "idle"
    PROVE  session \in Sessions /\ writer.snapshot \in Reports /\ files \in FileTable
           /\ temporary \in FileTable /\ IsTask(writer)
BY DEF ReportInv, WriterGood, MemoryGood, ReportTypes, ReportTypeOK, FileTable, FileContents

Stores(g, f, s, v) == g = [f EXCEPT ![s] = v]
OthersStay(g, f, s) == \A t \in Sessions \ {s} : g[t] = f[t]

\* A file of the transfer at hand is replaced.
LEMMA TableStep ==
    ASSUME NEW f \in FileTable, NEW s \in Sessions, NEW v \in FileContents,
           NEW g, Stores(g, f, s, v)
    PROVE  g \in FileTable /\ g[s] = v /\ OthersStay(g, f, s)
BY DEF FileTable, Stores, OthersStay

\* The chain takes the report and its revision.
LEMMA TakeSnapshotStep ==
    ASSUME ReportInv, TakeSnapshot
    PROVE  ReportInv'
<1>1. /\ writeScheduled /\ writer.pc = "idle" /\ persistedRevision < revision
      /\ writer' = [NoTask EXCEPT !.pc = "clear", !.target = revision, !.snapshot = report]
      /\ UNCHANGED <<session, progress, hidden, report, revision, persistedRevision, writeScheduled,
                     lister, temporary, files, expired, synced, disturbed, pruneDue>>
  BY DEF TakeSnapshot, memory, history
<1>2. ReportTypes /\ FilesGood /\ MemoryGood /\ PruneGood
  BY DEF ReportInv
<1>3. revision \in Nat /\ revision <= revision
  BY SMTT(60), <1>2, ReportNumbers
<1>4. IsTask(writer') /\ writer'.pc = "clear" /\ writer'.target = revision /\ writer'.snapshot = report
  <2>1. TaskIs(NoTask, "idle", 0, NoReport, {}, {}, {})
    BY DEF TaskIs, NoTask
  <2>2. TaskIs(writer', "clear", revision, report, {}, {}, {})
    BY ONLY ZenonT(60), <1>1, <2>1, TaskFields
  <2>3. FieldsFit(revision, {}, {}, {})
    BY <1>3 DEF FieldsFit
  <2> QED BY ONLY ZenonT(60), <2>2, <2>3, TaskOfFields
<1>5. progress # "idle" /\ report \in Reports /\ Covers(report, synced[session])
  BY <1>1, <1>2 DEF MemoryGood
<1>6. Covers(report, report)
  BY <1>5, CoversItself DEF Versions
<1>7. ReportTypes'
  <2>1. ReportTypeOK'
    BY <1>1, <1>2, <1>4, <1>5 DEF ReportTypes, ReportTypeOK
  <2> QED BY <1>1, <1>2, <1>4, <2>1 DEF ReportTypes, IsTask
<1>8. FilesGood'
  BY <1>1, <1>2, FilesStay
<1>9. MemoryGood'
  <2>1. Flushed' /\ (Kept' <=> Kept)
    BY <1>1, <1>5 DEF Flushed, Kept
  <2>2. Covers(report, synced[session])'
    BY <1>1, <1>5 DEF Covers
  <2>3. LateGood'
    BY <1>1, <1>2, <2>1 DEF MemoryGood, LateGood
  <2> QED BY <1>1, <1>2, <1>4, <1>5, <2>1, <2>2, <2>3 DEF MemoryGood
<1>10. WriterGood'
  <2>1. Covers(writer.snapshot, synced[session])' /\ Covers(report, writer.snapshot)'
    BY <1>1, <1>4, <1>5, <1>6 DEF Covers
  <2>2. progress = "ending" => report.final
    BY <1>2 DEF MemoryGood, Over
  <2> QED BY <1>1, <1>3, <1>4, <1>5, <2>1, <2>2 DEF WriterGood
<1>11. PruneGood'
  <2>1. Present' = Present
    BY <1>1, PresentStays
  <2>2. writer'.pc \notin {"clean", "info", "delete"}
    BY <1>4
  <2> QED BY <1>1, <1>2, <2>1, <2>2, PruneRests
<1> QED BY <1>7, <1>8, <1>9, <1>10, <1>11 DEF ReportInv

\* What the transfer of the write chain and its files are.
LEMMA WriterFiles ==
    ASSUME ReportInv, writer.pc # "idle"
    PROVE  /\ session \in Sessions /\ writer.snapshot \in Reports
           /\ files \in FileTable /\ temporary \in FileTable /\ IsTask(writer) /\ PruneGood
BY WriterSession DEF ReportInv

\* The temporary file of an earlier write is removed.
LEMMA DeleteTemporaryStep ==
    ASSUME ReportInv, DeleteTemporary
    PROVE  ReportInv'
<1>1. /\ writer.pc = "clear" /\ writer' = [writer EXCEPT !.pc = "write"]
      /\ temporary' = [temporary EXCEPT ![session] = NoReport]
      /\ UNCHANGED <<session, progress, hidden, report, revision, persistedRevision, writeScheduled,
                     lister, files, expired, synced, disturbed, pruneDue>>
  BY DEF DeleteTemporary, memory, history
<1>2. /\ session \in Sessions /\ writer.snapshot \in Reports
      /\ files \in FileTable /\ temporary \in FileTable /\ IsTask(writer) /\ PruneGood
  BY <1>1, WriterFiles
<1>3. IsTask(writer') /\ writer'.pc = "write" /\ SameWork(writer', writer)
  <2>1. Moves(writer', writer, "write")
    BY <1>1 DEF Moves
  <2> QED BY <1>2, <2>1, TaskGoesOn
<1>4. /\ temporary' \in FileTable /\ temporary'[session] = NoReport
      /\ OthersStay(temporary', temporary, session)
  <2>1. Stores(temporary', temporary, session, NoReport)
    BY <1>1 DEF Stores
  <2>2. NoReport \in FileContents
    BY DEF FileContents
  <2> QED BY <1>2, <2>1, <2>2, TableStep
<1>5. PruneGood'
  <2>1. Present' = Present
    BY <1>1, PresentStays
  <2>2. writer'.pc \notin {"clean", "info", "delete"}
    BY <1>3
  <2> QED BY <1>1, <1>2, <2>1, <2>2, PruneRests
<1>6. writer.pc # "idle" /\ writer'.pc # "idle"
  BY <1>1, <1>3
<1>7. \A s \in Sessions \ {session} : /\ temporary'[s] \in {temporary[s], NoReport}
                                      /\ files'[s] \in {files[s], NoReport}
  BY <1>1, <1>4 DEF OthersStay
<1>8. /\ files'[session] \in {files[session], NoReport, writer.snapshot} /\ files' \in FileTable
      /\ writer'.pc = "writing" => temporary'[session] \in {NoReport, Partial}
      /\ writer'.pc \in {"unlink", "move"} => temporary'[session] \in {NoReport, writer.snapshot}
      /\ writer'.pc \in {"list", "clean", "info", "delete"} =>
            /\ files'[session] \in {NoReport, writer.snapshot}
            /\ Kept => files'[session] = writer.snapshot
  BY <1>1, <1>2, <1>3, <1>4
<1>9. writer.pc # "move" /\ files'[session] = files[session]
  BY <1>1
<1> QED BY <1>1, <1>3, <1>4, <1>5, <1>6, <1>7, <1>8, <1>9, WriterWorks

\* The write starts a temporary file.
LEMMA WriteBeginsStep ==
    ASSUME ReportInv, WriteBegins
    PROVE  ReportInv'
<1>1. /\ writer.pc = "write" /\ writer' = [writer EXCEPT !.pc = "writing"]
      /\ temporary' = [temporary EXCEPT ![session] = Partial]
      /\ UNCHANGED <<session, progress, hidden, report, revision, persistedRevision, writeScheduled,
                     lister, files, expired, synced, disturbed, pruneDue>>
  BY DEF WriteBegins, memory, history
<1>2. /\ session \in Sessions /\ writer.snapshot \in Reports
      /\ files \in FileTable /\ temporary \in FileTable /\ IsTask(writer) /\ PruneGood
  BY <1>1, WriterFiles
<1>3. IsTask(writer') /\ writer'.pc = "writing" /\ SameWork(writer', writer)
  <2>1. Moves(writer', writer, "writing")
    BY <1>1 DEF Moves
  <2> QED BY <1>2, <2>1, TaskGoesOn
<1>4. /\ temporary' \in FileTable /\ temporary'[session] = Partial
      /\ OthersStay(temporary', temporary, session)
  <2>1. Stores(temporary', temporary, session, Partial)
    BY <1>1 DEF Stores
  <2>2. Partial \in FileContents
    BY DEF FileContents
  <2> QED BY <1>2, <2>1, <2>2, TableStep
<1>5. PruneGood'
  <2>1. Present' = Present
    BY <1>1, PresentStays
  <2>2. writer'.pc \notin {"clean", "info", "delete"}
    BY <1>3
  <2> QED BY <1>1, <1>2, <2>1, <2>2, PruneRests
<1>6. writer.pc # "idle" /\ writer'.pc # "idle"
  BY <1>1, <1>3
<1>7. \A s \in Sessions \ {session} : /\ temporary'[s] \in {temporary[s], NoReport}
                                      /\ files'[s] \in {files[s], NoReport}
  BY <1>1, <1>4 DEF OthersStay
<1>8. /\ files'[session] \in {files[session], NoReport, writer.snapshot} /\ files' \in FileTable
      /\ writer'.pc = "writing" => temporary'[session] \in {NoReport, Partial}
      /\ writer'.pc \in {"unlink", "move"} => temporary'[session] \in {NoReport, writer.snapshot}
      /\ writer'.pc \in {"list", "clean", "info", "delete"} =>
            /\ files'[session] \in {NoReport, writer.snapshot}
            /\ Kept => files'[session] = writer.snapshot
  BY <1>1, <1>2, <1>3, <1>4
<1>9. writer.pc # "move" /\ files'[session] = files[session]
  BY <1>1
<1> QED BY <1>1, <1>3, <1>4, <1>5, <1>6, <1>7, <1>8, <1>9, WriterWorks

\* The write ends; a listing may have removed the file.
LEMMA WriteCompletesStep ==
    ASSUME ReportInv, WriteCompletes
    PROVE  ReportInv'
<1>1. PICK v \in {temporary[session], writer.snapshot} \ {Partial} :
        /\ writer.pc = "writing" /\ writer' = [writer EXCEPT !.pc = "unlink"]
        /\ temporary' = [temporary EXCEPT ![session] = v]
        /\ UNCHANGED <<session, progress, hidden, report, revision, persistedRevision, writeScheduled,
                       lister, files, expired, synced, disturbed, pruneDue>>
  BY DEF WriteCompletes, memory, history
<1>2. /\ session \in Sessions /\ writer.snapshot \in Reports
      /\ files \in FileTable /\ temporary \in FileTable /\ IsTask(writer) /\ PruneGood
  BY <1>1, WriterFiles
<1>3. IsTask(writer') /\ writer'.pc = "unlink" /\ SameWork(writer', writer)
  <2>1. Moves(writer', writer, "unlink")
    BY <1>1 DEF Moves
  <2> QED BY <1>2, <2>1, TaskGoesOn
<1>4. v \in {NoReport, writer.snapshot} /\ v \in FileContents
  <2>1. temporary[session] \in {NoReport, Partial}
    BY <1>1 DEF ReportInv, WriterGood
  <2> QED BY <1>2, <2>1 DEF FileContents
<1>5. /\ temporary' \in FileTable /\ temporary'[session] = v
      /\ OthersStay(temporary', temporary, session)
  <2>1. Stores(temporary', temporary, session, v)
    BY <1>1 DEF Stores
  <2>2. v \in FileContents
    BY <1>2, <1>4 DEF FileContents
  <2> QED BY <1>2, <2>1, <2>2, TableStep
<1>6. PruneGood'
  <2>1. Present' = Present
    BY <1>1, PresentStays
  <2>2. writer'.pc \notin {"clean", "info", "delete"}
    BY <1>3
  <2> QED BY <1>1, <1>2, <2>1, <2>2, PruneRests
<1>7. writer.pc # "idle" /\ writer'.pc # "idle"
  BY <1>1, <1>3
<1>8. \A s \in Sessions \ {session} : /\ temporary'[s] \in {temporary[s], NoReport}
                                      /\ files'[s] \in {files[s], NoReport}
  BY <1>1, <1>5 DEF OthersStay
<1>9. /\ files'[session] \in {files[session], NoReport, writer.snapshot} /\ files' \in FileTable
      /\ writer'.pc = "writing" => temporary'[session] \in {NoReport, Partial}
      /\ writer'.pc \in {"unlink", "move"} => temporary'[session] \in {NoReport, writer.snapshot}
      /\ writer'.pc \in {"list", "clean", "info", "delete"} =>
            /\ files'[session] \in {NoReport, writer.snapshot}
            /\ Kept => files'[session] = writer.snapshot
  BY <1>1, <1>2, <1>3, <1>4, <1>5
<1>10. writer.pc # "move" /\ files'[session] = files[session]
  BY <1>1
<1> QED BY <1>1, <1>3, <1>5, <1>6, <1>7, <1>8, <1>9, <1>10, WriterWorks

\* The report that is replaced is removed.
LEMMA DeleteDestinationStep ==
    ASSUME ReportInv, DeleteDestination
    PROVE  ReportInv'
<1>1. /\ writer.pc = "unlink" /\ writer' = [writer EXCEPT !.pc = "move"]
      /\ files' = [files EXCEPT ![session] = NoReport]
      /\ UNCHANGED <<session, progress, hidden, report, revision, persistedRevision, writeScheduled,
                     lister, temporary, expired, synced, disturbed, pruneDue>>
  BY DEF DeleteDestination, memory, history
<1>2. /\ session \in Sessions /\ writer.snapshot \in Reports
      /\ files \in FileTable /\ temporary \in FileTable /\ IsTask(writer) /\ PruneGood
  BY <1>1, WriterFiles
<1>3. IsTask(writer') /\ writer'.pc = "move" /\ SameWork(writer', writer)
  <2>1. Moves(writer', writer, "move")
    BY <1>1 DEF Moves
  <2> QED BY <1>2, <2>1, TaskGoesOn
<1>4. /\ files' \in FileTable /\ files'[session] = NoReport
      /\ OthersStay(files', files, session)
  <2>1. Stores(files', files, session, NoReport)
    BY <1>1 DEF Stores
  <2>2. NoReport \in FileContents
    BY DEF FileContents
  <2> QED BY <1>2, <2>1, <2>2, TableStep
<1>5. PruneGood'
  <2>1. Present' \subseteq Present
    BY <1>4 DEF Present, OthersStay
  <2>2. writer'.pc \notin {"clean", "info", "delete"}
    BY <1>3
  <2> QED BY <1>1, <1>2, <2>1, <2>2, PruneRests
<1>6. writer.pc # "idle" /\ writer'.pc # "idle"
  BY <1>1, <1>3
<1>7. \A s \in Sessions \ {session} : /\ temporary'[s] \in {temporary[s], NoReport}
                                      /\ files'[s] \in {files[s], NoReport}
  BY <1>1, <1>4 DEF OthersStay
<1>8. temporary[session] \in {NoReport, writer.snapshot}
  BY <1>1 DEF ReportInv, WriterGood
<1>9. /\ files'[session] \in {files[session], NoReport, writer.snapshot} /\ temporary' \in FileTable
      /\ writer'.pc = "writing" => temporary'[session] \in {NoReport, Partial}
      /\ writer'.pc \in {"unlink", "move"} => temporary'[session] \in {NoReport, writer.snapshot}
      /\ writer'.pc \in {"list", "clean", "info", "delete"} =>
            /\ files'[session] \in {NoReport, writer.snapshot}
            /\ Kept => files'[session] = writer.snapshot
  BY <1>1, <1>2, <1>3, <1>4, <1>8
<1> QED BY <1>1, <1>3, <1>4, <1>5, <1>6, <1>7, <1>9, WriterWorks

\* The temporary file becomes the report.
LEMMA MoveTemporaryStep ==
    ASSUME ReportInv, MoveTemporary
    PROVE  ReportInv'
<1>1. /\ writer.pc = "move" /\ writer' = [writer EXCEPT !.pc = "list"]
      /\ temporary[session] # NoReport /\ pruneDue'
      /\ files' = [files EXCEPT ![session] = temporary[session]]
      /\ temporary' = [temporary EXCEPT ![session] = NoReport]
      /\ UNCHANGED <<session, progress, hidden, report, revision, persistedRevision, writeScheduled,
                     lister, expired, synced, disturbed>>
  BY DEF MoveTemporary, memory
<1>2. /\ session \in Sessions /\ writer.snapshot \in Reports
      /\ files \in FileTable /\ temporary \in FileTable /\ IsTask(writer)
  BY <1>1, WriterFiles
<1>3. IsTask(writer') /\ writer'.pc = "list" /\ SameWork(writer', writer)
  <2>1. Moves(writer', writer, "list")
    BY <1>1 DEF Moves
  <2> QED BY <1>2, <2>1, TaskGoesOn
<1>4. temporary[session] = writer.snapshot
  BY <1>1 DEF ReportInv, WriterGood
<1>5. /\ files' \in FileTable /\ files'[session] = writer.snapshot
      /\ OthersStay(files', files, session)
  <2>1. Stores(files', files, session, writer.snapshot)
    BY <1>1, <1>4 DEF Stores
  <2>2. writer.snapshot \in FileContents
    BY <1>2, <1>4 DEF FileContents
  <2> QED BY <1>2, <2>1, <2>2, TableStep
<1>6. /\ temporary' \in FileTable /\ temporary'[session] = NoReport
      /\ OthersStay(temporary', temporary, session)
  <2>1. Stores(temporary', temporary, session, NoReport)
    BY <1>1 DEF Stores
  <2>2. NoReport \in FileContents
    BY DEF FileContents
  <2> QED BY <1>2, <2>1, <2>2, TableStep
<1>7. PruneGood'
  BY <1>1, <1>3 DEF PruneGood
<1>8. writer.pc # "idle" /\ writer'.pc # "idle"
  BY <1>1, <1>3
<1>9. \A s \in Sessions \ {session} : /\ temporary'[s] \in {temporary[s], NoReport}
                                      /\ files'[s] \in {files[s], NoReport}
  BY <1>5, <1>6 DEF OthersStay
<1>10. /\ files'[session] \in {files[session], NoReport, writer.snapshot}
       /\ writer'.pc = "writing" => temporary'[session] \in {NoReport, Partial}
       /\ writer'.pc \in {"unlink", "move"} => temporary'[session] \in {NoReport, writer.snapshot}
       /\ writer'.pc \in {"list", "clean", "info", "delete"} =>
             /\ files'[session] \in {NoReport, writer.snapshot}
             /\ Kept => files'[session] = writer.snapshot
  BY <1>3, <1>5, <1>6
<1> QED BY <1>1, <1>3, <1>5, <1>6, <1>7, <1>8, <1>9, <1>10, WriterWorks

\* A removal of temporary files.
LEMMA TemporaryCleaned ==
    ASSUME temporary \in FileTable, NEW T,
           temporary' = [s \in Sessions |-> IF s \in T THEN NoReport ELSE temporary[s]]
    PROVE  temporary' \in FileTable /\ \A s \in Sessions : temporary'[s] \in {temporary[s], NoReport}
<1>1. NoReport \in FileContents
  BY DEF FileContents
<1> QED BY <1>1 DEF FileTable

\* The prune of the write chain: list, clean, decide, delete.
LEMMA WriterPrunesStep ==
    ASSUME ReportInv, WriterPrunes
    PROVE  ReportInv'
<1>1. /\ writer.pc \in {"list", "clean", "info", "delete"}
      /\ UNCHANGED <<session, progress, hidden, report, revision, persistedRevision, writeScheduled,
                     lister, expired, synced, disturbed, pruneDue>>
  BY DEF WriterPrunes, memory, history
<1>2. /\ session \in Sessions /\ writer.snapshot \in Reports
      /\ files \in FileTable /\ temporary \in FileTable /\ IsTask(writer) /\ PruneGood
      /\ writer.pc # "idle"
  BY <1>1, WriterFiles
<1>3. /\ files[session] \in {NoReport, writer.snapshot}
      /\ Kept => files[session] = writer.snapshot
  BY <1>1, <1>2 DEF ReportInv, WriterGood
<1>4. ASSUME files' = files, temporary' \in FileTable,
             \A s \in Sessions : temporary'[s] \in {temporary[s], NoReport},
             IsTask(writer'), writer'.pc \in {"clean", "info", "delete"}, SameWork(writer', writer),
             PruneGood'
      PROVE  ReportInv'
  <2>1. \A s \in Sessions \ {session} : /\ temporary'[s] \in {temporary[s], NoReport}
                                        /\ files'[s] \in {files[s], NoReport}
    BY <1>4
  <2>2. /\ files'[session] \in {files[session], NoReport, writer.snapshot} /\ files' \in FileTable
        /\ writer'.pc # "idle" /\ writer'.pc # "writing" /\ writer'.pc \notin {"unlink", "move"}
        /\ files'[session] \in {NoReport, writer.snapshot}
        /\ Kept => files'[session] = writer.snapshot
        /\ writer.pc # "move" /\ files'[session] = files[session]
    BY <1>1, <1>2, <1>3, <1>4
  <2> QED BY <1>1, <1>2, <1>4, <2>1, <2>2, WriterWorks
<1>5. CASE writer.pc = "list" /\ writer' = ReadDirectory(writer) /\ UNCHANGED <<temporary, files>>
  <2>1. IsTask(writer') /\ writer'.pc = "clean" /\ SameWork(writer', writer) /\ writer'.names = Present
    BY <1>2, <1>5, TaskReads
  <2>2. PruneGood'
    <3>1. Present' = Present
      BY <1>5, PresentStays
    <3>2. ~pruneDue => Limited(Present)
      BY <1>2 DEF PruneGood
    <3>3. ~pruneDue => Limited(Present)'
      BY <3>1, <3>2 DEF Limited, TotalSize
    <3> QED BY <1>1, <2>1, <3>1, <3>3 DEF PruneGood
  <2> QED BY <1>2, <1>4, <1>5, <2>1, <2>2
<1>6. CASE /\ writer.pc = "clean" /\ writer' = [writer EXCEPT !.pc = "info"]
           /\ temporary' = [s \in Sessions |-> IF s \in writer.temps THEN NoReport ELSE temporary[s]]
           /\ UNCHANGED files
  <2>1. IsTask(writer') /\ writer'.pc = "info" /\ SameWork(writer', writer) /\ writer'.names = writer.names
    <3>1. Moves(writer', writer, "info")
      BY <1>6 DEF Moves
    <3> QED BY <1>2, <3>1, TaskGoesOn
  <2>2. temporary' \in FileTable /\ \A s \in Sessions : temporary'[s] \in {temporary[s], NoReport}
    BY <1>2, <1>6, TemporaryCleaned
  <2>3. PruneGood'
    <3>1. Present' = Present
      BY <1>6, PresentStays
    <3>2. Present \subseteq writer.names /\ (~pruneDue => Limited(Present))
      BY <1>2, <1>6 DEF PruneGood
    <3>3. ~pruneDue => Limited(Present)'
      BY <3>1, <3>2 DEF Limited, TotalSize
    <3> QED BY <1>1, <2>1, <3>1, <3>2, <3>3 DEF PruneGood
  <2> QED BY <1>4, <1>6, <2>1, <2>2, <2>3
<1>7. CASE writer.pc = "info" /\ writer' = GetInfo(writer) /\ UNCHANGED <<temporary, files>>
  <2> DEFINE names == writer.names
  <2>1. /\ IsTask(writer') /\ writer'.pc = "delete" /\ SameWork(writer', writer)
        /\ writer'.doomed = names \ Retained(names)
    BY <1>2, <1>7, TaskDecides
  <2>2. Present \subseteq names /\ names \subseteq Sessions /\ (~pruneDue => Limited(Present))
    BY <1>2, <1>7 DEF PruneGood, IsTask
  <2>3. Limited(Present \ writer'.doomed)
    <3>1. Limited(Retained(names) \cap Present)
      BY <2>2, RetainedIsLimited
    <3>2. Present \ writer'.doomed = Retained(names) \cap Present
      BY <2>1, <2>2
    <3> QED BY <3>1, <3>2
  <2>4. ASSUME Kept PROVE session \notin writer'.doomed
    <3>1. session \in names \cap Present
      <4>1. files[session] # NoReport
        BY <1>2, <1>3, <2>4, MarkersAreNoReports
      <4> QED BY <1>2, <2>2, <4>1 DEF Present
    <3>2. session \notin expired
      <4>1. \A s \in expired : s < session
        BY DEF ReportInv, ReportTypes
      <4>2. ~(session < session)
        BY SMTT(60), ReportNumbers DEF ReportInv
      <4> QED BY <4>1, <4>2
    <3>3. ASSUME NEW t \in names \cap Present PROVE t <= session
      <4>1. t \in Sessions /\ files[t] # NoReport
        BY DEF Present
      <4>2. ~(t > session)
        BY <4>1 DEF ReportInv, FilesGood
      <4>3. t \in Nat /\ session \in Nat
        BY SMTT(60), <1>2, <4>1, SizesAreNumbers
      <4> QED BY SMTT(60), <4>2, <4>3
    <3> HIDE DEF names
    <3>4. session \in Retained(names)
      BY <2>2, <2>4, <3>1, <3>2, <3>3, NewestIsRetained DEF Kept
    <3> QED BY <2>1, <3>4
  <2>5. PruneGood'
    <3>1. Present' = Present
      BY <1>7, PresentStays
    <3>2. Limited(Present \ writer.doomed)'
      BY <2>3, <3>1 DEF Limited, TotalSize
    <3>3. ~pruneDue => Limited(Present)'
      BY <2>2, <3>1 DEF Limited, TotalSize
    <3>4. Kept' <=> Kept
      BY <1>1 DEF Kept
    <3> QED BY <1>1, <2>1, <2>4, <3>2, <3>3, <3>4 DEF PruneGood
  <2> QED BY <1>2, <1>4, <1>7, <2>1, <2>5
<1>8. CASE /\ writer.pc = "delete"
           /\ \E s \in writer.doomed :
                 /\ writer' = [writer EXCEPT !.doomed = @ \ {s}]
                 /\ files' = [files EXCEPT ![s] = NoReport]
           /\ UNCHANGED temporary
  <2>1. PICK s \in writer.doomed : /\ writer' = [writer EXCEPT !.doomed = writer.doomed \ {s}]
                                   /\ files' = [files EXCEPT ![s] = NoReport]
    BY <1>8
  <2>2. /\ IsTask(writer') /\ writer'.pc = "delete" /\ SameWork(writer', writer)
        /\ writer'.doomed = writer.doomed \ {s}
    <3>1. Deletes(writer', writer, s)
      BY <2>1 DEF Deletes
    <3>2. IsTask(writer') /\ writer'.pc = writer.pc /\ SameWork(writer', writer)
          /\ writer'.doomed = writer.doomed \ {s}
      BY <1>2, <3>1, TaskDeletes
    <3> QED BY <1>8, <3>2
  <2>3. s \in Sessions
    BY <1>2 DEF IsTask
  <2>4. files' \in FileTable /\ files'[s] = NoReport /\ OthersStay(files', files, s)
    <3>1. Stores(files', files, s, NoReport)
      BY <2>1 DEF Stores
    <3>2. NoReport \in FileContents
      BY DEF FileContents
    <3> QED BY <1>2, <2>3, <3>1, <3>2, TableStep
  <2>5. /\ Limited(Present \ writer.doomed) /\ (Kept => session \notin writer.doomed)
        /\ ~pruneDue => Limited(Present)
    BY <1>2, <1>8 DEF PruneGood
  <2>6. Present' = Present \ {s}
    BY <2>4 DEF Present, OthersStay
  <2>7. PruneGood'
    <3>1. Present' \ writer'.doomed = Present \ writer.doomed
      BY <2>1, <2>2, <2>6
    <3>2. Limited(Present \ writer.doomed)'
      BY <2>5, <3>1 DEF Limited, TotalSize
    <3>3. ~pruneDue => Limited(Present')
      <4>1. Present \in SUBSET Sessions /\ Present' \in SUBSET Present
        BY <2>6 DEF Present
      <4> QED BY <2>5, <4>1, FewerAreLimited
    <3>4. ~pruneDue => Limited(Present)'
      BY <3>3 DEF Limited, TotalSize
    <3>5. Kept' <=> Kept
      BY <1>1 DEF Kept
    <3> QED BY <1>1, <2>2, <2>5, <3>2, <3>4, <3>5 DEF PruneGood
  <2>8. \A t \in Sessions \ {session} : /\ temporary'[t] \in {temporary[t], NoReport}
                                        /\ files'[t] \in {files[t], NoReport}
    BY <1>8, <2>3, <2>4 DEF OthersStay
  <2>9. /\ files'[session] \in {NoReport, writer.snapshot}
        /\ files'[session] \in {files[session], NoReport, writer.snapshot}
        /\ Kept => files'[session] = writer.snapshot
        /\ writer.pc # "move" /\ (Kept => files'[session] = files[session])
    <3>1. CASE s = session
      BY <1>8, <2>1, <2>4, <2>5, <3>1
    <3>2. CASE s # session
      BY <1>2, <1>3, <1>8, <2>4, <3>2 DEF OthersStay
    <3> QED BY <3>1, <3>2
  <2>10. /\ writer'.pc # "idle" /\ writer'.pc # "writing" /\ writer'.pc \notin {"unlink", "move"}
         /\ temporary' \in FileTable
    BY <1>2, <1>8, <2>2
  <2> QED BY <1>1, <1>2, <2>2, <2>4, <2>7, <2>8, <2>9, <2>10, WriterWorks
<1> QED BY <1>5, <1>6, <1>7, <1>8 DEF WriterPrunes

\* A failed write ends the chain.
LEMMA ChainFailsStep ==
    ASSUME ReportInv, writer.pc # "idle", ChainFails
    PROVE  ReportInv'
<1>1. /\ writer' = NoTask /\ ~writeScheduled' /\ writeScheduled' = FALSE /\ disturbed'
      /\ UNCHANGED <<session, progress, hidden, report, revision, persistedRevision, lister,
                     temporary, files, expired, synced, pruneDue>>
  BY DEF ChainFails, memory
<1>2. ReportTypes /\ FilesGood /\ MemoryGood /\ WriterGood /\ PruneGood
  BY DEF ReportInv
<1>3. IsTask(writer') /\ writer'.pc = "idle" /\ writer'.snapshot = NoReport
  BY <1>1, RestingTask
<1>4. progress # "idle"
  BY <1>2 DEF WriterGood
<1>5. ReportTypes'
  <2>1. ReportTypeOK'
    BY <1>1, <1>2, <1>3 DEF ReportTypes, ReportTypeOK
  <2> QED BY <1>1, <1>2, <1>3, <2>1 DEF ReportTypes, IsTask
<1>6. FilesGood'
  BY <1>1, <1>2, FilesStay
<1>7. MemoryGood'
  <2>1. Flushed' /\ LateGood' /\ ~Kept'
    BY <1>1, <1>4 DEF Flushed, LateGood, Kept
  <2>2. session \in Sessions /\ report \in Reports /\ Covers(report, synced[session])
    BY <1>2, <1>4 DEF MemoryGood
  <2>3. Covers(report, synced[session])'
    BY <1>1, <2>2 DEF Covers
  <2>4. Over(progress) => report.final
    BY <1>2 DEF MemoryGood
  <2> QED BY <1>1, <1>4, <2>1, <2>2, <2>3, <2>4 DEF MemoryGood
<1>8. WriterGood'
  BY <1>3 DEF WriterGood
<1>9. PruneGood'
  <2>1. Present' = Present
    BY <1>1, PresentStays
  <2>2. writer'.pc \notin {"clean", "info", "delete"}
    BY <1>3
  <2> QED BY <1>1, <1>2, <2>1, <2>2, PruneRests
<1> QED BY <1>5, <1>6, <1>7, <1>8, <1>9 DEF ReportInv

\* The write returns: the file is the snapshot, and what was queued meanwhile
\* is written next.
LEMMA PersistedStep ==
    ASSUME ReportInv, Persisted
    PROVE  ReportInv'
<1>1. /\ writer.pc = "delete" /\ writer.doomed = {} /\ writer' = NoTask
      /\ persistedRevision' = writer.target /\ writeScheduled' = (writer.target < revision)
      /\ synced' = [synced EXCEPT ![session] = writer.snapshot] /\ ~pruneDue'
      /\ UNCHANGED <<session, progress, hidden, report, revision, lister, temporary, files, expired,
                     disturbed>>
  BY DEF Persisted, memory
<1>2. ReportTypes /\ FilesGood /\ MemoryGood /\ WriterGood /\ PruneGood
  BY DEF ReportInv
<1>3. IsTask(writer') /\ writer'.pc = "idle" /\ writer'.snapshot = NoReport
  BY <1>1, RestingTask
<1>4. /\ progress # "idle" /\ writer.target <= revision /\ writer.snapshot \in Reports
      /\ Covers(report, writer.snapshot)
      /\ Over(progress) /\ writer.target = revision => writer.snapshot = report
      /\ files[session] \in {NoReport, writer.snapshot}
      /\ Kept => files[session] = writer.snapshot
  BY <1>1, <1>2 DEF WriterGood
<1>5. /\ session \in Sessions /\ report \in Reports /\ (Over(progress) => report.final)
      /\ files \in FileTable /\ temporary \in FileTable
  BY <1>1, <1>2, <1>4, WriterFiles DEF MemoryGood
<1>6. /\ synced' \in [Sessions -> Reports \cup {NoReport}] /\ synced'[session] = writer.snapshot
      /\ \A t \in Sessions \ {session} : synced'[t] = synced[t]
  BY <1>1, <1>2, <1>4, <1>5 DEF ReportTypes
<1>7. /\ writer.target \in Nat /\ revision \in Nat /\ writer.target \in 0..revision
      /\ ~(writer.target < revision) => writer.target = revision
  BY SMTT(60), <1>2, <1>4, ReportNumbers
<1>8. ReportTypes'
  <2>1. writeScheduled' \in BOOLEAN
    <3>1. writeScheduled' = (writer.target < revision)
      BY <1>1
    <3> QED BY ONLY SMTT(60), <1>7, <3>1
  <2>2. ReportTypeOK'
    BY <1>1, <1>2, <1>3, <1>7, <2>1 DEF ReportTypes, ReportTypeOK
  <2> QED BY <1>1, <1>2, <1>3, <1>6, <2>2 DEF ReportTypes, IsTask
<1>9. FilesGood'
  <2> SUFFICES ASSUME NEW s \in Sessions
               PROVE  /\ files[s] # Partial
                      /\ files[s] # NoReport => Covers(files[s], synced'[s])
                      /\ s > session =>
                            files[s] = NoReport /\ temporary[s] = NoReport /\ synced'[s] = NoReport
    BY <1>1 DEF FilesGood, Covers
  <2>1. /\ files[s] # Partial
        /\ files[s] # NoReport => Covers(files[s], synced[s])
        /\ s > session => files[s] = NoReport /\ temporary[s] = NoReport /\ synced[s] = NoReport
    BY <1>2 DEF FilesGood
  <2>2. s > session => s # session
    BY SMTT(60), <1>2, ReportNumbers
  <2>3. Covers(writer.snapshot, writer.snapshot)
    BY <1>4, CoversItself DEF Versions
  <2>4. CASE s = session
    BY <1>4, <1>6, <2>1, <2>2, <2>3, <2>4
  <2>5. CASE s # session
    BY <1>6, <2>1, <2>5
  <2> QED BY <2>4, <2>5
<1>10. MemoryGood'
  <2>1. Flushed' /\ (Kept' <=> Kept)
    BY <1>1, <1>4 DEF Flushed, Kept
  <2>2. Covers(report, synced[session])'
    BY <1>1, <1>4, <1>6 DEF Covers
  <2>3. /\ writeScheduled' => persistedRevision' < revision'
        /\ ~writeScheduled' => persistedRevision' = revision'
    BY <1>1, <1>7
  <2>4. Over(progress') /\ persistedRevision' = revision' /\ Kept' => files'[session'] = report'
    BY <1>1, <1>4, <2>1
  <2>5. progress' # "idle" /\ session' \in Sessions /\ report' \in Reports
        /\ (Over(progress') => report'.final)
    BY <1>1, <1>4, <1>5
  <2>6. LateGood'
    BY <1>1, <1>2, <2>1 DEF MemoryGood, LateGood
  <2> QED BY <2>1, <2>2, <2>3, <2>4, <2>5, <2>6 DEF MemoryGood
<1>11. WriterGood'
  BY <1>3 DEF WriterGood
<1>12. PruneGood'
  <2>1. Limited(Present \ writer.doomed)
    BY <1>1, <1>2 DEF PruneGood
  <2>2. Present' = Present
    BY <1>1, PresentStays
  <2>3. Present' = Present \ writer.doomed
    BY <1>1, <2>2
  <2>4. Limited(Present)'
    BY <2>1, <2>3 DEF Limited, TotalSize
  <2> QED BY <1>3, <2>4 DEF PruneGood
<1> QED BY <1>8, <1>9, <1>10, <1>11, <1>12 DEF ReportInv

-----------------------------------------------------------------------------
(* Reports: the listing, time and the end of the app *)

\* A step of the listing: it only removes files, and the one of the transfer
\* only as a disturbance.
LEMMA ListerWorks ==
    ASSUME ReportInv,
           UNCHANGED <<session, progress, hidden, report, revision, persistedRevision,
                       writeScheduled, writer, expired, synced, pruneDue>>,
           IsTask(lister'), temporary' \in FileTable, files' \in FileTable,
           \A s \in Sessions : /\ temporary'[s] \in {temporary[s], NoReport}
                               /\ files'[s] \in {files[s], NoReport},
           disturbed => disturbed',
           session \in Sessions => disturbed' \/ files'[session] = files[session]
    PROVE  ReportInv'
<1>1. ReportTypes /\ FilesGood /\ MemoryGood /\ WriterGood /\ PruneGood
  BY DEF ReportInv
<1>2. ReportTypes'
  <2>1. ReportTypeOK'
    BY <1>1 DEF ReportTypes, ReportTypeOK, FileTable, FileContents
  <2> QED BY <1>1, <2>1 DEF ReportTypes, IsTask
<1>3. FilesGood'
  <2> SUFFICES ASSUME NEW s \in Sessions
               PROVE  /\ files'[s] # Partial
                      /\ files'[s] # NoReport => Covers(files'[s], synced[s])
                      /\ s > session =>
                            files'[s] = NoReport /\ temporary'[s] = NoReport /\ synced[s] = NoReport
    BY DEF FilesGood, Covers
  <2>1. /\ files[s] # Partial
        /\ files[s] # NoReport => Covers(files[s], synced[s])
        /\ s > session => files[s] = NoReport /\ temporary[s] = NoReport /\ synced[s] = NoReport
    BY <1>1 DEF FilesGood
  <2> QED BY <2>1, MarkersAreNoReports
<1>4. MemoryGood'
  <2>0. Kept' => Kept /\ ~disturbed'
    BY DEF Kept
  <2>1. Flushed' /\ LateGood'
    BY <1>1, <2>0 DEF MemoryGood, Flushed, LateGood
  <2>2. progress # "idle" => /\ session \in Sessions /\ report \in Reports
                             /\ Covers(report, synced[session])
    BY <1>1 DEF MemoryGood
  <2>3. progress' # "idle" => Covers(report, synced[session])'
    BY <2>2 DEF Covers
  <2>4. Over(progress') /\ persistedRevision' = revision' /\ Kept' => files'[session'] = report'
    BY <1>1, <2>0, <2>2 DEF MemoryGood, Over
  <2> QED BY <1>1, <2>1, <2>2, <2>3, <2>4 DEF MemoryGood
<1>5. WriterGood'
  <2> SUFFICES ASSUME writer.pc # "idle" PROVE WriterGood'
    BY DEF WriterGood
  <2>1. session \in Sessions
    BY WriterFiles
  <2>2. Covers(writer.snapshot, synced[session])' /\ Covers(report, writer.snapshot)'
    BY <1>1 DEF WriterGood, Covers
  <2>3. temporary'[session] \in {temporary[session], NoReport} /\ files'[session] \in {files[session], NoReport}
    BY <2>1
  <2>4. /\ writer.pc = "writing" => temporary'[session] \in {NoReport, Partial}
        /\ writer.pc \in {"unlink", "move"} => temporary'[session] \in {NoReport, writer.snapshot}
    BY <1>1, <2>3 DEF WriterGood
  <2>5. writer.pc \in {"list", "clean", "info", "delete"} =>
              /\ files'[session] \in {NoReport, writer.snapshot}
              /\ Kept' => files'[session] = writer.snapshot
    <3>1. Kept' => Kept /\ ~disturbed'
      BY DEF Kept
    <3> QED BY <1>1, <2>1, <2>3, <3>1 DEF WriterGood
  <2> QED BY <1>1, <2>2, <2>4, <2>5 DEF WriterGood
<1>6. PruneGood'
  <2>1. Present' \subseteq Present
    BY DEF Present
  <2> QED BY <1>1, <2>1, PruneStays
<1> QED BY <1>2, <1>3, <1>4, <1>5, <1>6 DEF ReportInv

\* A step of the listing that touches no file.
LEMMA ListerReads ==
    ASSUME ReportInv,
           UNCHANGED <<session, progress, hidden, report, revision, persistedRevision,
                       writeScheduled, writer, expired, synced, pruneDue, temporary, files, disturbed>>,
           IsTask(lister')
    PROVE  ReportInv'
<1>1. temporary \in FileTable /\ files \in FileTable
  BY DEF ReportInv, ReportTypes, ReportTypeOK, FileTable, FileContents
<1>2. \A s \in Sessions : /\ temporary'[s] \in {temporary[s], NoReport}
                          /\ files'[s] \in {files[s], NoReport}
  OBVIOUS
<1> QED BY <1>1, <1>2, ListerWorks

\* Settings is opened.
LEMMA OpenSettingsStep ==
    ASSUME ReportInv, OpenSettings
    PROVE  ReportInv'
<1>1. /\ lister' = [NoTask EXCEPT !.pc = "list"]
      /\ UNCHANGED <<session, progress, hidden, report, revision, persistedRevision,
                     writeScheduled, writer, expired, synced, pruneDue, temporary, files, disturbed>>
  BY DEF OpenSettings, memory, history
<1>2. IsTask(lister')
  <2>1. Moves(lister', NoTask, "list")
    BY <1>1 DEF Moves
  <2> QED BY <2>1, RestingTask, TaskGoesOn
<1> QED BY <1>1, <1>2, ListerReads

\* The listing ends.
LEMMA ListedStep ==
    ASSUME ReportInv, Listed \/ ListerFault
    PROVE  ReportInv'
<1>1. /\ lister' = NoTask
      /\ UNCHANGED <<session, progress, hidden, report, revision, persistedRevision,
                     writeScheduled, writer, expired, synced, pruneDue, temporary, files, disturbed>>
  BY DEF Listed, ListerFault, memory, history
<1>2. IsTask(lister')
  BY <1>1, RestingTask
<1> QED BY <1>1, <1>2, ListerReads

\* The prune of the listing.
LEMMA ListerPrunesStep ==
    ASSUME ReportInv, ListerPrunes
    PROVE  ReportInv'
<1>1. UNCHANGED <<session, progress, hidden, report, revision, persistedRevision,
                  writeScheduled, writer, expired, synced, pruneDue>>
  BY DEF ListerPrunes, memory
<1>2. temporary \in FileTable /\ files \in FileTable /\ IsTask(lister)
  BY DEF ReportInv, ReportTypes, ReportTypeOK, FileTable, FileContents
<1>3. CASE lister.pc = "list" /\ lister' = ReadDirectory(lister) /\ UNCHANGED <<temporary, files, disturbed>>
  <2>1. IsTask(lister')
    BY <1>2, <1>3, TaskReads
  <2> QED BY <1>1, <1>3, <2>1, ListerReads
<1>4. CASE /\ lister.pc = "clean" /\ lister' = [lister EXCEPT !.pc = "info"]
           /\ temporary' = [s \in Sessions |-> IF s \in lister.temps THEN NoReport ELSE temporary[s]]
           /\ UNCHANGED <<files, disturbed>>
  <2>1. IsTask(lister')
    <3>1. Moves(lister', lister, "info")
      BY <1>4 DEF Moves
    <3> QED BY <1>2, <3>1, TaskGoesOn
  <2>2. temporary' \in FileTable /\ \A s \in Sessions : temporary'[s] \in {temporary[s], NoReport}
    BY <1>2, <1>4, TemporaryCleaned
  <2>3. \A s \in Sessions : /\ temporary'[s] \in {temporary[s], NoReport}
                            /\ files'[s] \in {files[s], NoReport}
    BY <1>4, <2>2
  <2>4. files' \in FileTable /\ (disturbed => disturbed') /\ files'[session] = files[session]
    BY <1>2, <1>4
  <2> QED BY <1>1, <2>1, <2>2, <2>3, <2>4, ListerWorks
<1>5. CASE lister.pc = "info" /\ lister' = GetInfo(lister) /\ UNCHANGED <<temporary, files, disturbed>>
  <2>1. IsTask(lister')
    BY <1>2, <1>5, TaskDecides
  <2> QED BY <1>1, <1>5, <2>1, ListerReads
<1>6. CASE /\ lister.pc = "delete"
           /\ \E s \in lister.doomed :
                 /\ lister' = [lister EXCEPT !.doomed = @ \ {s}]
                 /\ files' = [files EXCEPT ![s] = NoReport]
                 /\ disturbed' = (disturbed \/ s = session)
           /\ UNCHANGED temporary
  <2>1. PICK s \in lister.doomed : /\ lister' = [lister EXCEPT !.doomed = lister.doomed \ {s}]
                                   /\ files' = [files EXCEPT ![s] = NoReport]
                                   /\ disturbed' = (disturbed \/ s = session)
    BY <1>6
  <2>2. IsTask(lister')
    <3>1. Deletes(lister', lister, s)
      BY <2>1 DEF Deletes
    <3> QED BY <1>2, <3>1, TaskDeletes
  <2>3. s \in Sessions
    BY <1>2 DEF IsTask
  <2>4. files' \in FileTable /\ files'[s] = NoReport /\ OthersStay(files', files, s)
    <3>1. Stores(files', files, s, NoReport)
      BY <2>1 DEF Stores
    <3>2. NoReport \in FileContents
      BY DEF FileContents
    <3> QED BY <1>2, <2>3, <3>1, <3>2, TableStep
  <2>5. \A t \in Sessions : /\ temporary'[t] \in {temporary[t], NoReport}
                            /\ files'[t] \in {files[t], NoReport}
    BY <1>6, <2>3, <2>4 DEF OthersStay
  <2>6. disturbed => disturbed'
    BY <2>1
  <2>7. session \in Sessions => disturbed' \/ files'[session] = files[session]
    BY <2>1, <2>4 DEF OthersStay
  <2>8. temporary' \in FileTable
    BY <1>2, <1>6
  <2> QED BY <1>1, <2>2, <2>4, <2>5, <2>6, <2>7, <2>8, ListerWorks
<1> QED BY <1>3, <1>4, <1>5, <1>6 DEF ListerPrunes

\* A report grows old; only those of earlier transfers do.
LEMMA ExpireStep ==
    ASSUME ReportInv, NEW s \in Sessions, Expire(s)
    PROVE  ReportInv'
<1>1. /\ s < session /\ expired' = expired \cup {s}
      /\ UNCHANGED <<session, progress, hidden, report, revision, persistedRevision,
                     writeScheduled, writer, lister, synced, pruneDue, temporary, files, disturbed>>
  BY DEF Expire, memory, history
<1>2. ReportTypes /\ FilesGood /\ MemoryGood /\ WriterGood /\ PruneGood
  BY DEF ReportInv
<1>3. ReportTypes'
  BY <1>1, <1>2 DEF ReportTypes, ReportTypeOK, IsTask
<1>4. FilesGood'
  BY <1>1, <1>2, FilesStay
<1>5. MemoryGood'
  BY <1>1, <1>2 DEF MemoryGood, Flushed, LateGood, Kept, Covers
<1>6. WriterGood'
  BY <1>1, <1>2 DEF WriterGood, Covers, Kept
<1>7. PruneGood'
  <2>1. Present' = Present
    BY <1>1, PresentStays
  <2> QED BY <1>1, <1>2, <2>1, PruneStays
<1> QED BY <1>3, <1>4, <1>5, <1>6, <1>7 DEF ReportInv

\* The app is killed: the files remain as they are.
LEMMA KillStep ==
    ASSUME ReportInv, Kill
    PROVE  ReportInv'
<1>1. /\ progress' = "idle" /\ hidden' = FALSE /\ report' = NoReport /\ revision' = 0
      /\ persistedRevision' = 0 /\ writeScheduled' = FALSE /\ writer' = NoTask /\ lister' = NoTask
      /\ UNCHANGED <<session, temporary, files, expired, synced, disturbed, pruneDue>>
  BY DEF Kill
<1>2. ReportTypes /\ FilesGood /\ PruneGood
  BY DEF ReportInv
<1>3. /\ IsTask(writer') /\ writer'.pc = "idle" /\ writer'.snapshot = NoReport /\ IsTask(lister')
  BY <1>1, RestingTask
<1>4. 0 \in Nat /\ 0 \in 0..0
  BY SMTT(60)
<1>5. ReportTypes'
  <2>1. ReportTypeOK'
    BY <1>1, <1>2, <1>3, <1>4 DEF ReportTypes, ReportTypeOK
  <2> QED BY <1>1, <1>2, <1>3, <2>1 DEF ReportTypes
<1>6. FilesGood'
  BY <1>1, <1>2, FilesStay
<1>7. MemoryGood'
  BY <1>1, <1>3 DEF MemoryGood, Flushed, LateGood, Over
<1>8. WriterGood'
  BY <1>3 DEF WriterGood
<1>9. PruneGood'
  <2>1. Present' = Present
    BY <1>1, PresentStays
  <2>2. writer'.pc \notin {"clean", "info", "delete"}
    BY <1>3
  <2> QED BY <1>1, <1>2, <2>1, <2>2, PruneRests
<1> QED BY <1>5, <1>6, <1>7, <1>8, <1>9 DEF ReportInv

-----------------------------------------------------------------------------
(* Reports: the theorems *)

\* There is no report before the first transfer.
LEMMA ReportStart ==
    ASSUME ReportInit
    PROVE  ReportInv
<1>1. /\ session = 0 /\ progress = "idle" /\ hidden = FALSE /\ report = NoReport
      /\ revision = 0 /\ persistedRevision = 0 /\ writeScheduled = FALSE
      /\ writer = NoTask /\ lister = NoTask
      /\ temporary = [s \in Sessions |-> NoReport] /\ files = [s \in Sessions |-> NoReport]
      /\ synced = [s \in Sessions |-> NoReport] /\ expired = {}
  BY DEF ReportInit
<1>2. /\ IsTask(writer) /\ writer.pc = "idle" /\ writer.snapshot = NoReport /\ IsTask(lister)
  BY <1>1, RestingTask
<1>3. 0 \in Nat /\ 0 \in 0..0 /\ 0 \in 0..Len(Bytes)
  BY SMTT(60), SizesAreNumbers
<1>4. ReportTypes
  <2>1. ReportTypeOK
    BY <1>1, <1>2, <1>3 DEF ReportTypeOK
  <2> QED BY <1>1, <1>2, <2>1 DEF ReportTypes
<1>5. FilesGood
  BY <1>1, MarkersAreNoReports DEF FilesGood
<1>6. MemoryGood
  BY <1>1, <1>2 DEF MemoryGood, Flushed, LateGood, Over
<1>7. WriterGood
  BY <1>2 DEF WriterGood
<1>8. PruneGood
  <2>1. Present = {}
    BY <1>1 DEF Present
  <2>2. Limited({})
    <3>1. TotalSize({}) = 0 /\ Cardinality({}) = 0
      BY NothingHasNoSize, FS_EmptySet
    <3>2. MaxReports \in Nat /\ MaxTotalBytes \in Nat
      BY SizesAreNumbers
    <3>3. Cardinality({}) <= MaxReports /\ TotalSize({}) <= MaxTotalBytes
      BY ONLY SMTT(60), <3>1, <3>2
    <3> QED BY <3>3 DEF Limited
  <2> QED BY <1>2, <2>1, <2>2 DEF PruneGood
<1> QED BY <1>4, <1>5, <1>6, <1>7, <1>8 DEF ReportInv

\* Every step keeps the invariant.
LEMMA ReportStep ==
    ASSUME ReportInv, [ReportNext]_reportVars
    PROVE  ReportInv'
<1>1. CASE \/ BeginReport \/ Begun \/ CheckpointWindow \/ RecordMeasurements \/ UpdateTransfer
           \/ RecordThermal \/ FinishReport \/ Finished \/ TransferEnded \/ HideTransfer
  BY <1>1, BeginReportStep, BegunStep, CheckpointWindowStep, RecordMeasurementsStep,
     UpdateTransferStep, RecordThermalStep, FinishReportStep, FinishedStep, TransferEndedStep,
     HideTransferStep
<1>2. CASE WriterStep
  <2>1. MoveFindsNothing => writer.pc # "idle" /\ ChainFails
    BY DEF MoveFindsNothing
  <2> QED BY <1>2, <2>1, TakeSnapshotStep, DeleteTemporaryStep, WriteBeginsStep, WriteCompletesStep,
             DeleteDestinationStep, MoveTemporaryStep, ChainFailsStep, WriterPrunesStep, PersistedStep
          DEF WriterStep
<1>3. CASE WriterFault
  <2>1. writer.pc # "idle" /\ ChainFails
    BY <1>3 DEF WriterFault
  <2> QED BY <2>1, ChainFailsStep
<1>4. CASE OpenSettings \/ ListerPrunes \/ Listed \/ ListerFault
  BY <1>4, OpenSettingsStep, ListerPrunesStep, ListedStep
<1>5. CASE \E s \in Sessions : Expire(s)
  BY <1>5, ExpireStep
<1>6. CASE Kill
  BY <1>6, KillStep
<1>7. CASE UNCHANGED reportVars
  <2>1. UNCHANGED <<session, progress, hidden, report, revision, persistedRevision, writeScheduled,
                    writer, lister, temporary, files, expired, synced, disturbed, pruneDue>>
    BY <1>7 DEF reportVars
  <2>2. IsTask(lister')
    BY <2>1 DEF ReportInv, ReportTypes, IsTask
  <2> QED BY <2>1, <2>2, ListerReads
<1> QED BY <1>1, <1>2, <1>3, <1>4, <1>5, <1>6, <1>7 DEF ReportNext

\* The invariant of the diagnostic reports holds in every behaviour, for any
\* number of transfers, sizes, limits, failures and kills.
THEOREM ReportInvariant == ReportSpec => []ReportInv
<1>1. ReportInit => ReportInv
  BY ReportStart
<1>2. ReportInv /\ [ReportNext]_reportVars => ReportInv'
  BY ReportStep
<1> QED BY <1>1, <1>2, PTL DEF ReportSpec

\* A report on the phone is whole and has at least what the last returned write
\* of its transfer had (persistDiagnosticReport writes a temporary file and
\* moves it), and what pruneReports leaves after a write respects the number
\* and the total size.
THEOREM ReportsStayCurrent == ReportSpec => []ReportsAreCurrent
<1>1. ReportInv => ReportsAreCurrent
  <2> SUFFICES ASSUME ReportInv PROVE ReportsAreCurrent
    OBVIOUS
  <2>1. ReportTypeOK /\ FilesGood /\ (~pruneDue => Limited(Present))
    BY DEF ReportInv, ReportTypes, PruneGood
  <2> QED BY <2>1 DEF ReportsAreCurrent, FilesGood, Limited, Covers
<1> QED BY <1>1, ReportInvariant, PTL

\* Once finish() has returned, the report on the phone is a final one and, when
\* no write is due, the one in memory, also while a late thermal state is
\* written -- unless an operation on the files of the transfer failed, a listing
\* deleted one, or the report alone exceeds MAX_TOTAL_BYTES (queueWrite's loop
\* writes what was queued behind a write in progress).
THEOREM CompletionAlwaysFlushes == ReportSpec => []CompletionFlushes
<1>1. ReportInv => CompletionFlushes
  <2> SUFFICES ASSUME ReportInv, progress \in {"ending", "idle"}, report # NoReport, Kept
               PROVE  /\ report.final
                      /\ ChainSettled => files[session] = report
                      /\ writer.pc # "move" => files[session].final
    BY DEF CompletionFlushes, Kept
  <2>1. MemoryGood
    BY DEF ReportInv
  <2>2. CASE progress = "idle"
    BY <2>1, <2>2 DEF MemoryGood, Flushed
  <2>3. CASE progress = "ending"
    <3>1. Over(progress)
      BY <2>3 DEF Over
    <3>2. ChainSettled => persistedRevision = revision
      BY <2>1 DEF MemoryGood, ChainSettled, Kept
    <3> QED BY <2>1, <2>3, <3>1, <3>2 DEF MemoryGood, LateGood
  <2> QED BY <2>2, <2>3
<1> QED BY <1>1, ReportInvariant, PTL
=============================================================================
