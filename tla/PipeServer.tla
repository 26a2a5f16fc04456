----------------------------- MODULE PipeServer -----------------------------
(***************************************************************************)
(* The server's end of the named pipe to the GUI: PipeServer.cpp.  HTTP    *)
(* threads call sendMessage, which looks at the connection without a lock  *)
(* and then changes m_outQueue under m_queueMutex; the pipe thread (run)   *)
(* serves one GUI after the other, handles its commands and writes the     *)
(* queue to it; main stops the pipe thread and joins it.                   *)
(*                                                                         *)
(* A message is its type and a stamp that stands for its payload: a later  *)
(* payload has a larger stamp.  WriteFile to a message pipe either writes  *)
(* the whole message or fails and writes nothing.  A GUI is modelled by    *)
(* what the pipe shows of it: it connects, reads, sends commands, leaves.  *)
(*                                                                         *)
(* A definition marked "Wrong:" belongs to no specification: it is the     *)
(* definition below it with a plausible mistake, which shows that the      *)
(* properties would notice.                                                *)
(***************************************************************************)
EXTENDS Naturals, Sequences

CONSTANTS
  Senders,                    \* HTTP threads
  Requests,                   \* types that are neither logs nor snapshots
  Snapshots,                  \* types that isCoalescibleMessage accepts
  MaxQueuedMessages, ReservedImportantMessages,
  AuthRequired,               \* m_authenticationRequired
  MaxMessages,                \* bound on the messages ever sent
  MaxBreaks,                  \* bound on the connections that break
  None

\* What the pipe thread sends in answer to commands.
ControlTypes == {"ownership_proof", "session_ready", "session_rejected"}
ReplyTypes == ControlTypes \cup {"command_result"}

Important == Requests \cup ReplyTypes
Types == Important \cup Snapshots \cup {"log"}

ASSUME PipeAssumption ==
  /\ "log" \notin Important \cup Snapshots
  /\ Requests \cap Snapshots = {} /\ ReplyTypes \cap Snapshots = {}
  /\ MaxQueuedMessages \in Nat \ {0}
  /\ ReservedImportantMessages \in 0 .. MaxQueuedMessages
  /\ AuthRequired \in BOOLEAN
  /\ MaxMessages \in Nat /\ MaxBreaks \in Nat
  /\ None \notin [type : Types, stamp : Nat]

VARIABLES
  running,       \* g_running
  mRunning,      \* m_running
  connected,     \* m_connected
  authenticated, \* m_sessionAuthenticated
  queue,         \* m_outQueue
  inFlight,      \* the message the pipe thread has popped
  replies,       \* what the command being handled still has to send
  pending,       \* per sender, the message that passed the checks
  handle,        \* m_threadHandle is set
  pc,            \* pipe thread
  main,          \* main thread: serving, stop, cancel, join, exited
  attached,      \* a GUI has the other end of the pipe open
  stamps,        \* messages sent so far
  breaks,        \* connections that broke so far
  accepted,      \* history: important messages that entered the queue
  delivered      \* history: important messages a GUI was written

flagVars == <<running, mRunning, connected, authenticated>>
threadVars == <<pc, main, handle>>
guiVars == <<attached, breaks>>
vars == <<flagVars, queue, inFlight, replies, pending, threadVars, guiVars, stamps,
          accepted, delivered>>

Message(type) == [type |-> type, stamp |-> stamps + 1]

\* The GUI leaves, or the connection fails for another reason.
Break == breaks < MaxBreaks /\ breaks' = breaks + 1

Init ==
  /\ running = TRUE /\ mRunning = FALSE /\ connected = FALSE /\ authenticated = FALSE
  /\ queue = <<>> /\ inFlight = None /\ replies = <<>>
  /\ pending = [s \in Senders |-> None]
  /\ handle = FALSE /\ pc = "start" /\ main = "serving"
  /\ attached = FALSE /\ breaks = 0 /\ stamps = 0
  /\ accepted = <<>> /\ delivered = <<>>

----------------------------------------------------------------------------
(* sendMessage *)

\* find_if over m_outQueue: the first message of one of these types, 0 if none.
FirstOf(T) ==
  LET places == {i \in DOMAIN queue : queue[i].type \in T} IN
  IF places = {} THEN 0 ELSE CHOOSE i \in places : \A j \in places : i <= j

\* erase
Without(q, k) == SubSeq(q, 1, k - 1) \o SubSeq(q, k + 1, Len(q))

\* Wrong: no slot is kept free for a message that must be requeued.
FullAtLimit == Len(queue) >= MaxQueuedMessages
Full == Len(queue) >= MaxQueuedMessages - 1

Disposable == FirstOf(Snapshots \cup {"log"})

Push(q, m) ==
  /\ queue' = Append(q, m)
  /\ accepted' = IF m.type \in Important THEN Append(accepted, m) ELSE accepted

PendingAlready(m) == m.type \in Snapshots /\ FirstOf({m.type}) # 0

\* The part under m_queueMutex: a snapshot takes the place of a pending one, a log
\* is dropped when only the reserved slots are free, and a full queue gives up a
\* log or a snapshot, or refuses the message.
Enqueue(m) ==
  LET dropped == /\ m.type = "log"
                 /\ Len(queue) >= MaxQueuedMessages - ReservedImportantMessages IN
  IF PendingAlready(m)
  THEN queue' = [queue EXCEPT ![FirstOf({m.type})] = m] /\ UNCHANGED accepted
  ELSE IF dropped \/ (Full /\ Disposable = 0) THEN UNCHANGED <<queue, accepted>>
  ELSE Push(IF Full THEN Without(queue, Disposable) ELSE queue, m)

MaySend(type) == connected /\ (AuthRequired => authenticated \/ type \in ControlTypes)

\* An HTTP thread: the payload is made and the flags are read without a lock.
SendMessage(s, type) ==
  /\ type \notin ReplyTypes
  /\ pending[s] = None /\ MaySend(type)
  /\ stamps < MaxMessages /\ stamps' = stamps + 1
  /\ pending' = [pending EXCEPT ![s] = Message(type)]
  /\ UNCHANGED <<flagVars, queue, inFlight, replies, threadVars, guiVars, accepted,
                 delivered>>

SendLocked(s) ==
  /\ pending[s] # None
  /\ Enqueue(pending[s])
  /\ pending' = [pending EXCEPT ![s] = None]
  /\ UNCHANGED <<flagVars, inFlight, replies, threadVars, guiVars, stamps, delivered>>

----------------------------------------------------------------------------
(* run, the pipe thread *)

Goto(label) == pc' = label

\* m_threadHandle is opened and the outer loop entered; or the pipe's security
\* descriptor cannot be made, and the server stops.
Start ==
  /\ pc = "start"
  /\ \/ mRunning' = TRUE /\ handle' = TRUE /\ Goto("loop") /\ UNCHANGED running
     \/ mRunning' = FALSE /\ running' = FALSE /\ Goto("done") /\ UNCHANGED handle
  /\ UNCHANGED <<connected, authenticated, queue, inFlight, replies, pending,
                 main, guiVars, stamps, accepted, delivered>>

\* The condition of the outer loop; CreateNamedPipe, or a pause and again.
LoopTop ==
  /\ pc = "loop"
  /\ IF running /\ mRunning
     THEN Goto("created") /\ UNCHANGED <<mRunning, handle>>
     ELSE Goto("done") /\ mRunning' = FALSE /\ handle' = FALSE
  /\ UNCHANGED <<running, connected, authenticated, queue, inFlight, replies, pending,
                 main, guiVars, stamps, accepted, delivered>>

\* The call of ConnectNamedPipe blocks until a GUI opens the pipe.
Listen ==
  /\ pc = "created" /\ Goto("listening")
  /\ UNCHANGED <<flagVars, queue, inFlight, replies, pending, main, handle, guiVars,
                 stamps, accepted, delivered>>

Accept ==
  /\ pc = "listening" /\ attached
  /\ authenticated' = ~AuthRequired /\ connected' = TRUE
  /\ Goto("serve")
  /\ UNCHANGED <<running, mRunning, queue, inFlight, replies, pending, main, handle,
                 guiVars, stamps, accepted, delivered>>

ConnectFails ==
  /\ pc = "listening" /\ attached
  /\ Break /\ Goto("close")
  /\ UNCHANGED <<flagVars, queue, inFlight, replies, pending, main, handle, attached,
                 stamps, accepted, delivered>>

Serving == running /\ mRunning /\ connected

\* What a command sends, in order, and the new value of authenticated and running.
\* A command that is refused, or that the callback does not know, may still be
\* answered by command_result.
Answer == {<<>>, <<"command_result">>}
Commands ==
  LET control == {[send |-> <<"session_ready">>, auth |-> TRUE, stop |-> FALSE],
                  [send |-> <<"session_rejected">>, auth |-> FALSE, stop |-> FALSE],
                  [send |-> <<"ownership_proof">>, auth |-> FALSE, stop |-> FALSE],
                  [send |-> <<>>, auth |-> FALSE, stop |-> TRUE]}
      other == {[send |-> x, auth |-> FALSE, stop |-> FALSE] :
                  x \in {<<>>} \cup {<<t>> : t \in Snapshots}} IN
  IF AuthRequired /\ ~authenticated THEN control ELSE control \cup other

\* processIncoming: the loop is over; there is nothing to read, or PeekNamedPipe fails
\* with an error other than a broken pipe, which keeps m_connected; the pipe is broken,
\* a message cannot be read or is too large; or a command arrives, and runs on the
\* pipe thread.
ProcessIncoming ==
  /\ pc = "serve"
  /\ \/ /\ ~Serving
        /\ Goto("close")
        /\ UNCHANGED <<flagVars, replies, breaks>>
     \/ /\ Serving
        /\ Goto("drain")
        /\ UNCHANGED <<flagVars, replies, breaks>>
     \/ /\ Serving
        /\ IF attached THEN Break ELSE UNCHANGED breaks
        /\ connected' = FALSE /\ Goto("close")
        /\ UNCHANGED <<running, mRunning, authenticated, replies>>
     \/ /\ Serving /\ attached /\ stamps < MaxMessages
        /\ \E c \in Commands, a \in Answer :
             /\ replies' = c.send \o a
             /\ authenticated' = (authenticated \/ c.auth)
             /\ running' = (running /\ ~c.stop)
        /\ Goto("reply")
        /\ UNCHANGED <<mRunning, connected, breaks>>
  /\ UNCHANGED <<queue, inFlight, pending, main, handle, attached, stamps, accepted,
                 delivered>>

\* The command's calls of sendMessage.
Reply ==
  /\ pc = "reply"
  /\ IF replies = <<>>
     THEN Goto("drain") /\ UNCHANGED <<queue, accepted, replies, stamps>>
     ELSE /\ IF MaySend(Head(replies))
             THEN Enqueue(Message(Head(replies))) ELSE UNCHANGED <<queue, accepted>>
          /\ stamps' = stamps + 1
          /\ replies' = Tail(replies) /\ UNCHANGED pc
  /\ UNCHANGED <<flagVars, inFlight, pending, main, handle, guiVars, delivered>>

\* The inner loop pops a message under m_queueMutex and writes it without.
Pop ==
  /\ pc = "drain"
  /\ IF Serving /\ queue # <<>>
     THEN /\ inFlight' = Head(queue) /\ queue' = Tail(queue)
          /\ Goto("popped")
     ELSE Goto("serve") /\ UNCHANGED <<inFlight, queue>>
  /\ UNCHANGED <<flagVars, replies, pending, main, handle, guiVars, stamps, accepted,
                 delivered>>

\* The call of WriteFile blocks while the GUI does not read.
StartWrite ==
  /\ pc = "popped" /\ Goto("writing")
  /\ UNCHANGED <<flagVars, queue, inFlight, replies, pending, main, handle, guiVars,
                 stamps, accepted, delivered>>

Written ==
  /\ pc = "writing" /\ attached
  /\ delivered' = IF inFlight.type \in Important THEN Append(delivered, inFlight)
                                                 ELSE delivered
  /\ inFlight' = None
  /\ Goto("drain")
  /\ UNCHANGED <<flagVars, queue, replies, pending, main, handle, guiVars, stamps,
                 accepted>>

WriteFails ==
  /\ pc = "writing" /\ Goto("requeue")
  /\ IF attached THEN Break ELSE UNCHANGED breaks
  /\ UNCHANGED <<flagVars, queue, inFlight, replies, pending, main, handle, attached,
                 stamps, accepted, delivered>>

\* Wrong: the message is given up with the connection.
RequeueNothing ==
  /\ pc = "requeue"
  /\ inFlight' = None /\ connected' = FALSE /\ Goto("close")
  /\ UNCHANGED <<running, mRunning, authenticated, queue, replies, pending, main, handle,
                 guiVars, stamps, accepted, delivered>>
\* Wrong: the message goes to the end of the queue.
RequeueLast ==
  /\ pc = "requeue"
  /\ queue' = Append(queue, inFlight)
  /\ inFlight' = None /\ connected' = FALSE /\ Goto("close")
  /\ UNCHANGED <<running, mRunning, authenticated, replies, pending, main, handle,
                 guiVars, stamps, accepted, delivered>>
\* push_front under m_queueMutex, then m_connected = false.
Requeue ==
  /\ pc = "requeue"
  /\ queue' = <<inFlight>> \o queue
  /\ inFlight' = None /\ connected' = FALSE /\ Goto("close")
  /\ UNCHANGED <<running, mRunning, authenticated, replies, pending, main, handle,
                 guiVars, stamps, accepted, delivered>>

\* DisconnectNamedPipe and CloseHandle: the GUI, if it is there, loses the pipe.
ClosePipe ==
  /\ pc = "close"
  /\ attached' = FALSE /\ connected' = FALSE /\ authenticated' = FALSE
  /\ Goto("loop")
  /\ UNCHANGED <<running, mRunning, queue, inFlight, replies, pending, main, handle,
                 breaks, stamps, accepted, delivered>>

----------------------------------------------------------------------------
(* The GUI, and the end of the process *)

\* A GUI opens the pipe, which exists from CreateNamedPipe on.
GuiAttach ==
  /\ pc \in {"created", "listening"} /\ ~attached
  /\ attached' = TRUE
  /\ UNCHANGED <<flagVars, queue, inFlight, replies, pending, threadVars, breaks,
                 stamps, accepted, delivered>>

GuiLeave ==
  /\ attached /\ pc \notin {"created", "listening"}
  /\ attached' = FALSE /\ Break
  /\ UNCHANGED <<flagVars, queue, inFlight, replies, pending, threadVars, stamps,
                 accepted, delivered>>

\* A console signal; HttpServer::run returns once g_running is false.
Signal ==
  /\ running /\ running' = FALSE
  /\ UNCHANGED <<mRunning, connected, authenticated, queue, inFlight, replies, pending,
                 threadVars, guiVars, stamps, accepted, delivered>>

HttpServerReturns ==
  /\ main = "serving" /\ ~running /\ main' = "stop"
  /\ UNCHANGED <<flagVars, queue, inFlight, replies, pending, pc, handle, guiVars,
                 stamps, accepted, delivered>>

\* stop: the flags, and then CancelSynchronousIo, which ends a call of the pipe
\* thread that is blocked at that moment and does nothing otherwise.
StopFlags ==
  /\ main = "stop" /\ main' = "cancel"
  /\ mRunning' = FALSE /\ connected' = FALSE
  /\ UNCHANGED <<running, authenticated, queue, inFlight, replies, pending, pc, handle,
                 guiVars, stamps, accepted, delivered>>

CancelSynchronousIo ==
  /\ main = "cancel" /\ main' = "join"
  /\ pc' = IF ~handle THEN pc
           ELSE IF pc = "listening" THEN "close"
           ELSE IF pc = "writing" THEN "requeue" ELSE pc
  /\ UNCHANGED <<flagVars, queue, inFlight, replies, pending, handle, guiVars, stamps,
                 accepted, delivered>>

Join ==
  /\ main = "join" /\ pc = "done" /\ main' = "exited"
  /\ UNCHANGED <<flagVars, queue, inFlight, replies, pending, pc, handle, guiVars,
                 stamps, accepted, delivered>>

\* The process is gone.
Exited == main = "exited" /\ UNCHANGED vars

PipeStep ==
  \/ Start \/ LoopTop \/ Listen \/ Accept \/ ConnectFails \/ ProcessIncoming \/ Reply
  \/ Pop \/ StartWrite \/ Written \/ WriteFails \/ Requeue \/ ClosePipe
MainStep == HttpServerReturns \/ StopFlags \/ CancelSynchronousIo \/ Join

Next ==
  \/ \E s \in Senders : SendLocked(s) \/ \E type \in Types : SendMessage(s, type)
  \/ PipeStep \/ MainStep
  \/ GuiAttach \/ GuiLeave \/ Signal \/ Exited

Spec == Init /\ [][Next]_vars

----------------------------------------------------------------------------
(* Properties *)

Messages == [type : Types, stamp : Nat]
Labels == {"start", "loop", "created", "listening", "serve", "reply", "drain", "popped",
           "writing", "requeue", "close", "done"}

\* The values of the queue, the flags and the threads of PipeServer.cpp.
TypeOK ==
  /\ running \in BOOLEAN /\ mRunning \in BOOLEAN /\ connected \in BOOLEAN
  /\ authenticated \in BOOLEAN /\ handle \in BOOLEAN /\ attached \in BOOLEAN
  /\ queue \in Seq(Messages) /\ inFlight \in Messages \cup {None}
  /\ replies \in Seq(Types)
  /\ pending \in [Senders -> Messages \cup {None}]
  /\ pc \in Labels /\ main \in {"serving", "stop", "cancel", "join", "exited"}
  /\ stamps \in Nat /\ breaks \in Nat
  /\ accepted \in Seq(Messages) /\ delivered \in Seq(Messages)

Waiting == Len(queue) + (IF inFlight = None THEN 0 ELSE 1)

\* The queue never holds more than its limit, even when the message that was being
\* written is put back while senders have filled the queue again (sendMessage:
\* "Leave one slot for a message that must be requeued after a failed write").
QueueBounded == Waiting <= MaxQueuedMessages

\* The important messages among those of q.
ImportantOf(q) ==
  LET f[i \in 0 .. Len(q)] ==
        IF i = 0 THEN <<>>
        ELSE IF q[i].type \in Important THEN Append(f[i - 1], q[i]) ELSE f[i - 1]
  IN  f[Len(q)]

Unwritten == (IF inFlight = None THEN <<>> ELSE <<inFlight>>) \o queue

\* An important message that the queue took is never lost, doubled or overtaken by
\* another one: over all connections, what GUIs were written, the message being
\* written and the queue make up what was accepted, in that order.
ImportantInOrder == TypeOK /\ accepted = delivered \o ImportantOf(Unwritten)

\* Snapshots of one type wait in at most two places, the message that was put back
\* and one behind it.
SnapshotsAtMostTwice ==
  \A i, j \in 1 .. Len(queue) :
    i < j /\ queue[i].type = queue[j].type /\ queue[i].type \in Snapshots =>
      i = 1 /\ inFlight = None

Fairness ==
  /\ WF_vars(PipeStep) /\ WF_vars(MainStep) /\ WF_vars(GuiAttach)
  /\ \A s \in Senders : WF_vars(SendLocked(s))
FairSpec == Spec /\ Fairness

\* A message that the queue took as important is written to a GUI in the end, if
\* connections stop breaking and the server is not stopped.
ImportantDelivered ==
  \A k \in 1 .. MaxMessages :
    (Len(accepted) >= k) ~>
      (~running \/ Len(delivered) >= k)

=============================================================================
