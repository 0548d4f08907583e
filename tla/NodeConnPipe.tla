---------------------------- MODULE NodeConnPipe ----------------------------
(***************************************************************************)
(* The message pipe between the proxy's handlers and one cache node        *)
(* (proxy/proto/pipe.go).  A NodeConnPipe owns a fixed set of connections. *)
(* Each connection has a bounded input channel and one goroutine that      *)
(* drains the channel into a batch, writes and flushes the batch, reads    *)
(* the replies in order and marks every message of the batch done.         *)
(*                                                                         *)
(* A message is pushed by the handler goroutine that owns it, and only     *)
(* when its previous round is done: the handler waits on the WaitGroup     *)
(* before it decodes the next requests into the same messages.             *)
(***************************************************************************)
EXTENDS Integers, Sequences

CONSTANTS
  Msgs,        \* the messages of the handlers that use this pipe
  Reqs,        \* the requests a message can carry
  Conns,       \* the connections to the node
  ConnOf,      \* the connection of a request: Crc16(key) % conns
  QueueCap,    \* capacity of an input channel, pipeMaxCount*pipeMaxCount
  BatchMax,    \* pipeMaxCount
  MayClose,    \* whether a reload or a shutdown may call Close
  None,        \* no request, or no reply yet
  Error        \* an error as the handler sees it

ASSUME PipeAssumption ==
  /\ ConnOf \in [Reqs -> Conns]
  /\ QueueCap \in Nat \ {0}
  /\ BatchMax \in Nat \ {0}
  /\ MayClose \in BOOLEAN
  /\ None \notin Reqs /\ Error \notin Reqs /\ None # Error

VARIABLES
  state,       \* ncp.state, and with it whether the inputs are closed
  errCh,       \* the error channel: [n |-> buffered errors, closed |-> ...]
  closer,      \* progress of the call of Close
  queue,       \* the input channels
  pc,          \* where each pipe goroutine is
  batch,       \* mp.batch[:count]; in the MEND loop, the part still to do
  idx,         \* the read loop's index into batch, 1 outside the loop
  failed,      \* whether the goroutine's err is set
  wire,        \* requests written to the connection and not yet answered
  pusher,      \* progress of the call of Push for each message
  pending,     \* the message's share of its WaitGroup: Adds minus Dones
  req,         \* the request the message carries
  reply,       \* the reply the message holds, named by the request it answers
  err,         \* m.err
  crashed      \* "no", or the closed channel on which a send panicked

closeVars == <<state, errCh, closer>>
pipeVars == <<queue, pc, batch, idx, failed, wire>>
msgVars == <<pusher, pending, req, reply, err>>
vars == <<closeVars, pipeVars, msgVars, crashed>>

PipePc == {"recv", "flush", "read", "mend", "renew", "wait", "exited"}

TypeOK ==
  /\ state \in {"opened", "closed"}
  /\ errCh \in [n : 0..1, closed : BOOLEAN]
  /\ closer \in {"idle", "locking", "done"}
  /\ queue \in [Conns -> Seq(Msgs)]
  /\ pc \in [Conns -> PipePc]
  /\ batch \in [Conns -> Seq(Msgs)]
  /\ idx \in [Conns -> Nat]
  /\ failed \in [Conns -> BOOLEAN]
  /\ wire \in [Conns -> Seq(Reqs)]
  /\ pusher \in [Msgs -> {"idle", "send", "reject"}]
  /\ pending \in [Msgs -> Int]
  /\ req \in [Msgs -> Reqs \cup {None}]
  /\ reply \in [Msgs -> Reqs \cup {None}]
  /\ err \in [Msgs -> {"nil", "full", "net"}]
  /\ crashed \in {"no", "input", "errCh"}

Init ==
  /\ state = "opened"
  /\ errCh = [n |-> 0, closed |-> FALSE]
  /\ closer = "idle"
  /\ queue = [c \in Conns |-> << >>]
  /\ pc = [c \in Conns |-> "recv"]
  /\ batch = [c \in Conns |-> << >>]
  /\ idx = [c \in Conns |-> 1]
  /\ failed = [c \in Conns |-> FALSE]
  /\ wire = [c \in Conns |-> << >>]
  /\ pusher = [m \in Msgs |-> "idle"]
  /\ pending = [m \in Msgs |-> 0]
  /\ req = [m \in Msgs |-> None]
  /\ reply = [m \in Msgs |-> None]
  /\ err = [m \in Msgs |-> "nil"]
  /\ crashed = "no"

-----------------------------------------------------------------------------
(* Push: the channel is chosen under the read lock and used after it.      *)

\* what Push goes on to do with the state it read under the lock; variant: it
\* does not look at the state
PickedAnyState == "send"

Picked == IF state = "opened" THEN "send" ELSE "reject"

\* Message.Add, then the choice of the input under ncp.l.RLock
PushPick(m, r) ==
  /\ pusher[m] = "idle" /\ pending[m] = 0
  /\ pusher' = [pusher EXCEPT ![m] = Picked]
  /\ pending' = [pending EXCEPT ![m] = @ + 1]
  /\ req' = [req EXCEPT ![m] = r]
  /\ reply' = [reply EXCEPT ![m] = None]
  /\ err' = [err EXCEPT ![m] = "nil"]
  /\ UNCHANGED <<closeVars, pipeVars, crashed>>

\* the return after a successful send; variant: Push falls through
SentFallsThrough == "reject"

Sent == "idle"

\* the select with a default: a send on a closed channel panics
PushSend(m) ==
  LET c == ConnOf[req[m]] IN
  /\ pusher[m] = "send"
  /\ \/ /\ state = "closed"
        /\ crashed' = "input"
        /\ UNCHANGED <<queue, pusher>>
     \/ /\ state = "opened" /\ Len(queue[c]) < QueueCap
        /\ queue' = [queue EXCEPT ![c] = Append(@, m)]
        /\ pusher' = [pusher EXCEPT ![m] = Sent]
        /\ UNCHANGED crashed
     \/ /\ state = "opened" /\ Len(queue[c]) >= QueueCap
        /\ pusher' = [pusher EXCEPT ![m] = "reject"]
        /\ UNCHANGED <<queue, crashed>>
  /\ UNCHANGED <<closeVars, pc, batch, idx, failed, wire, pending, req, reply, err>>

\* variant: the rejected message is not marked done
PushRejectNoDone(m) ==
  /\ pusher[m] = "reject"
  /\ err' = [err EXCEPT ![m] = "full"]
  /\ pusher' = [pusher EXCEPT ![m] = "idle"]
  /\ UNCHANGED <<closeVars, pipeVars, pending, req, reply, crashed>>

\* no channel was chosen, or the chosen one is full
PushReject(m) ==
  /\ pusher[m] = "reject"
  /\ err' = [err EXCEPT ![m] = "full"]
  /\ pending' = [pending EXCEPT ![m] = @ - 1]
  /\ pusher' = [pusher EXCEPT ![m] = "idle"]
  /\ UNCHANGED <<closeVars, pipeVars, req, reply, crashed>>

-----------------------------------------------------------------------------
(* pipe(): the goroutine of connection c.                                  *)

\* a message is received (without blocking in the inner loop, blocking at
\* the end of the outer one), put in the batch and written
TakeAndWrite(c) ==
  /\ pc[c] \in {"recv", "wait"} /\ queue[c] # << >>
  /\ LET m == Head(queue[c])
         b == Append(batch[c], m)
     IN /\ queue' = [queue EXCEPT ![c] = Tail(@)]
        /\ batch' = [batch EXCEPT ![c] = b]
        /\ \/ /\ wire' = [wire EXCEPT ![c] = Append(@, req[m])]
              /\ pc' = [pc EXCEPT ![c] = IF Len(b) >= BatchMax THEN "flush" ELSE "recv"]
              /\ UNCHANGED failed
           \/ /\ failed' = [failed EXCEPT ![c] = TRUE]
              /\ pc' = [pc EXCEPT ![c] = "mend"]
              /\ UNCHANGED wire
  /\ UNCHANGED <<closeVars, idx, msgVars, crashed>>

AfterEmpty(c) == IF batch[c] = << >> THEN "wait" ELSE "flush"

\* the inner loop finds the open channel empty
NothingToTake(c) ==
  /\ pc[c] = "recv" /\ queue[c] = << >> /\ state = "opened"
  /\ pc' = [pc EXCEPT ![c] = AfterEmpty(c)]
  /\ UNCHANGED <<closeVars, queue, batch, idx, failed, wire, msgVars, crashed>>

\* variant: the buffered messages are dropped
DropsOnClose(c) == pc[c] \in {"recv", "wait"} /\ state = "closed"

\* a receive returns ok = FALSE: the channel is closed and drained
ReceivesClosed(c) ==
  pc[c] \in {"recv", "wait"} /\ queue[c] = << >> /\ state = "closed"

\* the channel is closed and drained: the goroutine returns, from the inner
\* loop even when its batch holds messages
Exit(c) ==
  /\ ReceivesClosed(c)
  /\ pc' = [pc EXCEPT ![c] = "exited"]
  /\ UNCHANGED <<closeVars, queue, batch, idx, failed, wire, msgVars, crashed>>

Flush(c) ==
  /\ pc[c] = "flush"
  /\ \/ /\ pc' = [pc EXCEPT ![c] = "read"]
        /\ UNCHANGED failed
     \/ /\ pc' = [pc EXCEPT ![c] = "mend"]
        /\ failed' = [failed EXCEPT ![c] = TRUE]
  /\ UNCHANGED <<closeVars, queue, batch, idx, wire, msgVars, crashed>>

\* one nc.Read: the next reply of the connection goes to batch[idx]
Read(c) ==
  /\ pc[c] = "read"
  /\ \/ /\ wire[c] # << >>
        /\ reply' = [reply EXCEPT ![batch[c][idx[c]]] = Head(wire[c])]
        /\ wire' = [wire EXCEPT ![c] = Tail(@)]
        /\ IF idx[c] < Len(batch[c])
             THEN /\ idx' = [idx EXCEPT ![c] = @ + 1]
                  /\ UNCHANGED pc
             ELSE /\ idx' = [idx EXCEPT ![c] = 1]
                  /\ pc' = [pc EXCEPT ![c] = "mend"]
        /\ UNCHANGED failed
     \/ /\ failed' = [failed EXCEPT ![c] = TRUE]
        /\ idx' = [idx EXCEPT ![c] = 1]
        /\ pc' = [pc EXCEPT ![c] = "mend"]
        /\ UNCHANGED <<reply, wire>>
  /\ UNCHANGED <<closeVars, queue, batch, pusher, pending, req, err, crashed>>

\* one round of the MEND loop: WithError(err), Done
Mend(c) ==
  /\ pc[c] = "mend"
  /\ LET m == Head(batch[c])
     IN /\ err' = [err EXCEPT ![m] = IF failed[c] THEN "net" ELSE "nil"]
        /\ pending' = [pending EXCEPT ![m] = @ - 1]
  /\ batch' = [batch EXCEPT ![c] = Tail(@)]
  /\ pc' = [pc EXCEPT ![c] = IF Len(batch[c]) > 1 THEN "mend"
                              ELSE IF failed[c] THEN "renew" ELSE "wait"]
  /\ UNCHANGED <<closeVars, queue, idx, failed, wire, pusher, req, reply, crashed>>

\* the replies in flight on the connection after mp.newNc(); variant: the
\* broken connection is kept
KeptWire(c) == wire[c]

NewWire(c) == << >>

\* the non-blocking send on errCh, of capacity 1
Report == [errCh EXCEPT !.n = 1]

\* reNewNc: report the error without blocking, replace the connection
Renew(c) ==
  /\ pc[c] = "renew"
  /\ \/ /\ errCh.closed
        /\ crashed' = "errCh"
        /\ UNCHANGED <<errCh, pc, failed, wire>>
     \/ /\ ~errCh.closed
        /\ errCh' = Report
        /\ wire' = [wire EXCEPT ![c] = NewWire(c)]
        /\ failed' = [failed EXCEPT ![c] = FALSE]
        /\ pc' = [pc EXCEPT ![c] = "wait"]
        /\ UNCHANGED crashed
  /\ UNCHANGED <<state, closer, queue, batch, idx, msgVars>>

-----------------------------------------------------------------------------
(* Close and the reader of ErrorEvent.                                     *)

CloseErrCh ==
  /\ MayClose /\ closer = "idle"
  /\ closer' = "locking"
  /\ errCh' = [errCh EXCEPT !.closed = TRUE]
  /\ UNCHANGED <<state, pipeVars, msgVars, crashed>>

\* the section under ncp.l.Lock
CloseInputs ==
  /\ closer = "locking"
  /\ closer' = "done"
  /\ state' = "closed"
  /\ UNCHANGED <<errCh, pipeVars, msgVars, crashed>>

\* the cluster forwarder's pipeEvent receives an error
ErrorEvent ==
  /\ errCh.n > 0
  /\ errCh' = [errCh EXCEPT !.n = 0]
  /\ UNCHANGED <<state, closer, pipeVars, msgVars, crashed>>

-----------------------------------------------------------------------------
Pipe(c) ==
  \/ TakeAndWrite(c) \/ NothingToTake(c) \/ Exit(c)
  \/ Flush(c) \/ Read(c) \/ Mend(c) \/ Renew(c)

Pusher(m) == PushSend(m) \/ PushReject(m)

\* a panic ends the process: nothing moves after it
Next ==
  /\ crashed = "no"
  /\ \/ \E m \in Msgs, r \in Reqs : PushPick(m, r)
     \/ \E m \in Msgs : Pusher(m)
     \/ \E c \in Conns : Pipe(c)
     \/ CloseErrCh \/ CloseInputs \/ ErrorEvent

Spec == Init /\ [][Next]_vars

\* goroutines keep running; the node connection's deadlines bound every
\* Write, Flush and Read, so each returns with a result or an error
Fairness ==
  /\ \A c \in Conns : WF_vars(crashed = "no" /\ Pipe(c))
  /\ \A m \in Msgs : WF_vars(crashed = "no" /\ Pusher(m))
  /\ WF_vars(crashed = "no" /\ CloseInputs)

FairSpec == Spec /\ Fairness

-----------------------------------------------------------------------------
(* Properties.                                                             *)

InQueue(m, c) == \E i \in 1..Len(queue[c]) : queue[c][i] = m
InBatch(m, c) == \E i \in 1..Len(batch[c]) : batch[c][i] = m

\* No message is held twice: not in two channels, two batches, a channel and
\* a batch, nor by a running Push and a goroutine at once.  A message that
\* were would be marked done twice, and the WaitGroup would panic or release
\* its handler early (Push, the receives and the MEND loop of pipe.go).
HeldOnce ==
  /\ \A c, d \in Conns :
       /\ \A i \in 1..Len(queue[c]), j \in 1..Len(queue[d]) :
            queue[c][i] = queue[d][j] => c = d /\ i = j
       /\ \A i \in 1..Len(batch[c]), j \in 1..Len(batch[d]) :
            batch[c][i] = batch[d][j] => c = d /\ i = j
       /\ \A i \in 1..Len(queue[c]), j \in 1..Len(batch[d]) :
            queue[c][i] # batch[d][j]
  /\ \A c \in Conns :
       /\ \A i \in 1..Len(queue[c]) : pusher[queue[c][i]] = "idle"
       /\ \A i \in 1..Len(batch[c]) : pusher[batch[c][i]] = "idle"

\* The WaitGroup counts exactly the messages somebody still has to mark
\* done: a running Push, a channel or a batch.  The handler is released when
\* no goroutine can touch its messages any more, and not later, except for
\* what a goroutine that returned left in its batch.
DoneIsOwed ==
  \A m \in Msgs :
    /\ pending[m] \in 0..1
    /\ pending[m] = 1 <=> \/ pusher[m] # "idle"
                          \/ \E c \in Conns : InQueue(m, c) \/ InBatch(m, c)

\* A message done without an error holds the reply to the request it
\* carries, whatever batches, errors and replaced connections came before:
\* replies are matched by position only, so a connection left with unread
\* replies, or a batch in another order than the writes, would answer one
\* client with the data of another.
ReplyIsOwn ==
  \A m \in Msgs : pending[m] = 0 /\ err[m] = "nil" => reply[m] = req[m]

\* With Close, the messages that are never marked done are those in the batch
\* of a goroutine that found its channel closed before the flush.
DoneOrAbandoned ==
  \A m \in Msgs : pending[m] = 1 ~>
    \/ pending[m] = 0
    \/ crashed # "no"
    \/ \E c \in Conns : pc[c] = "exited" /\ InBatch(m, c)

\* Once Close is through and no Push that chose its channel earlier is still
\* under way, no Push can panic: later calls see the state under the lock.
SafeOnceDrained ==
  []((state = "closed" /\ \A m \in Msgs : pusher[m] # "send")
       => [](crashed # "input"))

-----------------------------------------------------------------------------
(* The pipe implements its promise.                                        *)

asked == {m \in Msgs : pending[m] # 0}

answer ==
  [m \in Msgs |-> IF pending[m] # 0 THEN None
                  ELSE IF err[m] = "nil" THEN reply[m] ELSE Error]

Promise == INSTANCE PipePromise WITH ask <- req

\* Every step of the pipe is a Push, a Done or nothing at all to the handlers,
\* also while the pipe is being closed.
KeepsPromise == Promise!Safe

=============================================================================
