------------------------- MODULE NodeConnPipeProofs -------------------------
(***************************************************************************)
(* The theorems about NodeConnPipe, for every number of messages, requests *)
(* and connections and every capacity: its invariants, and that it         *)
(* implements PipePromise.                                                 *)
(***************************************************************************)
EXTENDS NodeConnPipe, TLAPS

\* the connection owes the replies to batch[k], batch[k+1], ... in order
WireOwes(c, k) ==
  /\ Len(wire[c]) = Len(batch[c]) - k + 1
  /\ \A j \in 1..Len(wire[c]) : wire[c][j] = req[batch[c][k + j - 1]]

\* what a goroutine knows at each point of its loop
PipeInv(c) ==
  /\ pc[c] # "read" => idx[c] = 1
  /\ pc[c] \in {"recv", "flush"} => ~failed[c] /\ WireOwes(c, 1)
  /\ pc[c] = "flush" => batch[c] # << >>
  /\ pc[c] = "read" =>
       /\ ~failed[c]
       /\ idx[c] \in 1..Len(batch[c])
       /\ WireOwes(c, idx[c])
       /\ \A j \in 1..(idx[c] - 1) : reply[batch[c][j]] = req[batch[c][j]]
  /\ pc[c] = "mend" =>
       /\ batch[c] # << >>
       /\ ~failed[c] =>
            /\ wire[c] = << >>
            /\ \A j \in 1..Len(batch[c]) : reply[batch[c][j]] = req[batch[c][j]]
  /\ pc[c] = "renew" => batch[c] = << >> /\ failed[c]
  /\ pc[c] = "wait" => batch[c] = << >> /\ wire[c] = << >> /\ ~failed[c]

\* a message that is waited for carries a request
Carries == \A m \in Msgs : pending[m] = 1 => req[m] \in Reqs

IInv ==
  /\ TypeOK
  /\ HeldOnce
  /\ DoneIsOwed
  /\ ReplyIsOwn
  /\ Carries
  /\ \A c \in Conns : PipeInv(c)

-----------------------------------------------------------------------------
(* Facts about the sequences that stand for channels and batches.          *)

\* Receiving from a channel: the head is its first element, the rest keeps
\* its order.
LEMMA TakeFacts ==
  ASSUME NEW S, NEW s \in Seq(S), s # << >>
  PROVE  /\ Len(s) \in Nat /\ Len(s) > 0
         /\ Head(s) = s[1] /\ Head(s) \in S
         /\ Tail(s) \in Seq(S)
         /\ Len(Tail(s)) = Len(s) - 1
         /\ \A i \in 1..Len(Tail(s)) : Tail(s)[i] = s[i + 1]
OBVIOUS

\* Sending to a channel: the message becomes the last element.
LEMMA PutFacts ==
  ASSUME NEW S, NEW s \in Seq(S), NEW e \in S
  PROVE  /\ Append(s, e) \in Seq(S)
         /\ Len(Append(s, e)) = Len(s) + 1
         /\ Len(s) \in Nat
         /\ \A i \in 1..Len(s) : Append(s, e)[i] = s[i]
         /\ Append(s, e)[Len(s) + 1] = e
OBVIOUS

\* The elements of a sequence are in its set, and only the empty sequence
\* has length 0.
LEMMA ElementFacts ==
  ASSUME NEW S, NEW s \in Seq(S)
  PROVE  /\ Len(s) \in Nat
         /\ \A i \in 1..Len(s) : s[i] \in S
         /\ Len(s) = 0 <=> s = << >>
OBVIOUS

-----------------------------------------------------------------------------
(* The inductive invariant.                                                *)

\* The pipe starts empty: NewNodeConnPipe establishes the invariant.
LEMMA InitIInv == Init => IInv
<1> SUFFICES ASSUME Init PROVE IInv
  OBVIOUS
<1> USE PipeAssumption
<1>1. TypeOK
  BY DEF Init, TypeOK, PipePc
<1>2. HeldOnce /\ DoneIsOwed
  BY DEF Init, HeldOnce, DoneIsOwed, InQueue, InBatch
<1>3. ReplyIsOwn /\ Carries
  BY DEF Init, ReplyIsOwn, Carries
<1>4. \A c \in Conns : PipeInv(c)
  BY DEF Init, PipeInv, WireOwes
<1> QED
  BY <1>1, <1>2, <1>3, <1>4, Zenon DEF IInv

-----------------------------------------------------------------------------
(* One lemma per action: the action preserves the invariant.               *)

\* The sequences of the state hold messages and requests.
LEMMA Members ==
  ASSUME TypeOK, NEW c \in Conns
  PROVE  /\ queue[c] \in Seq(Msgs) /\ batch[c] \in Seq(Msgs) /\ wire[c] \in Seq(Reqs)
         /\ Len(queue[c]) \in Nat /\ Len(batch[c]) \in Nat /\ Len(wire[c]) \in Nat
         /\ \A i \in 1..Len(queue[c]) : queue[c][i] \in Msgs
         /\ \A i \in 1..Len(batch[c]) : batch[c][i] \in Msgs
         /\ \A i \in 1..Len(wire[c]) : wire[c][i] \in Reqs
<1>1. queue[c] \in Seq(Msgs) /\ batch[c] \in Seq(Msgs) /\ wire[c] \in Seq(Reqs)
  BY Zenon DEF TypeOK
<1> QED
  BY <1>1, ElementFacts, Zenon

\* A goroutine's part of the invariant survives what others do, as long as
\* they leave its loop, its connection and the messages of its batch alone.
LEMMA PipeInvFrame ==
  ASSUME TypeOK, NEW c \in Conns, PipeInv(c),
         pc'[c] = pc[c], batch'[c] = batch[c], idx'[c] = idx[c],
         failed'[c] = failed[c], wire'[c] = wire[c],
         \A i \in 1..Len(batch[c]) : /\ req'[batch[c][i]] = req[batch[c][i]]
                                    /\ reply'[batch[c][i]] = reply[batch[c][i]]
  PROVE  PipeInv(c)'
<1>1. idx[c] \in Nat /\ Len(batch[c]) \in Nat /\ Len(wire[c]) \in Nat
  BY Members, Zenon DEF TypeOK
<1>2. ASSUME NEW k \in Nat \ {0}, WireOwes(c, k)
      PROVE  /\ Len(wire'[c]) = Len(batch'[c]) - k + 1
             /\ \A j \in 1..Len(wire'[c]) : wire'[c][j] = req'[batch'[c][k + j - 1]]
  <2> SUFFICES ASSUME NEW j \in 1..Len(wire[c])
               PROVE  wire[c][j] = req'[batch[c][k + j - 1]]
    BY <1>2, Zenon DEF WireOwes
  <2>1. k + j - 1 \in 1..Len(batch[c])
    BY <1>1, <1>2 DEF WireOwes
  <2> QED
    BY <1>2, <2>1, Zenon DEF WireOwes
<1>3. pc[c] \in {"recv", "flush"} => WireOwes(c, 1)'
  BY <1>2 DEF PipeInv, WireOwes
<1>4. pc[c] = "read" => WireOwes(c, idx[c])'
  <2> SUFFICES ASSUME pc[c] = "read" PROVE WireOwes(c, idx[c])'
    OBVIOUS
  <2>1. idx[c] \in Nat \ {0} /\ WireOwes(c, idx[c])
    BY <1>1 DEF PipeInv
  <2> QED
    BY <1>2, <2>1, Zenon DEF WireOwes
<1>5. pc[c] = "read" => \A j \in 1..(idx[c] - 1) : reply'[batch[c][j]] = req'[batch[c][j]]
  BY <1>1 DEF PipeInv
<1> QED
  BY <1>1, <1>3, <1>4, <1>5 DEF PipeInv

\* A message that is not waited for is in no channel, no batch and no Push.
LEMMA FreeIsNowhere ==
  ASSUME TypeOK, DoneIsOwed, NEW m \in Msgs, pending[m] = 0
  PROVE  /\ pusher[m] = "idle"
         /\ \A c \in Conns : /\ \A i \in 1..Len(queue[c]) : queue[c][i] # m
                             /\ \A i \in 1..Len(batch[c]) : batch[c][i] # m
BY DEF TypeOK, DoneIsOwed, InQueue, InBatch

\* What Push does with one message leaves the held ones without a Push.
LEMMA OthersIdle ==
  ASSUME TypeOK, HeldOnce, NEW m \in Msgs,
         \A c \in Conns : /\ \A i \in 1..Len(queue[c]) : queue[c][i] # m
                          /\ \A i \in 1..Len(batch[c]) : batch[c][i] # m,
         \A n \in Msgs \ {m} : pusher'[n] = pusher[n],
         NEW c \in Conns
  PROVE  /\ \A i \in 1..Len(queue[c]) : pusher'[queue[c][i]] = "idle"
         /\ \A i \in 1..Len(batch[c]) : pusher'[batch[c][i]] = "idle"
<1>1. ASSUME NEW i \in 1..Len(queue[c]) PROVE pusher'[queue[c][i]] = "idle"
  <2>1. queue[c][i] \in Msgs \ {m}
    BY Members, Zenon
  <2>2. pusher[queue[c][i]] = "idle"
    BY Zenon DEF HeldOnce
  <2> QED
    BY <2>1, <2>2, Zenon
<1>2. ASSUME NEW i \in 1..Len(batch[c]) PROVE pusher'[batch[c][i]] = "idle"
  <2>1. batch[c][i] \in Msgs \ {m}
    BY Members, Zenon
  <2>2. pusher[batch[c][i]] = "idle"
    BY Zenon DEF HeldOnce
  <2> QED
    BY <2>1, <2>2, Zenon
<1> QED
  BY <1>1, <1>2, Zenon

\* What HeldOnce says of two goroutines.
LEMMA HeldApart ==
  ASSUME HeldOnce, NEW c \in Conns, NEW d \in Conns
  PROVE  /\ \A i \in 1..Len(queue[c]), j \in 1..Len(queue[d]) :
              queue[c][i] = queue[d][j] => c = d /\ i = j
         /\ \A i \in 1..Len(batch[c]), j \in 1..Len(batch[d]) :
              batch[c][i] = batch[d][j] => c = d /\ i = j
         /\ \A i \in 1..Len(queue[c]), j \in 1..Len(batch[d]) :
              queue[c][i] # batch[d][j]
BY Zenon DEF HeldOnce

\* HeldOnce depends on the channels, the batches and who is in a Push.
LEMMA HeldFrame ==
  ASSUME HeldOnce, queue' = queue, batch' = batch,
         \A c \in Conns : /\ \A i \in 1..Len(queue[c]) : pusher'[queue[c][i]] = "idle"
                          /\ \A i \in 1..Len(batch[c]) : pusher'[batch[c][i]] = "idle"
  PROVE  HeldOnce'
<1>1. ASSUME NEW c \in Conns, NEW d \in Conns
      PROVE  /\ \A i \in 1..Len(queue'[c]), j \in 1..Len(queue'[d]) :
                  queue'[c][i] = queue'[d][j] => c = d /\ i = j
             /\ \A i \in 1..Len(batch'[c]), j \in 1..Len(batch'[d]) :
                  batch'[c][i] = batch'[d][j] => c = d /\ i = j
             /\ \A i \in 1..Len(queue'[c]), j \in 1..Len(batch'[d]) :
                  queue'[c][i] # batch'[d][j]
  BY DEF HeldOnce
<1> QED
  BY <1>1, Zenon DEF HeldOnce

\* Push takes charge of a message nobody holds.
LEMMA PushPickIInv ==
  ASSUME IInv, NEW m \in Msgs, NEW r \in Reqs, PushPick(m, r)
  PROVE  IInv'
<1> USE PipeAssumption
<1>0. TypeOK /\ HeldOnce /\ DoneIsOwed /\ ReplyIsOwn /\ Carries
  BY Zenon DEF IInv
<1>a. /\ pusher[m] = "idle" /\ pending[m] = 0
      /\ \A c \in Conns : /\ \A i \in 1..Len(queue[c]) : queue[c][i] # m
                          /\ \A i \in 1..Len(batch[c]) : batch[c][i] # m
  BY <1>0, FreeIsNowhere, Zenon DEF PushPick
<1>1. TypeOK'
  BY <1>0 DEF TypeOK, PushPick, Picked, closeVars, pipeVars
<1>2. HeldOnce'
  <2>1. queue' = queue /\ batch' = batch
    BY Zenon DEF PushPick, pipeVars
  <2>2. ASSUME NEW c \in Conns
        PROVE  /\ \A i \in 1..Len(queue[c]) : pusher'[queue[c][i]] = "idle"
               /\ \A i \in 1..Len(batch[c]) : pusher'[batch[c][i]] = "idle"
    <3>1. \A n \in Msgs \ {m} : pusher'[n] = pusher[n]
      BY <1>0, Zenon DEF TypeOK, PushPick
    <3> QED
      BY <1>0, <1>a, <3>1, OthersIdle, Zenon
  <2> QED
    BY <1>0, <2>1, <2>2, HeldFrame, Zenon
<1>3. DoneIsOwed'
  <2> SUFFICES ASSUME NEW n \in Msgs
               PROVE  /\ pending'[n] \in 0..1
                      /\ pending'[n] = 1 <=> \/ pusher'[n] # "idle"
                                             \/ \E c \in Conns : InQueue(n, c) \/ InBatch(n, c)
    BY DEF DoneIsOwed, InQueue, InBatch, PushPick, pipeVars
  <2> QED
    BY <1>0, <1>a DEF TypeOK, DoneIsOwed, PushPick, Picked
<1>4. ReplyIsOwn' /\ Carries'
  BY <1>0, <1>a DEF TypeOK, ReplyIsOwn, Carries, PushPick
<1>5. ASSUME NEW c \in Conns PROVE PipeInv(c)'
  <2>1. /\ queue' = queue /\ pc' = pc /\ batch' = batch /\ idx' = idx
        /\ failed' = failed /\ wire' = wire
    BY Zenon DEF PushPick, pipeVars
  <2>2. \A i \in 1..Len(batch[c]) : /\ req'[batch[c][i]] = req[batch[c][i]]
                                   /\ reply'[batch[c][i]] = reply[batch[c][i]]
    <3>1. \A n \in Msgs \ {m} : req'[n] = req[n] /\ reply'[n] = reply[n]
      BY <1>0, Zenon DEF TypeOK, PushPick
    <3>2. \A i \in 1..Len(batch[c]) : batch[c][i] \in Msgs \ {m}
      BY <1>0, <1>a, Members, Zenon
    <3> QED
      BY <3>1, <3>2, Zenon
  <2> QED
    BY <1>0, <2>1, <2>2, PipeInvFrame, Zenon DEF IInv
<1> QED
  BY <1>1, <1>2, <1>3, <1>4, <1>5, Zenon DEF IInv

\* Steps that move no message and complete none keep the message part.
LEMMA MsgFrame ==
  ASSUME IInv, UNCHANGED <<queue, batch, pusher, pending, req, reply, err>>
  PROVE  HeldOnce' /\ DoneIsOwed' /\ ReplyIsOwn' /\ Carries'
BY DEF IInv, HeldOnce, DoneIsOwed, InQueue, InBatch, ReplyIsOwn, Carries

\* Close and ErrorEvent touch neither messages nor goroutines.
LEMMA CloseIInv ==
  ASSUME IInv, CloseErrCh \/ CloseInputs \/ ErrorEvent
  PROVE  IInv'
<1>0. TypeOK
  BY Zenon DEF IInv
<1>1. UNCHANGED <<pipeVars, msgVars, crashed>>
  BY Zenon DEF CloseErrCh, CloseInputs, ErrorEvent
<1>2. TypeOK'
  <2>1. errCh' \in [n : 0..1, closed : BOOLEAN]
    <3>1. CASE CloseErrCh
      <4>1. errCh \in [n : 0..1, closed : BOOLEAN] /\ errCh' = [errCh EXCEPT !.closed = TRUE]
        BY <1>0, <3>1, Zenon DEF TypeOK, CloseErrCh
      <4> QED
        BY <4>1, Zenon
    <3>2. CASE CloseInputs
      BY <1>0, <3>2, Zenon DEF TypeOK, CloseInputs
    <3>3. CASE ErrorEvent
      <4>1. errCh \in [n : 0..1, closed : BOOLEAN] /\ errCh' = [errCh EXCEPT !.n = 0]
        BY <1>0, <3>3, Zenon DEF TypeOK, ErrorEvent
      <4> QED
        BY <4>1
    <3> QED
      BY <3>1, <3>2, <3>3, Zenon
  <2>2. state' \in {"opened", "closed"} /\ closer' \in {"idle", "locking", "done"}
    BY <1>0, Zenon DEF TypeOK, CloseErrCh, CloseInputs, ErrorEvent
  <2> QED
    BY <1>0, <1>1, <2>1, <2>2, Zenon DEF TypeOK, pipeVars, msgVars
<1>3. HeldOnce' /\ DoneIsOwed' /\ ReplyIsOwn' /\ Carries'
  BY <1>1, MsgFrame, Zenon DEF pipeVars, msgVars
<1>4. ASSUME NEW c \in Conns PROVE PipeInv(c)'
  BY <1>0, <1>1, PipeInvFrame, Zenon DEF IInv, pipeVars, msgVars
<1> QED
  BY <1>2, <1>3, <1>4, Zenon DEF IInv

\* Push hands the message to the channel, or gives up on it.
LEMMA PushSendIInv ==
  ASSUME IInv, NEW m \in Msgs, PushSend(m)
  PROVE  IInv'
<1> USE PipeAssumption
<1>0. TypeOK /\ HeldOnce /\ DoneIsOwed /\ ReplyIsOwn /\ Carries
  BY Zenon DEF IInv
<1>1. pusher[m] = "send" /\ pending[m] = 1
  BY <1>0, Zenon DEF PushSend, DoneIsOwed
<1>2. UNCHANGED <<closeVars, pc, batch, idx, failed, wire, pending, req, reply, err>>
  BY Zenon DEF PushSend
<1>3. \A c \in Conns : PipeInv(c)'
  BY <1>0, <1>2, PipeInvFrame, Zenon DEF IInv
<1>4. ReplyIsOwn' /\ Carries'
  BY <1>0, <1>2, Zenon DEF ReplyIsOwn, Carries
<1>5. ConnOf[req[m]] \in Conns
  BY <1>0, <1>1, Zenon DEF Carries
<1>6. CASE UNCHANGED <<queue, pusher>> /\ crashed' = "input"
  <2>1. TypeOK'
    BY <1>0, <1>2, <1>6, Zenon DEF TypeOK, closeVars
  <2>2. HeldOnce' /\ DoneIsOwed'
    BY <1>2, <1>6, MsgFrame, Zenon
  <2> QED
    BY <1>3, <1>4, <2>1, <2>2, Zenon DEF IInv
<1>7. CASE /\ pusher' = [pusher EXCEPT ![m] = "reject"]
           /\ UNCHANGED <<queue, crashed>>
  <2>1. TypeOK'
    <3>1. pusher' \in [Msgs -> {"idle", "send", "reject"}]
      BY <1>0, <1>7, Zenon DEF TypeOK
    <3> QED
      BY <1>0, <1>2, <1>7, <3>1, Zenon DEF TypeOK, closeVars
  <2>2. \A n \in Msgs : pusher'[n] = "idle" <=> pusher[n] = "idle"
    BY <1>0, <1>1, <1>7, Zenon DEF TypeOK
  <2>3. HeldOnce'
    BY <1>0, <1>2, <1>7, <2>2, Members DEF HeldOnce
  <2>4. DoneIsOwed'
    BY <1>0, <1>2, <1>7, <2>2 DEF DoneIsOwed, InQueue, InBatch
  <2> QED
    BY <1>3, <1>4, <2>1, <2>3, <2>4, Zenon DEF IInv
<1>8. CASE /\ queue' = [queue EXCEPT ![ConnOf[req[m]]] = Append(@, m)]
           /\ pusher' = [pusher EXCEPT ![m] = "idle"]
           /\ UNCHANGED crashed
  <2>0. PICK q \in Conns : q = ConnOf[req[m]]
    BY <1>5, Zenon
  <2>1. queue' = [queue EXCEPT ![q] = Append(queue[q], m)]
    BY <1>8, <2>0, Zenon
  <2>2. \A c \in Conns : c # q => queue'[c] = queue[c]
    BY <1>0, <2>1, Zenon DEF TypeOK
  <2>3. /\ queue'[q] \in Seq(Msgs)
        /\ Len(queue'[q]) = Len(queue[q]) + 1
        /\ Len(queue[q]) \in Nat
        /\ \A i \in 1..Len(queue[q]) : queue'[q][i] = queue[q][i]
        /\ queue'[q][Len(queue[q]) + 1] = m
    BY <1>0, <2>1, PutFacts, Members DEF TypeOK
  <2>4. TypeOK'
    <3>1. queue' \in [Conns -> Seq(Msgs)] /\ pusher' \in [Msgs -> {"idle", "send", "reject"}]
      <4>1. queue \in [Conns -> Seq(Msgs)] /\ pusher \in [Msgs -> {"idle", "send", "reject"}]
        BY <1>0, Zenon DEF TypeOK
      <4>2. Append(queue[q], m) \in Seq(Msgs)
        BY <4>1, PutFacts
      <4>3. queue' \in [Conns -> Seq(Msgs)]
        BY <2>1, <4>1, <4>2, Zenon
      <4>4. pusher' \in [Msgs -> {"idle", "send", "reject"}]
        BY <1>8, <4>1, Zenon
      <4> QED
        BY <4>3, <4>4, Zenon
    <3> QED
      BY <1>0, <1>2, <1>8, <3>1, Zenon DEF TypeOK, closeVars
  <2>5. \A c \in Conns : /\ \A i \in 1..Len(queue[c]) : queue[c][i] # m
                         /\ \A i \in 1..Len(batch[c]) : batch[c][i] # m
    BY <1>0, <1>1 DEF HeldOnce
  <2>p. pusher'[m] = "idle" /\ \A n \in Msgs \ {m} : pusher'[n] = pusher[n]
    <3>1. pusher \in [Msgs -> {"idle", "send", "reject"}]
      BY <1>0, Zenon DEF TypeOK
    <3> QED
      BY <1>8, <3>1, Zenon
  <2>6. HeldOnce'
    <3>0. ASSUME NEW c \in Conns, NEW i \in 1..Len(queue'[c])
          PROVE  \/ i \in 1..Len(queue[c]) /\ queue'[c][i] = queue[c][i]
                 \/ c = q /\ i = Len(queue[q]) + 1 /\ queue'[c][i] = m
      <4>1. CASE c = q
        BY <2>3, <4>1
      <4>2. CASE c # q
        BY <2>2, <4>2, Zenon
      <4> QED
        BY <4>1, <4>2, Zenon
    <3>1. ASSUME NEW c \in Conns, NEW d \in Conns,
                 NEW i \in 1..Len(queue'[c]), NEW j \in 1..Len(queue'[d]),
                 queue'[c][i] = queue'[d][j]
          PROVE  c = d /\ i = j
      <4>1. \/ i \in 1..Len(queue[c]) /\ queue'[c][i] = queue[c][i]
            \/ c = q /\ i = Len(queue[q]) + 1 /\ queue'[c][i] = m
        BY <3>0, Zenon
      <4>2. \/ j \in 1..Len(queue[d]) /\ queue'[d][j] = queue[d][j]
            \/ d = q /\ j = Len(queue[q]) + 1 /\ queue'[d][j] = m
        BY <3>0, Zenon
      <4> QED
        BY <1>0, <2>5, <3>1, <4>1, <4>2 DEF HeldOnce
    <3>2. ASSUME NEW c \in Conns, NEW d \in Conns,
                 NEW i \in 1..Len(queue'[c]), NEW j \in 1..Len(batch[d])
          PROVE  queue'[c][i] # batch[d][j]
      BY <1>0, <2>5, <3>0 DEF HeldOnce
    <3>3. ASSUME NEW c \in Conns, NEW i \in 1..Len(queue'[c])
          PROVE  pusher'[queue'[c][i]] = "idle"
      <4>1. CASE i \in 1..Len(queue[c]) /\ queue'[c][i] = queue[c][i]
        BY <1>0, <2>p, <2>5, <4>1, OthersIdle
      <4>2. CASE queue'[c][i] = m
        BY <2>p, <4>2, Zenon
      <4> QED
        BY <3>0, <4>1, <4>2, Zenon
    <3>4. \A c \in Conns : \A i \in 1..Len(batch[c]) : pusher'[batch[c][i]] = "idle"
      BY <1>0, <2>p, <2>5, OthersIdle, Zenon
    <3> QED
      BY <1>0, <1>2, <3>1, <3>2, <3>3, <3>4 DEF HeldOnce
  <2>7. DoneIsOwed'
    <3> SUFFICES ASSUME NEW n \in Msgs
                 PROVE  (\/ pusher[n] # "idle"
                         \/ \E c \in Conns : InQueue(n, c) \/ InBatch(n, c))
                        <=> (\/ pusher'[n] # "idle"
                             \/ \E c \in Conns : InQueue(n, c)' \/ InBatch(n, c)')
      BY <1>0, <1>2, Zenon DEF DoneIsOwed
    <3>1. CASE n = m
      <4>1. InQueue(m, q)'
        BY <2>3 DEF InQueue
      <4> QED
        BY <1>1, <3>1, <4>1, Zenon
    <3>2. CASE n # m
      <4>1. pusher'[n] = pusher[n]
        BY <2>p, <3>2, Zenon
      <4>2. ASSUME NEW c \in Conns PROVE InQueue(n, c)' <=> InQueue(n, c)
        <5>1. CASE c = q
          <6>1. ASSUME NEW i \in 1..Len(queue[q]), queue[q][i] = n
                PROVE  i \in 1..Len(queue'[q]) /\ queue'[q][i] = n
            BY <2>3, <6>1
          <6>2. ASSUME NEW i \in 1..Len(queue'[q]), queue'[q][i] = n
                PROVE  i \in 1..Len(queue[q]) /\ queue[q][i] = n
            BY <2>3, <3>2, <6>2
          <6> QED
            BY <5>1, <6>1, <6>2, Zenon DEF InQueue
        <5>2. CASE c # q
          BY <2>2, <5>2, Zenon DEF InQueue
        <5> QED
          BY <5>1, <5>2, Zenon
      <4>3. \A c \in Conns : InBatch(n, c)' <=> InBatch(n, c)
        BY <1>2, Zenon DEF InBatch
      <4> QED
        BY <4>1, <4>2, <4>3, Zenon
    <3> QED
      BY <3>1, <3>2, Zenon
  <2> QED
    BY <1>3, <1>4, <2>4, <2>6, <2>7, Zenon DEF IInv
<1> QED
  BY <1>6, <1>7, <1>8, Zenon DEF PushSend, Sent

\* A rejected message is done with an error.
LEMMA PushRejectIInv ==
  ASSUME IInv, NEW m \in Msgs, PushReject(m)
  PROVE  IInv'
<1> USE PipeAssumption
<1>0. TypeOK /\ HeldOnce /\ DoneIsOwed /\ ReplyIsOwn /\ Carries
  BY Zenon DEF IInv
<1>1. pusher[m] = "reject" /\ pending[m] = 1
  BY <1>0, Zenon DEF PushReject, DoneIsOwed
<1>2. UNCHANGED <<pipeVars, req, reply>>
  BY Zenon DEF PushReject
<1>3. /\ pusher'[m] = "idle" /\ pending'[m] = 0 /\ err'[m] = "full"
      /\ \A n \in Msgs \ {m} : /\ pusher'[n] = pusher[n] /\ pending'[n] = pending[n]
                               /\ err'[n] = err[n]
  BY <1>0, <1>1 DEF TypeOK, PushReject
<1>4. TypeOK'
  BY <1>0 DEF TypeOK, PushReject, closeVars, pipeVars
<1>5. \A c \in Conns : /\ \A i \in 1..Len(queue[c]) : queue[c][i] # m
                       /\ \A i \in 1..Len(batch[c]) : batch[c][i] # m
  BY <1>0, <1>1 DEF HeldOnce
<1>6. HeldOnce'
  <2>1. ASSUME NEW c \in Conns
        PROVE  /\ \A i \in 1..Len(queue[c]) : pusher'[queue[c][i]] = "idle"
               /\ \A i \in 1..Len(batch[c]) : pusher'[batch[c][i]] = "idle"
    BY <1>0, <1>3, <1>5, OthersIdle
  <2> QED
    BY <1>0, <1>2, <2>1, HeldFrame, Zenon DEF pipeVars
<1>7. DoneIsOwed'
  BY <1>0, <1>2, <1>3, <1>5 DEF DoneIsOwed, InQueue, InBatch, pipeVars
<1>8. ReplyIsOwn' /\ Carries'
  BY <1>0, <1>2, <1>3 DEF ReplyIsOwn, Carries
<1>9. \A c \in Conns : PipeInv(c)'
  BY <1>0, <1>2, PipeInvFrame, Zenon DEF IInv, pipeVars
<1> QED
  BY <1>4, <1>6, <1>7, <1>8, <1>9, Zenon DEF IInv

\* The steps of a goroutine that move no message: it finds nothing to take,
\* returns, flushes, or replaces its connection.
LEMMA QuietPipeIInv ==
  ASSUME IInv, NEW c \in Conns,
         NothingToTake(c) \/ Exit(c) \/ Flush(c) \/ Renew(c)
  PROVE  IInv'
<1>0. TypeOK /\ PipeInv(c)
  BY Zenon DEF IInv
<1>1. UNCHANGED <<queue, batch, pusher, pending, req, reply, err, idx, state, closer>>
  BY Zenon DEF NothingToTake, Exit, Flush, Renew, closeVars, msgVars
<1>2. HeldOnce' /\ DoneIsOwed' /\ ReplyIsOwn' /\ Carries'
  BY <1>1, MsgFrame, Zenon
<1>3. /\ pc' \in [Conns -> PipePc] /\ failed' \in [Conns -> BOOLEAN]
      /\ wire' \in [Conns -> Seq(Reqs)]
      /\ \A d \in Conns \ {c} : pc'[d] = pc[d] /\ failed'[d] = failed[d] /\ wire'[d] = wire[d]
  <2>0. << >> \in Seq(Reqs)
    OBVIOUS
  <2>t. pc \in [Conns -> PipePc] /\ failed \in [Conns -> BOOLEAN] /\ wire \in [Conns -> Seq(Reqs)]
    BY <1>0, Zenon DEF TypeOK
  <2>1. CASE NothingToTake(c)
    BY <2>t, <2>1, Zenon DEF NothingToTake, AfterEmpty, PipePc
  <2>2. CASE Exit(c)
    BY <2>t, <2>2, Zenon DEF Exit, PipePc
  <2>p. "read" \in PipePc /\ "mend" \in PipePc /\ "wait" \in PipePc
    BY Zenon DEF PipePc
  <2>3. CASE Flush(c)
    BY <2>t, <2>p, <2>3, Zenon DEF Flush
  <2>4. CASE Renew(c)
    <3>1. \/ pc' = pc /\ failed' = failed /\ wire' = wire
          \/ /\ pc' = [pc EXCEPT ![c] = "wait"] /\ wire' = [wire EXCEPT ![c] = << >>]
             /\ failed' = [failed EXCEPT ![c] = FALSE]
      BY <2>4, Zenon DEF Renew, NewWire
    <3> QED
      BY <2>0, <2>t, <2>p, <3>1, Zenon
  <2> QED
    BY <2>1, <2>2, <2>3, <2>4, Zenon
<1>4. TypeOK'
  <2>1. errCh' \in [n : 0..1, closed : BOOLEAN] /\ crashed' \in {"no", "input", "errCh"}
    <3>1. errCh \in [n : 0..1, closed : BOOLEAN] /\ crashed \in {"no", "input", "errCh"}
      BY <1>0, Zenon DEF TypeOK
    <3>2. \/ errCh' = errCh /\ crashed' = crashed
          \/ errCh' = errCh /\ crashed' = "errCh"
          \/ errCh' = [errCh EXCEPT !.n = 1] /\ crashed' = crashed
      <4>1. CASE Renew(c)
        BY <4>1, Zenon DEF Renew, Report
      <4>2. CASE NothingToTake(c) \/ Exit(c) \/ Flush(c)
        BY <4>2, Zenon DEF NothingToTake, Exit, Flush, closeVars
      <4> QED
        BY <4>1, <4>2, Zenon
    <3> QED
      BY <3>1, <3>2
  <2> QED
    BY <1>0, <1>1, <1>3, <2>1, Zenon DEF TypeOK
<1>5. PipeInv(c)'
  <2>0. /\ pc[c] \in PipePc /\ Len(batch[c]) \in Nat /\ Len(wire[c]) \in Nat
        /\ Len(batch[c]) = 0 <=> batch[c] = << >>
        /\ Len(wire[c]) = 0 <=> wire[c] = << >>
    BY <1>0, Members, ElementFacts, Zenon DEF TypeOK
  <2>t. pc \in [Conns -> PipePc] /\ failed \in [Conns -> BOOLEAN] /\ wire \in [Conns -> Seq(Reqs)]
    BY <1>0, Zenon DEF TypeOK
  <2>1. CASE NothingToTake(c)
    <3>1. /\ pc[c] = "recv" /\ wire' = wire /\ failed' = failed
          /\ pc'[c] = IF batch[c] = << >> THEN "wait" ELSE "flush"
      BY <2>t, <2>1, Zenon DEF NothingToTake, AfterEmpty
    <3> QED
      BY <1>0, <1>1, <2>0, <3>1 DEF PipeInv, WireOwes
  <2>2. CASE Exit(c)
    <3>1. /\ pc[c] \in {"recv", "wait"} /\ pc'[c] = "exited"
          /\ failed' = failed /\ wire' = wire
      BY <2>t, <2>2, Zenon DEF Exit, ReceivesClosed
    <3> QED
      BY <1>0, <1>1, <3>1, Zenon DEF PipeInv
  <2>3. CASE Flush(c)
    <3>1. pc[c] = "flush" /\ wire' = wire
      BY <2>3, Zenon DEF Flush
    <3>2. \/ pc'[c] = "read" /\ failed' = failed
          \/ pc'[c] = "mend" /\ failed'[c] = TRUE
      BY <2>t, <2>3, Zenon DEF Flush
    <3>3. ~failed[c] /\ batch[c] # << >> /\ idx[c] = 1 /\ WireOwes(c, 1) /\ WireOwes(c, 1)'
      BY <1>0, <1>1, <3>1, Zenon DEF PipeInv, WireOwes
    <3>4. CASE pc'[c] = "read" /\ failed' = failed
      <4>1. idx'[c] = 1 /\ batch' = batch /\ ~failed'[c]
        BY <1>1, <3>3, <3>4, Zenon
      <4>2. idx'[c] \in 1..Len(batch'[c]) /\ 1..(idx'[c] - 1) = {}
        BY <2>0, <3>3, <4>1
      <4> QED
        BY <3>3, <3>4, <4>1, <4>2, Zenon DEF PipeInv, WireOwes
    <3>5. CASE pc'[c] = "mend" /\ failed'[c] = TRUE
      BY <1>1, <3>3, <3>5, Zenon DEF PipeInv
    <3> QED
      BY <3>2, <3>4, <3>5, Zenon
  <2>4. CASE Renew(c)
    <3>1. CASE UNCHANGED <<pc, failed, wire>>
      BY <1>0, <1>1, <3>1, PipeInvFrame, Zenon
    <3>2. CASE /\ wire' = [wire EXCEPT ![c] = << >>]
               /\ failed' = [failed EXCEPT ![c] = FALSE]
               /\ pc' = [pc EXCEPT ![c] = "wait"]
      <4>1. pc[c] = "renew" /\ pc'[c] = "wait" /\ wire'[c] = << >> /\ failed'[c] = FALSE
        BY <2>t, <2>4, <3>2, Zenon DEF Renew
      <4> QED
        BY <1>0, <1>1, <4>1, Zenon DEF PipeInv
    <3> QED
      BY <2>4, <3>1, <3>2, Zenon DEF Renew, NewWire
  <2> QED
    BY <2>1, <2>2, <2>3, <2>4, Zenon
<1>6. ASSUME NEW d \in Conns, d # c PROVE PipeInv(d)'
  BY <1>0, <1>1, <1>3, <1>6, PipeInvFrame, Zenon DEF IInv
<1> QED
  BY <1>2, <1>4, <1>5, <1>6, Zenon DEF IInv

-----------------------------------------------------------------------------
(* The steps of a goroutine that move, answer or complete messages.        *)


\* The goroutine moves a message from its channel to its batch and writes it.
LEMMA TakeAndWriteIInv ==
  ASSUME IInv, NEW c \in Conns, TakeAndWrite(c)
  PROVE  IInv'
<1> USE PipeAssumption
<1>0. TypeOK /\ HeldOnce /\ DoneIsOwed /\ ReplyIsOwn /\ Carries /\ PipeInv(c)
  BY Zenon DEF IInv
<1>1. /\ pc[c] \in {"recv", "wait"} /\ queue[c] # << >>
      /\ queue' = [queue EXCEPT ![c] = Tail(queue[c])]
      /\ batch' = [batch EXCEPT ![c] = Append(batch[c], Head(queue[c]))]
      /\ UNCHANGED <<closeVars, idx, msgVars, crashed>>
  BY Zenon DEF TakeAndWrite
<1>2. PICK m \in Msgs : m = Head(queue[c])
  BY <1>0, <1>1, TakeFacts, Members, Zenon
<1>3. /\ queue[c][1] = m /\ Len(queue[c]) \in Nat /\ Len(queue[c]) > 0
      /\ queue'[c] \in Seq(Msgs) /\ Len(queue'[c]) = Len(queue[c]) - 1
      /\ \A i \in 1..Len(queue'[c]) : queue'[c][i] = queue[c][i + 1]
      /\ \A d \in Conns \ {c} : queue'[d] = queue[d]
  <2>1. queue'[c] = Tail(queue[c]) /\ \A d \in Conns \ {c} : queue'[d] = queue[d]
    BY <1>0, <1>1, Zenon DEF TypeOK
  <2>2. queue[c] \in Seq(Msgs) /\ queue[c] # << >>
    BY <1>0, <1>1, Members, Zenon
  <2> QED
    BY <1>2, <2>1, <2>2, TakeFacts
<1>4. /\ batch'[c] \in Seq(Msgs) /\ Len(batch[c]) \in Nat
      /\ Len(batch'[c]) = Len(batch[c]) + 1
      /\ \A i \in 1..Len(batch[c]) : batch'[c][i] = batch[c][i]
      /\ batch'[c][Len(batch[c]) + 1] = m
      /\ \A d \in Conns \ {c} : batch'[d] = batch[d]
  <2>1. batch'[c] = Append(batch[c], m) /\ \A d \in Conns \ {c} : batch'[d] = batch[d]
    BY <1>0, <1>1, <1>2, Zenon DEF TypeOK
  <2> QED
    BY <1>0, <2>1, PutFacts, Members
<1>5. /\ pusher[m] = "idle" /\ pending[m] = 1 /\ req[m] \in Reqs
      /\ \A d \in Conns : \A i \in 1..Len(batch[d]) : batch[d][i] # m
  <2>1. 1 \in 1..Len(queue[c])
    BY <1>3
  <2>2. pending[m] = 1
    BY <1>0, <1>3, <2>1, Zenon DEF DoneIsOwed, InQueue
  <2>3. pusher[m] = "idle" /\ \A d \in Conns : \A i \in 1..Len(batch[d]) : batch[d][i] # m
    BY <1>0, <1>3, <2>1 DEF HeldOnce
  <2> QED
    BY <1>0, <2>2, <2>3, Zenon DEF Carries
<1>6. /\ \A d \in Conns \ {c} : pc'[d] = pc[d] /\ failed'[d] = failed[d] /\ wire'[d] = wire[d]
      /\ \/ /\ wire'[c] = Append(wire[c], req[m]) /\ failed' = failed
            /\ pc'[c] \in {"flush", "recv"}
         \/ wire' = wire /\ failed'[c] = TRUE /\ pc'[c] = "mend"
      /\ pc' \in [Conns -> PipePc] /\ failed' \in [Conns -> BOOLEAN]
      /\ wire' \in [Conns -> Seq(Reqs)]
  <2>1. pc \in [Conns -> PipePc] /\ failed \in [Conns -> BOOLEAN] /\ wire \in [Conns -> Seq(Reqs)]
    BY <1>0, Zenon DEF TypeOK
  <2>2. Append(wire[c], req[m]) \in Seq(Reqs)
    BY <2>1, <1>5, PutFacts, Zenon
  <2>3. CASE /\ wire' = [wire EXCEPT ![c] = Append(wire[c], req[m])] /\ failed' = failed
             /\ pc' = [pc EXCEPT ![c] = IF Len(Append(batch[c], m)) >= BatchMax
                                          THEN "flush" ELSE "recv"]
    BY <2>1, <2>2, <2>3, Zenon DEF PipePc
  <2>4. CASE /\ failed' = [failed EXCEPT ![c] = TRUE] /\ wire' = wire
             /\ pc' = [pc EXCEPT ![c] = "mend"]
    BY <2>1, <2>4, Zenon DEF PipePc
  <2> QED
    BY <1>2, <2>3, <2>4, Zenon DEF TakeAndWrite
<1>7. TypeOK'
  <2>1. queue' \in [Conns -> Seq(Msgs)] /\ batch' \in [Conns -> Seq(Msgs)]
    BY <1>0, <1>1, <1>3, <1>4, Zenon DEF TypeOK
  <2> QED
    BY <1>0, <1>1, <1>6, <2>1, Zenon DEF TypeOK, closeVars, msgVars
<1>8. ASSUME NEW d \in Conns, NEW i \in 1..Len(queue'[d])
      PROVE  \E k \in 1..Len(queue[d]) : /\ queue'[d][i] = queue[d][k]
                                         /\ k = IF d = c THEN i + 1 ELSE i
  <2>1. CASE d = c
    <3>1. i + 1 \in 1..Len(queue[c]) /\ queue'[c][i] = queue[c][i + 1]
      BY <1>3, <2>1
    <3> QED
      BY <2>1, <3>1, Zenon
  <2>2. CASE d # c
    BY <1>3, <2>2, Zenon
  <2> QED
    BY <2>1, <2>2, Zenon
<1>9. ASSUME NEW d \in Conns, NEW i \in 1..Len(batch'[d])
      PROVE  \/ i \in 1..Len(batch[d]) /\ batch'[d][i] = batch[d][i]
             \/ d = c /\ i = Len(batch[c]) + 1 /\ batch'[d][i] = m
  <2>1. CASE d = c
    BY <1>4, <2>1
  <2>2. CASE d # c
    BY <1>4, <2>2, Zenon
  <2> QED
    BY <2>1, <2>2, Zenon
<1>10. HeldOnce'
  <2>1. ASSUME NEW d \in Conns, NEW e \in Conns,
               NEW i \in 1..Len(queue'[d]), NEW j \in 1..Len(queue'[e]),
               queue'[d][i] = queue'[e][j]
        PROVE  d = e /\ i = j
    <3>1. PICK k \in 1..Len(queue[d]) : /\ queue'[d][i] = queue[d][k]
                                        /\ k = IF d = c THEN i + 1 ELSE i
      BY <1>8, Zenon
    <3>2. PICK l \in 1..Len(queue[e]) : /\ queue'[e][j] = queue[e][l]
                                        /\ l = IF e = c THEN j + 1 ELSE j
      BY <1>8, Zenon
    <3>3. queue[d][k] = queue[e][l]
      BY <2>1, <3>1, <3>2, Zenon
    <3>4. d = e /\ k = l
      BY <1>0, <3>3 DEF HeldOnce
    <3> QED
      BY <3>1, <3>2, <3>4
  <2>2. ASSUME NEW d \in Conns, NEW e \in Conns,
               NEW i \in 1..Len(batch'[d]), NEW j \in 1..Len(batch'[e]),
               batch'[d][i] = batch'[e][j]
        PROVE  d = e /\ i = j
    <3>1. \/ i \in 1..Len(batch[d]) /\ batch'[d][i] = batch[d][i]
          \/ d = c /\ i = Len(batch[c]) + 1 /\ batch'[d][i] = m
      BY <1>9, Zenon
    <3>2. \/ j \in 1..Len(batch[e]) /\ batch'[e][j] = batch[e][j]
          \/ e = c /\ j = Len(batch[c]) + 1 /\ batch'[e][j] = m
      BY <1>9, Zenon
    <3> QED
      BY <1>0, <1>5, <2>2, <3>1, <3>2 DEF HeldOnce
  <2>3. ASSUME NEW d \in Conns, NEW e \in Conns,
               NEW i \in 1..Len(queue'[d]), NEW j \in 1..Len(batch'[e])
        PROVE  queue'[d][i] # batch'[e][j]
    <3>1. PICK k \in 1..Len(queue[d]) : /\ queue'[d][i] = queue[d][k]
                                        /\ k = IF d = c THEN i + 1 ELSE i
      BY <1>8, Zenon
    <3>2. queue[d][k] # m
      <4>1. 1 \in 1..Len(queue[c]) /\ queue[c][1] = m
        BY <1>3
      <4>2. d = c => k # 1
        BY <3>1
      <4> QED
        BY <1>0, <4>1, <4>2 DEF HeldOnce
    <3> QED
      BY <1>0, <1>9, <3>1, <3>2 DEF HeldOnce
  <2>4. ASSUME NEW d \in Conns, NEW i \in 1..Len(queue'[d])
        PROVE  pusher[queue'[d][i]] = "idle"
    <3>1. PICK k \in 1..Len(queue[d]) : queue'[d][i] = queue[d][k]
      BY <1>8, Zenon
    <3> QED
      BY <1>0, <3>1 DEF HeldOnce
  <2>5. ASSUME NEW d \in Conns, NEW i \in 1..Len(batch'[d])
        PROVE  pusher[batch'[d][i]] = "idle"
    BY <1>0, <1>5, <1>9 DEF HeldOnce
  <2> QED
    <3>1. pusher' = pusher
      BY <1>1, Zenon DEF msgVars
    <3> QED
      BY <2>1, <2>2, <2>3, <2>4, <2>5, <3>1 DEF HeldOnce
<1>11. DoneIsOwed'
  <2> SUFFICES ASSUME NEW n \in Msgs
               PROVE  (\E d \in Conns : InQueue(n, d) \/ InBatch(n, d))
                      <=> (\E d \in Conns : InQueue(n, d)' \/ InBatch(n, d)')
    BY <1>0, <1>1, Zenon DEF DoneIsOwed, msgVars
  <2>1. CASE n = m
    <3>1. InQueue(m, c) /\ InBatch(m, c)'
      <4>1. 1 \in 1..Len(queue[c]) /\ queue[c][1] = m
        BY <1>3
      <4>2. Len(batch[c]) + 1 \in 1..Len(batch'[c]) /\ batch'[c][Len(batch[c]) + 1] = m
        BY <1>4
      <4> QED
        BY <4>1, <4>2, Zenon DEF InQueue, InBatch
    <3> QED
      BY <2>1, <3>1, Zenon
  <2>2. CASE n # m
    <3>1. ASSUME NEW d \in Conns PROVE InQueue(n, d)' <=> InQueue(n, d)
      <4>1. CASE d # c
        BY <1>3, <4>1, Zenon DEF InQueue
      <4>2. ASSUME NEW i \in 1..Len(queue[c]), queue[c][i] = n
            PROVE  i - 1 \in 1..Len(queue'[c]) /\ queue'[c][i - 1] = n
        BY <1>3, <2>2, <4>2
      <4>3. ASSUME NEW i \in 1..Len(queue'[c]), queue'[c][i] = n
            PROVE  i + 1 \in 1..Len(queue[c]) /\ queue[c][i + 1] = n
        BY <1>3, <4>3
      <4> QED
        BY <4>1, <4>2, <4>3, Zenon DEF InQueue
    <3>2. ASSUME NEW d \in Conns PROVE InBatch(n, d)' <=> InBatch(n, d)
      <4>1. CASE d # c
        BY <1>4, <4>1, Zenon DEF InBatch
      <4>2. ASSUME NEW i \in 1..Len(batch[c]), batch[c][i] = n
            PROVE  i \in 1..Len(batch'[c]) /\ batch'[c][i] = n
        BY <1>4, <4>2
      <4>3. ASSUME NEW i \in 1..Len(batch'[c]), batch'[c][i] = n
            PROVE  i \in 1..Len(batch[c]) /\ batch[c][i] = n
        BY <1>9, <2>2, <4>3, Zenon
      <4> QED
        BY <4>1, <4>2, <4>3, Zenon DEF InBatch
    <3> QED
      BY <3>1, <3>2, Zenon
  <2> QED
    BY <2>1, <2>2, Zenon
<1>12. ReplyIsOwn' /\ Carries'
  BY <1>0, <1>1, Zenon DEF ReplyIsOwn, Carries, msgVars
<1>13. PipeInv(c)'
  <2>0. /\ idx' = idx /\ req' = req /\ reply' = reply /\ idx[c] = 1
        /\ ~failed[c] /\ WireOwes(c, 1)
        /\ Len(wire[c]) \in Nat /\ wire[c] \in Seq(Reqs)
    <3>1. WireOwes(c, 1) /\ ~failed[c] /\ idx[c] = 1
      BY <1>0, <1>1 DEF PipeInv, WireOwes
    <3> QED
      BY <1>0, <1>1, <3>1, Members, Zenon DEF msgVars
  <2>1. batch'[c] # << >>
    BY <1>4
  <2>2. CASE /\ wire'[c] = Append(wire[c], req[m]) /\ failed' = failed
             /\ pc'[c] \in {"flush", "recv"}
    <3>1. /\ Len(wire'[c]) = Len(wire[c]) + 1
          /\ \A j \in 1..Len(wire[c]) : wire'[c][j] = wire[c][j]
          /\ wire'[c][Len(wire[c]) + 1] = req[m]
      BY <1>5, <2>0, <2>2, PutFacts
    <3>2. Len(wire[c]) = Len(batch[c])
      BY <1>4, <2>0 DEF WireOwes
    <3>3. ASSUME NEW j \in 1..Len(wire'[c])
          PROVE  wire'[c][j] = req[batch'[c][j]]
      <4>1. CASE j \in 1..Len(wire[c])
        BY <1>4, <2>0, <3>1, <3>2, <4>1 DEF WireOwes
      <4>2. CASE j = Len(wire[c]) + 1
        BY <1>4, <3>1, <3>2, <4>2, Zenon
      <4> QED
        BY <2>0, <3>1, <4>1, <4>2
    <3>4. WireOwes(c, 1)'
      BY <1>4, <2>0, <3>1, <3>2, <3>3 DEF WireOwes
    <3> QED
      BY <2>0, <2>1, <2>2, <3>4, Zenon DEF PipeInv
  <2>3. CASE wire' = wire /\ failed'[c] = TRUE /\ pc'[c] = "mend"
    BY <2>0, <2>1, <2>3, Zenon DEF PipeInv
  <2> QED
    BY <1>6, <2>2, <2>3, Zenon
<1>14. ASSUME NEW d \in Conns, d # c PROVE PipeInv(d)'
  BY <1>0, <1>1, <1>4, <1>6, <1>14, PipeInvFrame, Zenon DEF IInv, msgVars
<1> QED
  BY <1>7, <1>10, <1>11, <1>12, <1>13, <1>14, Zenon DEF IInv

\* The goroutine reads the next reply into the next message of its batch, or
\* the read fails.
LEMMA ReadIInv ==
  ASSUME IInv, NEW c \in Conns, Read(c)
  PROVE  IInv'
<1> USE PipeAssumption
<1>0. TypeOK /\ HeldOnce /\ DoneIsOwed /\ ReplyIsOwn /\ Carries /\ PipeInv(c)
  BY Zenon DEF IInv
<1>1. /\ pc[c] = "read"
      /\ UNCHANGED <<closeVars, queue, batch, pusher, pending, req, err, crashed>>
  BY Zenon DEF Read
<1>2. /\ ~failed[c] /\ idx[c] \in 1..Len(batch[c]) /\ idx[c] \in Nat
      /\ WireOwes(c, idx[c])
      /\ \A j \in 1..(idx[c] - 1) : reply[batch[c][j]] = req[batch[c][j]]
      /\ Len(batch[c]) \in Nat /\ Len(wire[c]) \in Nat /\ wire[c] \in Seq(Reqs)
  BY <1>0, <1>1, Members, Zenon DEF PipeInv, TypeOK
<1>w. \A j \in 1..Len(wire[c]) : wire[c][j] = req[batch[c][idx[c] + j - 1]]
  BY <1>2, Zenon DEF WireOwes
<1>3. HeldOnce' /\ DoneIsOwed' /\ Carries'
  <2>1. HeldOnce'
    BY <1>0, <1>1 DEF HeldOnce
  <2>2. DoneIsOwed'
    BY <1>0, <1>1 DEF DoneIsOwed, InQueue, InBatch
  <2>3. Carries'
    BY <1>0, <1>1, Zenon DEF Carries
  <2> QED
    BY <2>1, <2>2, <2>3, Zenon
<1>t. /\ pc \in [Conns -> PipePc] /\ failed \in [Conns -> BOOLEAN]
      /\ wire \in [Conns -> Seq(Reqs)] /\ idx \in [Conns -> Nat]
      /\ reply \in [Msgs -> Reqs \cup {None}]
  BY <1>0, Zenon DEF TypeOK
<1>4. CASE /\ failed' = [failed EXCEPT ![c] = TRUE]
           /\ idx' = [idx EXCEPT ![c] = 1]
           /\ pc' = [pc EXCEPT ![c] = "mend"]
           /\ UNCHANGED <<reply, wire>>
  <2>1. /\ pc'[c] = "mend" /\ failed'[c] = TRUE /\ idx'[c] = 1
        /\ \A d \in Conns \ {c} : pc'[d] = pc[d] /\ failed'[d] = failed[d] /\ idx'[d] = idx[d]
    BY <1>t, <1>4, Zenon
  <2>2. TypeOK'
    <3>1. pc' \in [Conns -> PipePc] /\ failed' \in [Conns -> BOOLEAN] /\ idx' \in [Conns -> Nat]
      BY <1>t, <1>4, Zenon DEF PipePc
    <3> QED
      BY <1>0, <1>1, <1>4, <3>1, Zenon DEF TypeOK, closeVars
  <2>3. ReplyIsOwn'
    BY <1>0, <1>1, <1>4, Zenon DEF ReplyIsOwn
  <2>4. PipeInv(c)'
    <3>1. batch[c] # << >>
      BY <1>2
    <3> QED
      BY <1>1, <2>1, <3>1, Zenon DEF PipeInv
  <2>5. ASSUME NEW d \in Conns, d # c PROVE PipeInv(d)'
    BY <1>0, <1>1, <1>4, <2>1, <2>5, PipeInvFrame, Zenon DEF IInv
  <2> QED
    BY <1>3, <2>2, <2>3, <2>4, <2>5, Zenon DEF IInv
<1>5. CASE /\ wire[c] # << >>
           /\ reply' = [reply EXCEPT ![batch[c][idx[c]]] = Head(wire[c])]
           /\ wire' = [wire EXCEPT ![c] = Tail(wire[c])]
           /\ failed' = failed
           /\ \/ /\ idx[c] < Len(batch[c])
                 /\ idx' = [idx EXCEPT ![c] = idx[c] + 1]
                 /\ pc' = pc
              \/ /\ ~(idx[c] < Len(batch[c]))
                 /\ idx' = [idx EXCEPT ![c] = 1]
                 /\ pc' = [pc EXCEPT ![c] = "mend"]
  <2>1. PICK m \in Msgs : m = batch[c][idx[c]]
    BY <1>0, <1>2, Members, Zenon
  <2>2. /\ Head(wire[c]) = req[m] /\ Head(wire[c]) \in Reqs
        /\ wire'[c] \in Seq(Reqs) /\ Len(wire'[c]) = Len(wire[c]) - 1
        /\ \A j \in 1..Len(wire'[c]) : wire'[c][j] = wire[c][j + 1]
        /\ \A d \in Conns \ {c} : wire'[d] = wire[d]
    <3>1. wire'[c] = Tail(wire[c]) /\ \A d \in Conns \ {c} : wire'[d] = wire[d]
      BY <1>t, <1>5, Zenon
    <3>2. /\ Head(wire[c]) = wire[c][1] /\ Head(wire[c]) \in Reqs /\ Len(wire[c]) > 0
          /\ wire'[c] \in Seq(Reqs) /\ Len(wire'[c]) = Len(wire[c]) - 1
          /\ \A j \in 1..Len(wire'[c]) : wire'[c][j] = wire[c][j + 1]
      <4>1. wire[c] \in Seq(Reqs) /\ wire[c] # << >>
        BY <1>2, <1>5, Zenon
      <4> QED
        BY <3>1, <4>1, TakeFacts
    <3>3. wire[c][1] = req[batch[c][idx[c]]]
      <4>1. 1 \in 1..Len(wire[c]) /\ idx[c] + 1 - 1 = idx[c]
        BY <1>2, <3>2
      <4> QED
        BY <1>w, <4>1, Zenon
    <3> QED
      BY <2>1, <3>1, <3>2, <3>3, Zenon
  <2>3. reply'[m] = req[m] /\ \A n \in Msgs \ {m} : reply'[n] = reply[n]
    BY <1>t, <1>5, <2>1, <2>2
  <2>4. TypeOK'
    <3>1. wire' \in [Conns -> Seq(Reqs)]
      BY <1>t, <1>5, <2>2, Zenon
    <3>2. reply' \in [Msgs -> Reqs \cup {None}]
      BY <1>t, <1>5, <2>1, <2>2, Zenon
    <3>3. pc' \in [Conns -> PipePc] /\ idx' \in [Conns -> Nat]
      <4>1. "mend" \in PipePc /\ idx[c] + 1 \in Nat /\ 1 \in Nat
        BY <1>2 DEF PipePc
      <4>2. CASE idx' = [idx EXCEPT ![c] = idx[c] + 1] /\ pc' = pc
        BY <1>t, <4>1, <4>2, Zenon
      <4>3. CASE idx' = [idx EXCEPT ![c] = 1] /\ pc' = [pc EXCEPT ![c] = "mend"]
        BY <1>t, <4>1, <4>3, Zenon
      <4> QED
        BY <1>5, <4>2, <4>3, Zenon
    <3> QED
      BY <1>0, <1>1, <1>5, <3>1, <3>2, <3>3, Zenon DEF TypeOK, closeVars
  <2>5. pending[m] = 1
    BY <1>0, <1>2, <2>1, Zenon DEF DoneIsOwed, InBatch
  <2>6. ReplyIsOwn'
    BY <1>0, <1>1, <2>3, <2>5, Zenon DEF ReplyIsOwn
  <2>7. ASSUME NEW j \in 1..idx[c] PROVE reply'[batch[c][j]] = req[batch[c][j]]
    <3>1. CASE j = idx[c]
      BY <2>1, <2>3, <3>1, Zenon
    <3>2. CASE j # idx[c]
      <4>1. j \in 1..Len(batch[c]) /\ j \in 1..(idx[c] - 1)
        BY <1>2, <3>2
      <4>2. batch[c][j] \in Msgs \ {m}
        BY <1>0, <1>2, <2>1, <3>2, <4>1, Members DEF HeldOnce
      <4> QED
        BY <1>2, <2>3, <4>1, <4>2, Zenon
    <3> QED
      BY <3>1, <3>2, Zenon
  <2>8. CASE /\ idx[c] < Len(batch[c])
             /\ idx' = [idx EXCEPT ![c] = idx[c] + 1]
             /\ pc' = pc
    <3>1. idx'[c] = idx[c] + 1 /\ \A d \in Conns \ {c} : idx'[d] = idx[d]
      BY <1>t, <2>8, Zenon
    <3>2. WireOwes(c, idx[c])'
      <4>1. Len(wire'[c]) = Len(batch[c]) - (idx[c] + 1) + 1
        BY <1>2, <2>2 DEF WireOwes
      <4>2. ASSUME NEW j \in 1..Len(wire'[c])
            PROVE  wire'[c][j] = req[batch[c][(idx[c] + 1) + j - 1]]
        <5>1. j + 1 \in 1..Len(wire[c]) /\ (idx[c] + 1) + j - 1 = idx[c] + (j + 1) - 1
          BY <1>2, <2>2
        <5> QED
          BY <1>w, <2>2, <5>1, Zenon
      <4> QED
        BY <1>1, <3>1, <4>1, <4>2, Zenon DEF WireOwes
    <3>3. PipeInv(c)'
      <4>1. idx'[c] \in 1..Len(batch[c]) /\ idx'[c] - 1 = idx[c]
        BY <1>2, <2>8, <3>1
      <4>2. pc'[c] = "read" /\ ~failed'[c] /\ batch' = batch /\ req' = req
        BY <1>1, <1>2, <1>5, <2>8, Zenon
      <4>3. \A j \in 1..(idx'[c] - 1) : reply'[batch'[c][j]] = req'[batch'[c][j]]
        BY <2>7, <4>1, <4>2, Zenon
      <4> QED
        BY <3>2, <4>1, <4>2, <4>3, Zenon DEF PipeInv
    <3>4. ASSUME NEW d \in Conns, d # c PROVE PipeInv(d)'
      <4>1. \A i \in 1..Len(batch[d]) : batch[d][i] \in Msgs \ {m}
        <5>1. \A i \in 1..Len(batch[d]) : batch[d][i] # batch[c][idx[c]]
          BY <1>0, <1>2, <3>4, Zenon DEF HeldOnce
        <5> QED
          BY <1>0, <2>1, <5>1, Members, Zenon
      <4>2. /\ pc'[d] = pc[d] /\ batch'[d] = batch[d] /\ idx'[d] = idx[d]
            /\ failed'[d] = failed[d] /\ wire'[d] = wire[d] /\ req' = req
        BY <1>1, <1>5, <2>2, <2>8, <3>1, <3>4, Zenon
      <4> QED
        BY <1>0, <2>3, <4>1, <4>2, PipeInvFrame, Zenon DEF IInv
    <3> QED
      BY <1>3, <2>4, <2>6, <3>3, <3>4, Zenon DEF IInv
  <2>9. CASE /\ ~(idx[c] < Len(batch[c]))
             /\ idx' = [idx EXCEPT ![c] = 1]
             /\ pc' = [pc EXCEPT ![c] = "mend"]
    <3>1. /\ idx'[c] = 1 /\ pc'[c] = "mend"
          /\ \A d \in Conns \ {c} : idx'[d] = idx[d] /\ pc'[d] = pc[d]
      BY <1>t, <2>9, Zenon
    <3>2. idx[c] = Len(batch[c]) /\ batch[c] # << >>
      BY <1>2, <2>9
    <3>3. wire'[c] = << >>
      <4>1. Len(wire'[c]) = 0
        BY <1>2, <2>2, <3>2 DEF WireOwes
      <4> QED
        BY <2>2, <4>1, ElementFacts, Zenon
    <3>4. PipeInv(c)'
      BY <1>1, <2>7, <3>1, <3>2, <3>3, Zenon DEF PipeInv
    <3>5. ASSUME NEW d \in Conns, d # c PROVE PipeInv(d)'
      <4>1. \A i \in 1..Len(batch[d]) : batch[d][i] \in Msgs \ {m}
        <5>1. \A i \in 1..Len(batch[d]) : batch[d][i] # batch[c][idx[c]]
          BY <1>0, <1>2, <3>5, Zenon DEF HeldOnce
        <5> QED
          BY <1>0, <2>1, <5>1, Members, Zenon
      <4>2. /\ pc'[d] = pc[d] /\ batch'[d] = batch[d] /\ idx'[d] = idx[d]
            /\ failed'[d] = failed[d] /\ wire'[d] = wire[d] /\ req' = req
        BY <1>1, <1>5, <2>2, <3>1, <3>5, Zenon
      <4> QED
        BY <1>0, <2>3, <4>1, <4>2, PipeInvFrame, Zenon DEF IInv
    <3> QED
      BY <1>3, <2>4, <2>6, <3>4, <3>5, Zenon DEF IInv
  <2> QED
    BY <1>5, <2>8, <2>9, Zenon
<1> QED
  BY <1>4, <1>5, Zenon DEF Read

\* The goroutine marks the next message of its batch done.
LEMMA MendIInv ==
  ASSUME IInv, NEW c \in Conns, Mend(c)
  PROVE  IInv'
<1> USE PipeAssumption
<1>0. TypeOK /\ HeldOnce /\ DoneIsOwed /\ ReplyIsOwn /\ Carries /\ PipeInv(c)
  BY Zenon DEF IInv
<1>1. /\ pc[c] = "mend"
      /\ UNCHANGED <<closeVars, queue, idx, failed, wire, pusher, req, reply, crashed>>
      /\ batch' = [batch EXCEPT ![c] = Tail(batch[c])]
      /\ err' = [err EXCEPT ![Head(batch[c])] = IF failed[c] THEN "net" ELSE "nil"]
      /\ pending' = [pending EXCEPT ![Head(batch[c])] = pending[Head(batch[c])] - 1]
      /\ pc' = [pc EXCEPT ![c] = IF Len(batch[c]) > 1 THEN "mend"
                                 ELSE IF failed[c] THEN "renew" ELSE "wait"]
  BY Zenon DEF Mend
<1>2. /\ batch[c] \in Seq(Msgs) /\ batch[c] # << >> /\ idx[c] = 1
      /\ ~failed[c] => /\ wire[c] = << >>
                       /\ \A j \in 1..Len(batch[c]) : reply[batch[c][j]] = req[batch[c][j]]
  BY <1>0, <1>1, Members, Zenon DEF PipeInv
<1>3. PICK m \in Msgs : m = Head(batch[c])
  BY <1>2, TakeFacts, Zenon
<1>4. /\ batch[c][1] = m /\ Len(batch[c]) \in Nat /\ Len(batch[c]) > 0
      /\ batch'[c] \in Seq(Msgs) /\ Len(batch'[c]) = Len(batch[c]) - 1
      /\ \A i \in 1..Len(batch'[c]) : batch'[c][i] = batch[c][i + 1]
      /\ \A d \in Conns \ {c} : batch'[d] = batch[d]
  <2>1. batch'[c] = Tail(batch[c]) /\ \A d \in Conns \ {c} : batch'[d] = batch[d]
    BY <1>0, <1>1, Zenon DEF TypeOK
  <2> QED
    BY <1>2, <1>3, <2>1, TakeFacts
<1>5. /\ pusher[m] = "idle" /\ pending[m] = 1
      /\ \A d \in Conns : \A i \in 1..Len(queue[d]) : queue[d][i] # m
      /\ \A d \in Conns : \A i \in 1..Len(batch[d]) : batch[d][i] = m => d = c /\ i = 1
  <2>1. 1 \in 1..Len(batch[c])
    BY <1>4
  <2>2. pending[m] = 1
    BY <1>0, <1>4, <2>1, Zenon DEF DoneIsOwed, InBatch
  <2>3. /\ pusher[m] = "idle"
        /\ \A d \in Conns : \A i \in 1..Len(queue[d]) : queue[d][i] # m
    BY <1>0, <1>4, <2>1 DEF HeldOnce
  <2>4. \A d \in Conns : \A i \in 1..Len(batch[d]) : batch[d][i] = m => d = c /\ i = 1
    BY <1>0, <1>4, <2>1 DEF HeldOnce
  <2> QED
    BY <2>2, <2>3, <2>4, Zenon
<1>6. /\ pending'[m] = 0 /\ err'[m] = IF failed[c] THEN "net" ELSE "nil"
      /\ \A n \in Msgs \ {m} : pending'[n] = pending[n] /\ err'[n] = err[n]
      /\ pending' \in [Msgs -> Int] /\ err' \in [Msgs -> {"nil", "full", "net"}]
  <2>1. pending \in [Msgs -> Int] /\ err \in [Msgs -> {"nil", "full", "net"}]
    BY <1>0, Zenon DEF TypeOK
  <2> QED
    BY <1>1, <1>3, <1>5, <2>1
<1>7. /\ pc'[c] = IF Len(batch[c]) > 1 THEN "mend" ELSE IF failed[c] THEN "renew" ELSE "wait"
      /\ \A d \in Conns \ {c} : pc'[d] = pc[d]
      /\ pc' \in [Conns -> PipePc]
  <2>1. pc \in [Conns -> PipePc]
    BY <1>0, Zenon DEF TypeOK
  <2> QED
    BY <1>1, <2>1, Zenon DEF PipePc
<1>8. TypeOK'
  <2>1. batch' \in [Conns -> Seq(Msgs)]
    BY <1>0, <1>1, <1>4, Zenon DEF TypeOK
  <2> QED
    BY <1>0, <1>1, <1>6, <1>7, <2>1, Zenon DEF TypeOK, closeVars
<1>9. ASSUME NEW d \in Conns, NEW i \in 1..Len(batch'[d])
      PROVE  \E k \in 1..Len(batch[d]) : /\ batch'[d][i] = batch[d][k]
                                         /\ k = IF d = c THEN i + 1 ELSE i
  <2>1. CASE d = c
    <3>1. i + 1 \in 1..Len(batch[c]) /\ batch'[c][i] = batch[c][i + 1]
      BY <1>4, <2>1
    <3> QED
      BY <2>1, <3>1, Zenon
  <2>2. CASE d # c
    BY <1>4, <2>2, Zenon
  <2> QED
    BY <2>1, <2>2, Zenon
<1>10. HeldOnce'
  <2>1. ASSUME NEW d \in Conns, NEW e \in Conns,
               NEW i \in 1..Len(batch'[d]), NEW j \in 1..Len(batch'[e]),
               batch'[d][i] = batch'[e][j]
        PROVE  d = e /\ i = j
    <3>1. PICK k \in 1..Len(batch[d]) : /\ batch'[d][i] = batch[d][k]
                                        /\ k = IF d = c THEN i + 1 ELSE i
      BY <1>9, Zenon
    <3>2. PICK l \in 1..Len(batch[e]) : /\ batch'[e][j] = batch[e][l]
                                        /\ l = IF e = c THEN j + 1 ELSE j
      BY <1>9, Zenon
    <3>3. \A x \in 1..Len(batch[d]), y \in 1..Len(batch[e]) :
            batch[d][x] = batch[e][y] => d = e /\ x = y
      BY <1>0, HeldApart, Zenon
    <3>4. d = e /\ k = l
      BY <2>1, <3>1, <3>2, <3>3, Zenon
    <3> QED
      BY <3>1, <3>2, <3>4
  <2>2. ASSUME NEW d \in Conns, NEW e \in Conns,
               NEW i \in 1..Len(queue[d]), NEW j \in 1..Len(batch'[e])
        PROVE  queue[d][i] # batch'[e][j]
    <3>1. PICK k \in 1..Len(batch[e]) : batch'[e][j] = batch[e][k]
      BY <1>9, Zenon
    <3>2. queue[d][i] # batch[e][k]
      BY <1>0, HeldApart
    <3> QED
      BY <3>1, <3>2, Zenon
  <2>3. ASSUME NEW d \in Conns, NEW i \in 1..Len(batch'[d])
        PROVE  pusher[batch'[d][i]] = "idle"
    <3>1. PICK k \in 1..Len(batch[d]) : batch'[d][i] = batch[d][k]
      BY <1>9, Zenon
    <3> QED
      BY <1>0, <3>1 DEF HeldOnce
  <2> QED
    <3>1. pusher' = pusher /\ queue' = queue
      BY <1>1, Zenon
    <3> QED
      BY <1>0, <2>1, <2>2, <2>3, <3>1 DEF HeldOnce
<1>11. DoneIsOwed'
  <2> SUFFICES ASSUME NEW n \in Msgs
               PROVE  /\ pending'[n] \in 0..1
                      /\ pending'[n] = 1 <=> \/ pusher[n] # "idle"
                                             \/ \E d \in Conns : InQueue(n, d) \/ InBatch(n, d)'
    BY <1>1 DEF DoneIsOwed, InQueue
  <2>1. CASE n = m
    <3>1. ASSUME NEW d \in Conns PROVE ~InQueue(m, d) /\ ~InBatch(m, d)'
      <4>1. ASSUME NEW i \in 1..Len(batch'[d]) PROVE batch'[d][i] # m
        <5>1. PICK k \in 1..Len(batch[d]) : /\ batch'[d][i] = batch[d][k]
                                            /\ k = IF d = c THEN i + 1 ELSE i
          BY <1>9, Zenon
        <5> QED
          BY <1>5, <5>1
      <4> QED
        BY <1>5, <4>1, Zenon DEF InQueue, InBatch
    <3> QED
      BY <1>5, <1>6, <2>1, <3>1
  <2>2. CASE n # m
    <3>1. ASSUME NEW d \in Conns PROVE InBatch(n, d)' <=> InBatch(n, d)
      <4>1. CASE d # c
        BY <1>4, <4>1, Zenon DEF InBatch
      <4>2. ASSUME NEW i \in 1..Len(batch[c]), batch[c][i] = n
            PROVE  i - 1 \in 1..Len(batch'[c]) /\ batch'[c][i - 1] = n
        BY <1>4, <2>2, <4>2
      <4>3. ASSUME NEW i \in 1..Len(batch'[c]), batch'[c][i] = n
            PROVE  i + 1 \in 1..Len(batch[c]) /\ batch[c][i + 1] = n
        BY <1>4, <4>3
      <4> QED
        BY <4>1, <4>2, <4>3, Zenon DEF InBatch
    <3> QED
      BY <1>0, <1>6, <2>2, <3>1, Zenon DEF DoneIsOwed
  <2> QED
    BY <2>1, <2>2, Zenon
<1>12. Carries'
  BY <1>0, <1>1, <1>6 DEF Carries
<1>13. ReplyIsOwn'
  <2>1. ~failed[c] => reply[m] = req[m]
    BY <1>2, <1>4
  <2>2. failed[c] => err'[m] = "net"
    BY <1>6, Zenon
  <2> QED
    BY <1>0, <1>1, <1>6, <2>1, <2>2 DEF ReplyIsOwn
<1>14. PipeInv(c)'
  <2>1. ~failed[c] => \A j \in 1..Len(batch'[c]) : reply[batch'[c][j]] = req[batch'[c][j]]
    <3> SUFFICES ASSUME ~failed[c], NEW j \in 1..Len(batch'[c])
                 PROVE  reply[batch'[c][j]] = req[batch'[c][j]]
      OBVIOUS
    <3>1. j + 1 \in 1..Len(batch[c]) /\ batch'[c][j] = batch[c][j + 1]
      BY <1>4
    <3> QED
      BY <1>2, <3>1, Zenon
  <2>2. Len(batch[c]) > 1 <=> batch'[c] # << >>
    BY <1>4, ElementFacts
  <2> QED
    BY <1>1, <1>2, <1>4, <1>7, <2>1, <2>2 DEF PipeInv
<1>15. ASSUME NEW d \in Conns, d # c PROVE PipeInv(d)'
  BY <1>0, <1>1, <1>4, <1>7, <1>15, PipeInvFrame, Zenon DEF IInv
<1> QED
  BY <1>8, <1>10, <1>11, <1>12, <1>13, <1>14, <1>15, Zenon DEF IInv

-----------------------------------------------------------------------------
(* The theorems.                                                           *)

\* Every step of the pipe preserves the invariant.
LEMMA NextIInv ==
  ASSUME IInv, [Next]_vars
  PROVE  IInv'
<1>1. CASE UNCHANGED vars
  <2>1. UNCHANGED <<closeVars, pipeVars, msgVars, crashed>>
    BY <1>1, Zenon DEF vars
  <2>2. TypeOK'
    BY <2>1, Zenon DEF IInv, TypeOK, closeVars, pipeVars, msgVars
  <2>3. HeldOnce' /\ DoneIsOwed' /\ ReplyIsOwn' /\ Carries'
    BY <2>1, MsgFrame, Zenon DEF pipeVars, msgVars
  <2>4. ASSUME NEW c \in Conns PROVE PipeInv(c)'
    BY <2>1, PipeInvFrame, Zenon DEF IInv, pipeVars, msgVars
  <2> QED
    BY <2>2, <2>3, <2>4, Zenon DEF IInv
<1>2. ASSUME NEW m \in Msgs, NEW r \in Reqs, PushPick(m, r) PROVE IInv'
  BY <1>2, PushPickIInv, Zenon
<1>3. ASSUME NEW m \in Msgs, Pusher(m) PROVE IInv'
  BY <1>3, PushSendIInv, PushRejectIInv, Zenon DEF Pusher
<1>4. ASSUME NEW c \in Conns, Pipe(c) PROVE IInv'
  BY <1>4, TakeAndWriteIInv, QuietPipeIInv, ReadIInv, MendIInv, Zenon DEF Pipe
<1>5. CASE CloseErrCh \/ CloseInputs \/ ErrorEvent
  BY <1>5, CloseIInv, Zenon
<1> QED
  BY <1>1, <1>2, <1>3, <1>4, <1>5, Zenon DEF Next

\* The invariant holds in every reachable state of the pipe.
THEOREM Invariance == Spec => []IInv
  BY InitIInv, NextIInv, PTL DEF Spec

\* Type correctness of the pipe's state.
THEOREM TypeCorrect == Spec => []TypeOK
<1>1. IInv => TypeOK
  BY Zenon DEF IInv
<1> QED
  BY <1>1, Invariance, PTL

\* A message is never held twice, so it is never marked done twice.
THEOREM NeverHeldTwice == Spec => []HeldOnce
<1>1. IInv => HeldOnce
  BY Zenon DEF IInv
<1> QED
  BY <1>1, Invariance, PTL

\* The WaitGroup counts exactly the messages that are still held.
THEOREM WaitGroupIsExact == Spec => []DoneIsOwed
<1>1. IInv => DoneIsOwed
  BY Zenon DEF IInv
<1> QED
  BY <1>1, Invariance, PTL

\* A message done without an error holds the reply to its own request.
THEOREM RepliesMatch == Spec => []ReplyIsOwn
<1>1. IInv => ReplyIsOwn
  BY Zenon DEF IInv
<1> QED
  BY <1>1, Invariance, PTL

-----------------------------------------------------------------------------
(* The pipe implements PipePromise.                                        *)

\* Steps that complete no message and start none are invisible: what the
\* handlers see depends on pending, req, and on err and reply of the
\* messages that are done.
LEMMA InvisibleStep ==
  ASSUME pending' = pending, req' = req,
         \A m \in Msgs : pending[m] = 0 => err'[m] = err[m] /\ reply'[m] = reply[m]
  PROVE  UNCHANGED Promise!vars
BY Zenon DEF Promise!vars, asked, answer

\* One message becomes done, with an error or with its own reply.
LEMMA DoneStep ==
  ASSUME IInv, NEW m \in Msgs, pending[m] = 1, pending'[m] = 0,
         \A n \in Msgs \ {m} : pending'[n] = pending[n] /\ err'[n] = err[n],
         req' = req, reply' = reply,
         err'[m] # "nil" \/ reply[m] = req[m]
  PROVE  Promise!Done(m)
<1>1. m \in asked /\ asked' = asked \ {m}
  BY DEF asked
<1>2. answer' = [answer EXCEPT ![m] = IF err'[m] = "nil" THEN req[m] ELSE Error]
  <2>1. \A n \in Msgs : answer'[n] = IF n # m THEN answer[n]
                                    ELSE IF err'[m] = "nil" THEN req[m] ELSE Error
    BY Zenon DEF answer
  <2> QED
    BY <2>1, Zenon DEF answer
<1> QED
  BY <1>1, <1>2, Zenon DEF Promise!Done

\* Every step of the pipe is a step of the promise or invisible.
LEMMA StepRefines ==
  ASSUME IInv, [Next]_vars
  PROVE  [Promise!Next]_(Promise!vars)
<1> USE PipeAssumption
<1>0. TypeOK /\ DoneIsOwed
  BY Zenon DEF IInv
<1>1. CASE UNCHANGED vars
  BY <1>1, InvisibleStep, Zenon DEF vars, msgVars
<1>2. ASSUME NEW m \in Msgs, NEW r \in Reqs, PushPick(m, r) PROVE Promise!Push(m, r)
  <2>1. /\ pending[m] = 0 /\ pending'[m] = 1
        /\ \A n \in Msgs \ {m} : /\ pending'[n] = pending[n] /\ err'[n] = err[n]
                                 /\ reply'[n] = reply[n]
        /\ req' = [req EXCEPT ![m] = r]
    BY <1>0, <1>2 DEF PushPick, TypeOK
  <2>2. m \notin asked /\ asked' = asked \cup {m}
    BY <2>1 DEF asked
  <2>3. answer' = [answer EXCEPT ![m] = None]
    <3>1. \A n \in Msgs : answer'[n] = IF n = m THEN None ELSE answer[n]
      BY <2>1 DEF answer
    <3> QED
      BY <3>1, Zenon DEF answer
  <2> QED
    BY <2>1, <2>2, <2>3, Zenon DEF Promise!Push
<1>3. ASSUME NEW m \in Msgs, PushSend(m) PROVE UNCHANGED Promise!vars
  BY <1>3, InvisibleStep, Zenon DEF PushSend
<1>4. ASSUME NEW m \in Msgs, PushReject(m) PROVE Promise!Done(m)
  <2>1. pending[m] = 1
    BY <1>0, <1>4, Zenon DEF PushReject, DoneIsOwed
  <2>2. /\ pending'[m] = 0 /\ err'[m] = "full" /\ req' = req /\ reply' = reply
        /\ \A n \in Msgs \ {m} : pending'[n] = pending[n] /\ err'[n] = err[n]
    BY <1>0, <1>4, <2>1 DEF PushReject, TypeOK
  <2> QED
    BY <2>1, <2>2, DoneStep, Zenon
<1>5. ASSUME NEW c \in Conns, TakeAndWrite(c) \/ NothingToTake(c) \/ Exit(c)
                              \/ Flush(c) \/ Renew(c)
      PROVE  UNCHANGED Promise!vars
  <2>1. UNCHANGED msgVars
    BY <1>5, Zenon DEF TakeAndWrite, NothingToTake, Exit, Flush, Renew
  <2> QED
    BY <2>1, InvisibleStep, Zenon DEF msgVars
<1>6. ASSUME NEW c \in Conns, Read(c) PROVE UNCHANGED Promise!vars
  <2>1. /\ batch[c][idx[c]] \in Msgs /\ pending[batch[c][idx[c]]] = 1
    <3>1. PipeInv(c) /\ pc[c] = "read"
      BY <1>6, Zenon DEF IInv, Read
    <3>2. idx[c] \in 1..Len(batch[c])
      BY <3>1, Zenon DEF PipeInv
    <3>3. batch[c][idx[c]] \in Msgs
      BY <1>0, <3>2, Members, Zenon
    <3> QED
      BY <1>0, <3>2, <3>3, Zenon DEF DoneIsOwed, InBatch
  <2>2. UNCHANGED <<pending, req, err>>
    BY <1>6, Zenon DEF Read
  <2>3. \A m \in Msgs : pending[m] = 0 => reply'[m] = reply[m]
    <3>1. \/ reply' = reply
          \/ reply' = [reply EXCEPT ![batch[c][idx[c]]] = Head(wire[c])]
      BY <1>6, Zenon DEF Read
    <3> QED
      BY <1>0, <2>1, <3>1 DEF TypeOK
  <2> QED
    BY <2>2, <2>3, InvisibleStep, Zenon
<1>7. ASSUME NEW c \in Conns, Mend(c) PROVE \E m \in Msgs : Promise!Done(m)
  <2>1. /\ PipeInv(c) /\ pc[c] = "mend" /\ batch[c] \in Seq(Msgs) /\ batch[c] # << >>
    BY <1>0, <1>7, Members, Zenon DEF IInv, Mend, PipeInv
  <2>2. PICK m \in Msgs : m = Head(batch[c])
    BY <2>1, TakeFacts, Zenon
  <2>3. 1 \in 1..Len(batch[c]) /\ batch[c][1] = m
    BY <2>1, <2>2, TakeFacts
  <2>4. pending[m] = 1
    BY <1>0, <2>3, Zenon DEF DoneIsOwed, InBatch
  <2>5. ~failed[c] => reply[m] = req[m]
    BY <2>1, <2>3, Zenon DEF PipeInv
  <2>6. /\ pending' = [pending EXCEPT ![m] = pending[m] - 1]
        /\ err' = [err EXCEPT ![m] = IF failed[c] THEN "net" ELSE "nil"]
        /\ req' = req /\ reply' = reply
    BY <1>7, <2>2, Zenon DEF Mend
  <2>7. /\ pending'[m] = 0 /\ err'[m] = IF failed[c] THEN "net" ELSE "nil"
        /\ \A n \in Msgs \ {m} : pending'[n] = pending[n] /\ err'[n] = err[n]
    BY <1>0, <2>4, <2>6 DEF TypeOK
  <2> QED
    BY <2>4, <2>5, <2>6, <2>7, DoneStep
<1>8. CASE CloseErrCh \/ CloseInputs \/ ErrorEvent
  BY <1>8, InvisibleStep, Zenon DEF CloseErrCh, CloseInputs, ErrorEvent, msgVars
<1>9. CASE Next
  <2>1. CASE \E m \in Msgs, r \in Reqs : PushPick(m, r)
    BY <1>2, <2>1, Zenon DEF Promise!Next
  <2>2. CASE \E m \in Msgs : Pusher(m)
    BY <1>3, <1>4, <2>2, Zenon DEF Pusher, Promise!Next
  <2>3. CASE \E c \in Conns : Pipe(c)
    BY <1>5, <1>6, <1>7, <2>3, Zenon DEF Pipe, Promise!Next
  <2> QED
    BY <1>8, <1>9, <2>1, <2>2, <2>3, Zenon DEF Next
<1> QED
  BY <1>1, <1>9, Zenon

\* The pipe implements what PipePromise says of it, whether or not it is
\* being closed: each message is answered at most once per Push, with the
\* reply to its request or with an error.
THEOREM PipeKeepsPromise == Spec => KeepsPromise
<1>1. Init => Promise!Init
  <2> SUFFICES ASSUME Init PROVE Promise!Init
    OBVIOUS
  <2>1. asked = {}
    BY Zenon DEF Init, asked
  <2>2. answer = [m \in Msgs |-> None]
    BY Zenon DEF Init, answer
  <2> QED
    BY <2>1, <2>2, Zenon DEF Init, Promise!Init
<1>2. IInv /\ [Next]_vars => [Promise!Next]_(Promise!vars)
  BY StepRefines, Zenon
<1> QED
  BY <1>1, <1>2, Invariance, PTL DEF Spec, KeepsPromise, Promise!Safe

-----------------------------------------------------------------------------
(* Close and Push.                                                         *)

Drained == state = "closed" /\ \A m \in Msgs : pusher[m] # "send"

\* a Push that panicked had chosen its channel
PanicInv == crashed = "input" => \E m \in Msgs : pusher[m] = "send"

\* Every Push that panics is one of those that Close overtook.
LEMMA NextPanicInv ==
  ASSUME IInv, PanicInv, [Next]_vars
  PROVE  PanicInv'
<1>1. CASE UNCHANGED vars
  BY <1>1, Zenon DEF vars, msgVars, PanicInv
<1>2. ASSUME NEW m \in Msgs, PushSend(m), crashed = "no" PROVE PanicInv'
  BY <1>2, Zenon DEF PushSend, PanicInv
<1>3. ASSUME Next, \A m \in Msgs : ~PushSend(m) PROVE crashed' # "input"
  <2>1. crashed = "no"
    BY <1>3, Zenon DEF Next
  <2>2. ASSUME NEW m \in Msgs, NEW r \in Reqs, PushPick(m, r) PROVE crashed' # "input"
    BY <2>1, <2>2, Zenon DEF PushPick
  <2>3. ASSUME NEW m \in Msgs, PushReject(m) PROVE crashed' # "input"
    BY <2>1, <2>3, Zenon DEF PushReject
  <2>4. ASSUME NEW c \in Conns, Pipe(c) PROVE crashed' # "input"
    <3>1. CASE Renew(c)
      BY <2>1, <3>1, Zenon DEF Renew, Report
    <3>2. CASE Read(c) \/ Mend(c) \/ Flush(c) \/ Exit(c)
      BY <2>1, <3>2, Zenon DEF Read, Mend, Flush, Exit
    <3>3. CASE NothingToTake(c) \/ TakeAndWrite(c)
      BY <2>1, <3>3, Zenon DEF NothingToTake, TakeAndWrite
    <3> QED
      BY <2>4, <3>1, <3>2, <3>3, Zenon DEF Pipe
  <2>5. CASE CloseErrCh \/ CloseInputs \/ ErrorEvent
    BY <2>1, <2>5, Zenon DEF CloseErrCh, CloseInputs, ErrorEvent
  <2> QED
    BY <1>3, <2>2, <2>3, <2>4, <2>5, Zenon DEF Next, Pusher
<1> QED
  BY <1>1, <1>2, <1>3, Zenon DEF Next, PanicInv

\* Once the inputs are closed, Push chooses none of them any more.
LEMMA DrainedStays ==
  ASSUME IInv, Drained, [Next]_vars
  PROVE  Drained'
<1>0. pusher \in [Msgs -> {"idle", "send", "reject"}]
  BY Zenon DEF IInv, TypeOK
<1>1. CASE UNCHANGED vars
  BY <1>1, Zenon DEF vars, closeVars, msgVars, Drained
<1>2. ASSUME NEW m \in Msgs, NEW r \in Reqs, PushPick(m, r) PROVE Drained'
  BY <1>0, <1>2, Zenon DEF PushPick, Picked, Drained, closeVars
<1>3. ASSUME NEW m \in Msgs, Pusher(m) PROVE Drained'
  BY <1>0, <1>3, Zenon DEF Pusher, PushSend, PushReject, Drained, closeVars
<1>4. ASSUME NEW c \in Conns, Pipe(c) PROVE Drained'
  <2>1. CASE Renew(c)
    BY <2>1, Zenon DEF Renew, msgVars, Drained
  <2>2. CASE Read(c) \/ Mend(c) \/ Flush(c) \/ Exit(c)
    BY <2>2, Zenon DEF Read, Mend, Flush, Exit, closeVars, msgVars, Drained
  <2>3. CASE NothingToTake(c) \/ TakeAndWrite(c)
    BY <2>3, Zenon DEF NothingToTake, TakeAndWrite, closeVars, msgVars, Drained
  <2> QED
    BY <1>4, <2>1, <2>2, <2>3, Zenon DEF Pipe
<1>5. CASE CloseErrCh \/ CloseInputs \/ ErrorEvent
  BY <1>5, Zenon DEF CloseErrCh, CloseInputs, ErrorEvent, msgVars, Drained
<1> QED
  BY <1>1, <1>2, <1>3, <1>4, <1>5, Zenon DEF Next

\* After Close, and after the calls of Push that had chosen their channel before
\* it, no Push ever panics on a closed channel, for any number of callers.
THEOREM PushSafeOnceDrained == Spec => SafeOnceDrained
<1>1. Init => PanicInv
  BY Zenon DEF Init, PanicInv
<1>2. IInv /\ PanicInv /\ [Next]_vars => PanicInv'
  BY NextPanicInv, Zenon
<1>3. IInv /\ Drained /\ [Next]_vars => Drained'
  BY DrainedStays, Zenon
<1>4. PanicInv /\ Drained => crashed # "input"
  BY Zenon DEF PanicInv, Drained
<1>5. Spec => [](Drained => [](crashed # "input"))
  BY <1>1, <1>2, <1>3, <1>4, Invariance, PTL DEF Spec
<1> QED
  BY <1>5, Zenon DEF SafeOnceDrained, Drained

=============================================================================
