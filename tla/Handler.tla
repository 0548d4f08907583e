------------------------------- MODULE Handler -------------------------------
(***************************************************************************)
(* One client connection (proxy/handler.go) with the messages it reuses    *)
(* (proxy/proto/message.go) and the decoder and encoder of the redis and   *)
(* memcache front ends.  A round decodes what has arrived into the         *)
(* handler's messages, forwards them, waits on the WaitGroup, encodes and  *)
(* flushes the replies and resets the messages for the next round.         *)
(*                                                                         *)
(* The pipes are the PipePromise that NodeConnPipe implements.  A request  *)
(* is named by its position in the client's stream, a command sent to a    *)
(* node by the request and the key's position in it, a reply by the        *)
(* command it answers.                                                     *)
(***************************************************************************)
EXTENDS Integers, Sequences, FiniteSetsExt

CONSTANTS
  Fronts,         \* the listeners: [redis, kinds, ejects, closes]
  MaxSent,        \* bound: the requests one client sends
  Concurrent,     \* concurrent: messages of the first round, growth factor
  MaxConcurrent,  \* maxConcurrent
  None,           \* a request object that never had a reply
  Raw,            \* memcache: the data field still holds the request
  Error           \* an error reply

ASSUME HandlerAssumption ==
  /\ Fronts \subseteq [redis : BOOLEAN, ejects : BOOLEAN, closes : BOOLEAN,
       kinds : SUBSET {"one", "two", "none", "bad", "auth", "badauth", "ping",
                       "noreply", "quit"}]
  /\ MaxSent \in Nat /\ Concurrent \in Nat \ {0} /\ MaxConcurrent \in Nat \ {0}

VARIABLES
  front,       \* the listener the client has connected to
  pc,          \* where the handler goroutine is
  msgs,        \* messages: [req, reqNum, subs, failed, subFailed]
  round,       \* len(msgs) of the round: messages 1..round are in use
  at,          \* the loop position: message, and sub-message when forwarding
  authorized,  \* proxyConn.authorized
  sent,        \* the kinds of the requests the client has sent, in order
  decoded,     \* how many of them the handler has decoded
  out,         \* what was encoded: [to |-> request, body |-> replies or Error]
  handed,      \* the commands handed to a pipe
  fwd,         \* forwarder.state
  ring,        \* whether the hash ring has a node
  asked, ask, answer,   \* the pipes
  lost,        \* messages a closed pipe dropped without Done
  crashed      \* "no", or where the process panicked

pipes == <<asked, ask, answer, lost>>
client == <<sent, decoded>>
env == <<fwd, ring>>
vars == <<front, pc, msgs, round, at, authorized, client, out, handed, env,
          pipes, crashed>>

Redis == front.redis        \* the redis front end, or else memcache
Kinds == front.kinds        \* the requests the client sends
MayEject == front.ejects    \* whether the pingers may empty the hash ring
MayClose == front.closes    \* whether the forwarder may be closed

Commands == (1..MaxSent) \X (1..2)
\* how many messages allocMaxConcurrent may allocate: it grows fewer than
\* maxConcurrent by the factor concurrent
MaxMessages == Concurrent * MaxConcurrent
\* message s itself, <<s, 0>>, or its sub-message <<s, j>>
Parcels == (1..MaxMessages) \X (0..2)
\* the request object that the pipe finds in a parcel
ObjectOf(p) == Max({p[2], 1})

Pipe == INSTANCE PipePromise WITH Msgs <- Parcels, Reqs <- Commands

Replies == Commands \cup {None, Raw}

Object == [cmd : Commands, reply : Replies]

TypeOK ==
  /\ front \in Fronts
  /\ pc \in {"decode", "check", "enter", "push", "wait", "encode", "flush",
             "closed"}
  /\ Len(msgs) <= MaxMessages
  /\ \A s \in DOMAIN msgs :
       /\ msgs[s].req \in Seq(Object)
       /\ msgs[s].reqNum \in 0..2 /\ msgs[s].subs \in 0..2
       /\ msgs[s].failed \in BOOLEAN /\ msgs[s].subFailed \subseteq 1..2
  /\ round \in 0..Len(msgs)
  /\ at \in (1..MaxMessages + 1) \X (1..2)
  /\ authorized \in BOOLEAN
  /\ sent \in Seq(Kinds) /\ decoded \in 0..Len(sent)
  /\ \A k \in DOMAIN out : out[k].to \in 1..decoded
  /\ handed \subseteq Commands
  /\ fwd \in {"open", "closed"} /\ ring \in BOOLEAN
  /\ asked \subseteq Parcels /\ lost \subseteq asked
  /\ crashed \in {"no", "forward", "encode", "reset"}

-----------------------------------------------------------------------------
(* Messages *)

\* a message from the pool: PutMsgs clears what it gives back
FreshMessage == [req |-> << >>, reqNum |-> 0, subs |-> 0, failed |-> FALSE,
                 subFailed |-> {}]

IsBatch(m) == m.reqNum > 1

\* the m.subs[:m.reqNum] of Err and ResetSubs is out of range
SlicePanics(m) == IsBatch(m) /\ m.subs < m.reqNum

ResetSubs(m) ==
  IF IsBatch(m) THEN [m EXCEPT !.reqNum = 0, !.subFailed = @ \ (1..m.reqNum)] ELSE m

\* the request objects stay where they are
Reset(m) == [m EXCEPT !.reqNum = 0, !.failed = FALSE]

\* variant: Batch reuses sub-messages and appends none
BatchReusesOnly(m) == m

\* Batch: one sub-message for every request, new ones appended
Batch(m) == [m EXCEPT !.subs = Max({@, m.reqNum})]

Init ==
  /\ front \in Fronts
  /\ pc = "decode"
  /\ msgs = [s \in 1..Concurrent |-> FreshMessage]
  /\ round = 0 /\ at = <<1, 1>>
  /\ authorized = ~Redis
  /\ sent = << >> /\ decoded = 0 /\ out = << >>
  /\ handed = {}
  /\ fwd = "open" /\ ring = TRUE
  /\ Pipe!Init
  /\ lost = {}
  /\ crashed = "no"

-----------------------------------------------------------------------------
(* Decoding *)

KeysOf(kind) == CASE kind = "two" -> 2 [] kind = "none" -> 0 [] OTHER -> 1

\* a reused redis object keeps its old reply; a memcache object keeps replies and
\* request data in the same field
ReplyField(m, j) ==
  IF ~Redis THEN Raw ELSE IF j <= Len(m.req) THEN m.req[j].reply ELSE None

\* decode of request id: NextReq hands out the objects of earlier rounds
Decoded(m, id) ==
  LET n == KeysOf(sent[id])
  IN [m EXCEPT
       !.req = [j \in 1..Max({Len(m.req), m.reqNum + n}) |->
                 IF j \in (m.reqNum + 1)..(m.reqNum + n)
                 THEN [cmd |-> <<id, j - m.reqNum>>, reply |-> ReplyField(m, j)]
                 ELSE m.req[j]],
       !.reqNum = @ + n]

\* deferHandle: the messages go back to the pool, the connection is closed
Close ==
  /\ pc' = "closed"
  /\ msgs' = << >> /\ round' = 0
  /\ UNCHANGED <<at, authorized, handed, env, pipes, crashed>>

\* a request that does not parse: what was decoded before it is dropped as well
Malformed(ids) == \E id \in ids : sent[id] = "bad"

\* every complete request in the read buffer, up to the number of messages
Decode ==
  LET n == Min({Len(sent) - decoded, Len(msgs)})
      ids == (decoded + 1)..(decoded + n)
  IN /\ pc = "decode" /\ n > 0
     /\ decoded' = decoded + n
     /\ UNCHANGED <<sent, out>>
     /\ \/ /\ Malformed(ids)
           /\ Close
        \/ /\ ~Malformed(ids)
           /\ msgs' = [s \in DOMAIN msgs |->
                        IF s <= n THEN Decoded(msgs[s], decoded + s) ELSE msgs[s]]
           /\ round' = n
           /\ pc' = "check"
           /\ UNCHANGED <<at, authorized, handed, env, pipes, crashed>>

\* the client closed the connection, or the read timed out
ReadFails ==
  /\ pc = "decode" /\ decoded = Len(sent)
  /\ Close
  /\ UNCHANGED <<client, out>>

\* the request decoded into message s this round
Serves(s) == decoded - round + s

\* the kind of request that m.Request() was last used for
KindOf(m) == sent[m.req[1].cmd[1]]

\* CmdCheck looks at the first message, and at its first request object
CmdCheck ==
  LET req == msgs[1].req
      kind == KindOf(msgs[1])
  IN /\ pc = "check"
     /\ UNCHANGED client
     /\ \/ /\ Redis /\ req = << >>
           /\ Close
           /\ UNCHANGED out
        \/ /\ Redis => req # << >>
           /\ IF Redis /\ kind \in {"auth", "badauth", "ping"}
              THEN /\ out' = Append(out, [to |-> Serves(1), body |-> <<req[1].cmd>>])
                   /\ authorized' = IF kind = "ping" THEN authorized ELSE kind = "auth"
                   /\ pc' = "flush"
              ELSE /\ pc' = IF authorized THEN "enter" ELSE "flush"
                   /\ UNCHANGED <<out, authorized>>
           /\ UNCHANGED <<msgs, round, at, handed, env, pipes, crashed>>

-----------------------------------------------------------------------------
(* Forwarding *)

\* Forward looks at the state once; the handler ignores the error it returns
Enter ==
  /\ pc = "enter"
  /\ pc' = IF fwd = "closed" THEN "wait" ELSE "push"
  /\ at' = <<1, 1>>
  /\ UNCHANGED <<msgs, round, authorized, client, out, handed, env, pipes,
                 crashed>>

Panic(where) ==
  /\ crashed' = where
  /\ UNCHANGED <<pc, msgs, round, at, authorized, client, out, handed, env,
                 pipes>>

\* one turn of Forward's loops: find the node's pipe and Push
Forward ==
  LET s == at[1]
      m == msgs[s]
      part == IF IsBatch(m) THEN at[2] ELSE 0
      cmd == m.req[ObjectOf(<<s, part>>)].cmd
      batched == IF IsBatch(m) THEN Batch(m) ELSE m
      more == part # 0 /\ part < m.reqNum
  IN /\ pc = "push"
     /\ \/ /\ m.req = << >>
           /\ Panic("forward")
        \/ /\ m.req # << >> /\ ~ring
           /\ msgs' = [msgs EXCEPT ![s] = [batched EXCEPT !.failed = TRUE]]
           /\ pc' = "wait"
           /\ UNCHANGED <<round, at, authorized, client, out, handed, env,
                          pipes, crashed>>
        \/ /\ m.req # << >> /\ ring
           /\ Pipe!Push(<<s, part>>, cmd)
           /\ msgs' = [msgs EXCEPT ![s] = batched]
           /\ handed' = handed \cup {cmd}
           /\ at' = IF more THEN <<s, part + 1>> ELSE <<s + 1, 1>>
           /\ pc' = IF ~more /\ s = round THEN "wait" ELSE "push"
           /\ UNCHANGED <<round, authorized, client, out, env, lost, crashed>>

\* message m with the answer to its parcel p: a reply, or an error of the message
\* or of the sub-message
Answered(m, p, a) ==
  IF a # Error THEN [m EXCEPT !.req[ObjectOf(p)].reply = a]
  ELSE IF p[2] = 0 THEN [m EXCEPT !.failed = TRUE]
  ELSE [m EXCEPT !.subFailed = @ \cup {ObjectOf(p)}]

\* a pipe marks a message done, with the node's reply or an error
Done(p) ==
  /\ p \notin lost
  /\ Pipe!Done(p)
  /\ msgs' = [msgs EXCEPT ![p[1]] = Answered(@, p, answer'[p])]
  /\ UNCHANGED <<pc, round, at, authorized, client, out, handed, env, lost,
                 crashed>>

\* variant: the handler does not wait
NoWait == TRUE

AllDone == asked = {}

\* wg.Wait
Wait ==
  /\ pc = "wait" /\ AllDone
  /\ pc' = "encode" /\ at' = <<1, 1>>
  /\ UNCHANGED <<msgs, round, authorized, client, out, handed, env, pipes,
                 crashed>>

-----------------------------------------------------------------------------
(* Encoding *)

\* variant: Err does not look at the sub-messages
ErrOfBatchOnly(m) == m.failed

\* Message.Err of a message that does not panic
HasError(m) == m.failed \/ (IsBatch(m) /\ m.subFailed \cap (1..m.reqNum) # {})

\* the merged replies; with redis a request object decides by the kind it was
\* last used for whether the replies are merged
Body(m) ==
  IF m.reqNum > 0 THEN [j \in 1..m.reqNum |-> m.req[j].reply]
  ELSE IF Redis /\ KindOf(m) = "two" THEN << >> ELSE <<m.req[1].reply>>

\* the memcache requests without a reply; quit ends the connection (ErrQuit)
Silent(kind) == kind \in {"noreply", "quit"}

\* Encode writes an error reply: the message failed, or (memcache) has no request
ErrorReply(m) == HasError(m) \/ (~Redis /\ m.req = << >>)

\* Encode returns an error after it wrote an error reply (redis), or without a
\* reply: ErrBadAssert, ErrQuit
EncodeFails(m) ==
  IF Redis THEN HasError(m) \/ m.req = << >>
  ELSE ~ErrorReply(m) /\ KindOf(m) = "quit"

\* mergeCount (DEL and EXISTS, with redis): the reply of a node that is not a
\* number, an error for one, ends the connection without a reply (ErrBadCount)
MergeCountFails(m) ==
  Redis /\ ~HasError(m) /\ m.reqNum > 0 /\ KindOf(m) \in {"one", "two"}

\* variant: the last message of the round is not encoded
StopsEarly(s) == s >= round - 1

LastEncoded(s) == s = round

Encode ==
  LET s == at[1]
      m == msgs[s]
      ends == EncodeFails(m)
  IN /\ pc = "encode"
     /\ \/ /\ ~m.failed /\ SlicePanics(m)
           /\ Panic("encode")
        \/ /\ ~SlicePanics(m) /\ MergeCountFails(m)
           /\ UNCHANGED <<client, out>> /\ Close
        \/ /\ m.failed \/ ~SlicePanics(m)
           /\ out' = IF ErrorReply(m) THEN Append(out, [to |-> Serves(s), body |-> Error])
                     ELSE IF ends \/ Silent(KindOf(m)) THEN out
                     ELSE Append(out, [to |-> Serves(s), body |-> Body(m)])
           /\ UNCHANGED client
           /\ \/ ends /\ Close
              \/ /\ ~ends
                 /\ at' = <<s + 1, 1>>
                 /\ pc' = IF LastEncoded(s) THEN "flush" ELSE "encode"
                 /\ UNCHANGED <<msgs, round, authorized, handed, env, pipes,
                                crashed>>

\* allocMaxConcurrent: every message was used, and there may be more of them
Grows(n) == n < MaxConcurrent /\ n = round

\* Flush, then ResetSubs and Reset of the round's messages, then the growth
Flush ==
  /\ pc = "flush"
  /\ \/ Close /\ UNCHANGED <<client, out>>
     \/ /\ \E s \in 1..round : SlicePanics(msgs[s])
        /\ Panic("reset")
     \/ /\ \A s \in 1..round : ~SlicePanics(msgs[s])
        /\ msgs' = IF Grows(Len(msgs))
                   THEN [s \in 1..(Concurrent * Len(msgs)) |-> FreshMessage]
                   ELSE [s \in DOMAIN msgs |->
                          IF s <= round THEN Reset(ResetSubs(msgs[s])) ELSE msgs[s]]
        /\ round' = 0 /\ pc' = "decode"
        /\ UNCHANGED <<at, authorized, client, out, handed, env, pipes, crashed>>

-----------------------------------------------------------------------------
(* The rest of the proxy and the client *)

\* a request arrives in the read buffer; one that arrives during a round is seen
\* by nobody before the round ends
Send(kind) ==
  /\ pc = "decode" /\ Len(sent) < MaxSent
  /\ sent' = Append(sent, kind)
  /\ UNCHANGED <<pc, msgs, round, at, authorized, decoded, out, handed, env,
                 pipes, crashed>>

\* the pingers eject the last node, or put one back
RingChanges ==
  /\ MayEject
  /\ ring' = ~ring
  /\ UNCHANGED <<pc, msgs, round, at, authorized, client, out, handed, fwd,
                 pipes, crashed>>

CloseForwarder ==
  /\ MayClose /\ fwd = "open"
  /\ fwd' = "closed"
  /\ UNCHANGED <<pc, msgs, round, at, authorized, client, out, handed, ring,
                 pipes, crashed>>

\* a closed pipe returns from its loop with messages in its batch
Abandon(p) ==
  /\ fwd = "closed" /\ p \in asked \ lost
  /\ lost' = lost \cup {p}
  /\ UNCHANGED <<pc, msgs, round, at, authorized, client, out, handed, env,
                 asked, ask, answer, crashed>>

Step == Decode \/ CmdCheck \/ Enter \/ Forward \/ Wait \/ Encode \/ Flush

Next ==
  /\ crashed = "no" /\ UNCHANGED front
  /\ \/ Step
     \/ ReadFails
     \/ \E kind \in Kinds : Send(kind)
     \/ \E p \in asked : Done(p) \/ Abandon(p)
     \/ RingChanges
     \/ CloseForwarder

Spec == Init /\ [][Next]_vars

\* the handler goroutine runs and the pipes keep their fair promise
FairSpec ==
  /\ Spec
  /\ WF_vars(crashed = "no" /\ Step /\ UNCHANGED front)
  /\ \A p \in Parcels : WF_vars(crashed = "no" /\ Done(p) /\ UNCHANGED front)

-----------------------------------------------------------------------------
(* Properties *)

\* a get without a key is answered, or not, as the request before it in the
\* message was
WantsReply(id) == sent[id] \notin {"noreply", "none"}

\* Every reply the client reads answers a later request than the one before,
\* and is an error or exactly the replies of the nodes to the commands of that
\* request (handle, Encode, Requests): no reply of an earlier round, of another
\* request or of nobody.  This ends when the forwarder is closed, whose messages
\* are encoded as they are; it leaves out multi-key commands without a key, which
\* are sent with what an earlier round left in the message, and a memcache cluster
\* whose pingers eject every node: Forward gives up at the first message, and
\* Encode, which ends a redis connection there, goes on to the next message.
OwnAnswers ==
  fwd = "open" /\ (MayEject => Redis) => \A k \in DOMAIN out :
    /\ k > 1 => out[k - 1].to < out[k].to
    /\ \/ out[k].body = Error \/ KeysOf(sent[out[k].to]) = 0
       \/ out[k].body = [j \in 1..KeysOf(sent[out[k].to]) |-> <<out[k].to, j>>]

\* While a pipe holds a message the handler does not reset it, give it back to
\* the pool or decode into it: the command in it stays (handle, wg.Wait).
HeldUntouched ==
  [][\A p \in asked \cap asked' :
       /\ p[1] \in DOMAIN msgs'
       /\ msgs'[p[1]].req[ObjectOf(p)].cmd = ask[p]]_vars

\* Forward, Err and ResetSubs panic only on a round with a command without a key,
\* or with a multi-key request of which nothing was forwarded: the round was not
\* forwarded, or Forward gave up before it.
PanicsOnlyUnforwarded ==
  crashed # "no" =>
    \E s \in 1..round :
      \/ KeysOf(sent[Serves(s)]) = 0
      \/ IsBatch(msgs[s]) /\ <<Serves(s), 1>> \notin handed

\* The round of every request the client has sent comes to its end (wg.Wait
\* returns), or the connection is closed.  A memcache request is then answered:
\* with the order of OwnAnswers, replies and requests stay in step.  (The redis
\* front end answers none of a round whose first request CmdCheck kept.)
\* Exceptions are a closed pipe that dropped a message without Done, and a panic.
EveryRequestEnds ==
  \A id \in 1..MaxSent :
    Len(sent) >= id ~> \/ pc = "closed" \/ crashed # "no" \/ lost # {}
                       \/ decoded >= id /\ ~WantsReply(id)
                       \/ decoded >= id /\ Redis /\ pc = "decode"
                       \/ \E k \in DOMAIN out : out[k].to = id

=============================================================================
