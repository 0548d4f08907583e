---------------------------- MODULE HandlerProofs ----------------------------
(***************************************************************************)
(* Proofs about Handler, for every set of listeners, number of requests,   *)
(* first size and limit of the handler's messages: what a pipe holds stays *)
(* untouched, the replies are a request's own, and where the process may   *)
(* panic.                                                                  *)
(***************************************************************************)
EXTENDS Handler, TLAPS

Message == [req : Seq(Object), reqNum : 0..2, subs : 0..2, failed : BOOLEAN,
            subFailed : SUBSET (1..2)]

Reply == [to : 1..MaxSent, body : {Error} \cup Seq(Replies)]

\* the round's messages are in use
InRound == pc \in {"check", "enter", "push", "wait", "encode", "flush"}

TypeInv ==
  /\ front \in Fronts /\ (InRound \/ pc \in {"decode", "closed"})
  /\ msgs \in Seq(Message) /\ Len(msgs) <= MaxMessages
  /\ round \in 0..Len(msgs) /\ at \in Nat \X (1..2)
  /\ sent \in Seq(Kinds) /\ Len(sent) <= MaxSent
  /\ decoded \in 0..Len(sent) /\ round <= decoded
  /\ out \in Seq(Reply)
  /\ fwd \in {"open", "closed"}
  /\ handed \subseteq Commands
  /\ asked \subseteq Parcels
  /\ ask \in [Parcels -> Commands \cup {None}]
  /\ answer \in [Parcels -> Commands \cup {None, Error}]

\* The request objects of message s beyond its reqNum are of earlier rounds.
OldBeyond(s) ==
  \A j \in (msgs[s].reqNum + 1)..Len(msgs[s].req) :
    msgs[s].req[j].cmd[1] <= decoded - round

\* message s of the round holds the request it was decoded from
Holds(s) ==
  /\ msgs[s].reqNum = KeysOf(sent[Serves(s)])
  /\ msgs[s].reqNum <= Len(msgs[s].req)
  /\ \A j \in 1..msgs[s].reqNum : msgs[s].req[j].cmd = <<Serves(s), j>>

\* the messages of the round, and those that wait for a later one
MessageInv ==
  /\ InRound => round > 0
  /\ ~InRound => round = 0
  /\ \A s \in 1..Len(msgs) : OldBeyond(s)
  /\ \A s \in 1..round : Holds(s)
  /\ \A s \in (round + 1)..Len(msgs) : msgs[s].reqNum = 0

\* what the pipes hold is a message of the round with the command handed over
HeldInv ==
  /\ asked # {} => pc \in {"push", "wait"}
  /\ \A p \in asked :
       /\ p[1] \in 1..round /\ ObjectOf(p) <= Len(msgs[p[1]].req)
       /\ p[2] # 0 => IsBatch(msgs[p[1]])
       /\ p[2] = 0 => ~IsBatch(msgs[p[1]])
       /\ p[2] <= msgs[p[1]].reqNum
       /\ ask[p] = msgs[p[1]].req[ObjectOf(p)].cmd

\* Forward's position
PositionInv ==
  /\ pc = "push" => /\ at[1] \in 1..round
                    /\ at[2] = 1 \/ at[2] <= msgs[at[1]].reqNum
  /\ pc = "encode" => at[1] \in 1..round

\* what was handed over was decoded, and Batch made its sub-messages
HandedInv ==
  /\ \A c \in handed : c[1] <= decoded
  /\ \A s \in 1..round : <<Serves(s), 1>> \in handed /\ IsBatch(msgs[s])
                           => ~SlicePanics(msgs[s])

Part(s, j) == IF IsBatch(msgs[s]) THEN <<s, j>> ELSE <<s, 0>>

\* request j of message s has its own reply or an error
Replied(s, j) ==
  \/ msgs[s].failed \/ (IsBatch(msgs[s]) /\ j \in msgs[s].subFailed)
  \/ msgs[s].req[j].reply = <<Serves(s), j>>

\* Forward has been there
Passed(s, j) == s < at[1] \/ (s = at[1] /\ j < at[2])

\* as long as the forwarder is open: what Forward passed is with a pipe or has a
\* reply, and Forward passed everything, or failed the message where it stopped
ForwardInv ==
  fwd = "open" =>
    /\ pc \in {"push", "wait"} =>
         \A s \in 1..round : \A j \in 1..msgs[s].reqNum :
           Passed(s, j) => Part(s, j) \in asked \/ Replied(s, j)
    /\ pc = "wait" =>
         \/ at = <<round + 1, 1>>
         \/ MayEject /\ at[1] \in 1..round /\ msgs[at[1]].failed

\* Encode meets the message where Forward stopped before any that has no reply
EncodeInv ==
  fwd = "open" /\ pc = "encode" =>
    /\ \A s \in 1..round :
         \/ \A j \in 1..msgs[s].reqNum : Replied(s, j)
         \/ MayEject /\ \E f \in 1..s : msgs[f].failed
    /\ Redis => \A s \in 1..(at[1] - 1) : ~msgs[s].failed

\* the requests that may have been answered
UpTo ==
  IF pc = "encode" THEN Serves(at[1]) - 1
  ELSE IF pc \in {"check", "enter", "push", "wait"} THEN decoded - round
  ELSE decoded

OutInv ==
  /\ \A k \in 1..Len(out) : out[k].to <= UpTo
  /\ OwnAnswers

PanicInv ==
  /\ crashed \in {"no", "forward", "encode", "reset"}
  /\ PanicsOnlyUnforwarded

IInv ==
  /\ TypeInv /\ MessageInv /\ HeldInv /\ PositionInv /\ HandedInv
  /\ ForwardInv /\ EncodeInv /\ OutInv /\ PanicInv

\* the hash ring has a node, or the pingers may have ejected the last one
RingInv == ring \/ MayEject

Inv == IInv /\ RingInv
-----------------------------------------------------------------------------
(* The operators *)

\* The empty sequence, and no other, has no elements.
LEMMA SeqEmpty ==
  ASSUME NEW S
  PROVE  << >> \in Seq(S) /\ \A q \in Seq(S) : Len(q) = 0 <=> q = << >>
OBVIOUS

\* The length, the domain and the elements of a sequence.
LEMMA SeqLength ==
  ASSUME NEW S, NEW q \in Seq(S)
  PROVE  /\ Len(q) \in Nat /\ DOMAIN q = 1..Len(q)
         /\ \A n \in 1..Len(q) : q[n] \in S
OBVIOUS

\* A sequence with one element replaced.
LEMMA SeqReplace ==
  ASSUME NEW S, NEW q \in Seq(S), NEW n \in 1..Len(q), NEW x \in S
  PROVE  LET r == [q EXCEPT ![n] = x]
         IN /\ r \in Seq(S) /\ Len(r) = Len(q)
            /\ \A k \in 1..Len(q) : r[k] = IF k = n THEN x ELSE q[k]
OBVIOUS

\* A sequence with one more element.
LEMMA SeqAppend ==
  ASSUME NEW S, NEW q \in Seq(S), NEW x \in S
  PROVE  LET r == Append(q, x)
         IN /\ r \in Seq(S) /\ Len(r) = Len(q) + 1
            /\ r[Len(q) + 1] = x /\ \A k \in 1..Len(q) : r[k] = q[k]
OBVIOUS

\* The CHOOSE behind Max finds the larger of two numbers.
LEMMA MaxOfTwo ==
  ASSUME NEW a \in Int, NEW b \in Int
  PROVE  Max({a, b}) = IF a >= b THEN a ELSE b
BY SMT DEF Max

\* The CHOOSE behind Min finds the smaller of two numbers.
LEMMA MinOfTwo ==
  ASSUME NEW a \in Int, NEW b \in Int
  PROVE  Min({a, b}) = IF a <= b THEN a ELSE b
BY SMT DEF Min

\* A request has at most two keys, and a command CmdCheck keeps has one.
LEMMA KeysOfKind ==
  ASSUME NEW kind
  PROVE  /\ KeysOf(kind) \in 0..2
         /\ kind \in {"auth", "badauth", "ping"} => KeysOf(kind) = 1
BY SMT DEF KeysOf

\* The object of a parcel is the first, or that of the sub-message.
LEMMA ParcelFields ==
  ASSUME NEW p \in Parcels
  PROVE  /\ p = <<p[1], p[2]>> /\ p[1] \in 1..MaxMessages /\ p[2] \in 0..2
         /\ ObjectOf(p) = (IF p[2] >= 1 THEN p[2] ELSE 1) /\ ObjectOf(p) \in 1..2
<1>1. p = <<p[1], p[2]>> /\ p[1] \in 1..MaxMessages /\ p[2] \in 0..2
  BY DEF Parcels
<1>2. ObjectOf(p) = IF p[2] >= 1 THEN p[2] ELSE 1
  BY <1>1, MaxOfTwo DEF ObjectOf
<1> QED BY <1>1, <1>2

\* A sequence of messages with one of them replaced (every assignment to a field
\* of msgs[s]).
LEMMA ReplaceMessage ==
  ASSUME NEW ms \in Seq(Message), NEW s \in 1..Len(ms), NEW m \in Message
  PROVE  /\ [ms EXCEPT ![s] = m] \in Seq(Message)
         /\ Len([ms EXCEPT ![s] = m]) = Len(ms)
         /\ [ms EXCEPT ![s] = m][s] = m
         /\ \A t \in 1..Len(ms) : t # s => [ms EXCEPT ![s] = m][t] = ms[t]
BY SeqReplace

\* The fields of a message.
LEMMA MessageFields ==
  ASSUME NEW m \in Message
  PROVE  /\ m.req \in Seq(Object) /\ m.reqNum \in 0..2 /\ m.subs \in 0..2
         /\ m.failed \in BOOLEAN /\ m.subFailed \subseteq 1..2
         /\ Len(m.req) \in Nat
         /\ \A j \in 1..Len(m.req) : /\ m.req[j] \in Object
                                     /\ m.req[j].cmd \in Commands
                                     /\ m.req[j].reply \in Replies
                                     /\ m.req[j].cmd[1] \in 1..MaxSent
<1>1. /\ m.req \in Seq(Object) /\ m.reqNum \in 0..2 /\ m.subs \in 0..2
      /\ m.failed \in BOOLEAN /\ m.subFailed \subseteq 1..2
  BY Zenon DEF Message
<1>2. Len(m.req) \in Nat
  BY <1>1, SeqLength, Zenon
<1>3. ASSUME NEW j \in 1..Len(m.req)  PROVE m.req[j] \in Object
  BY <1>1, SeqLength, Zenon
<1>4. ASSUME NEW o \in Object
      PROVE  o.cmd \in Commands /\ o.reply \in Replies /\ o.cmd[1] \in 1..MaxSent
  BY Zenon DEF Object, Commands
<1> QED BY <1>1, <1>2, <1>3, <1>4, Zenon

\* A message from the pool.
LEMMA FreshFields ==
  /\ FreshMessage \in Message
  /\ FreshMessage.req = << >> /\ FreshMessage.reqNum = 0
<1>1. << >> \in Seq(Object)
  BY SeqEmpty, Zenon
<1> QED BY <1>1, SMT DEF FreshMessage, Message

\* Batch leaves a message with a sub-message for every request, and its requests
\* as they are.
LEMMA BatchFields ==
  ASSUME NEW m \in Message
  PROVE  /\ Batch(m) \in Message
         /\ Batch(m).req = m.req /\ Batch(m).reqNum = m.reqNum
         /\ Batch(m).failed = m.failed /\ Batch(m).subFailed = m.subFailed
         /\ Batch(m).subs >= m.reqNum
<1> DEFINE k == Max({m.subs, m.reqNum})
<1>1. m.subs \in 0..2 /\ m.reqNum \in 0..2
  BY MessageFields, Zenon
<1>2. k \in 0..2 /\ k >= m.reqNum
  BY <1>1, MaxOfTwo
<1>3. Batch(m) = [m EXCEPT !.subs = k]
  BY Zenon DEF Batch
<1> HIDE DEF k
<1> QED BY <1>2, <1>3, SMT DEF Message

\* What ResetSubs and Reset leave of a message: the request objects.
LEMMA ResetFields ==
  ASSUME NEW m \in Message
  PROVE  /\ Reset(ResetSubs(m)) \in Message
         /\ Reset(ResetSubs(m)).req = m.req /\ Reset(ResetSubs(m)).reqNum = 0
<1>1. ResetSubs(m) \in Message /\ ResetSubs(m).req = m.req
  <2> DEFINE e == m.subFailed \ (1..m.reqNum)
  <2>1. e \in SUBSET (1..2) /\ 0 \in 0..2
    BY MessageFields
  <2>2. ResetSubs(m) = IF IsBatch(m) THEN [m EXCEPT !.reqNum = 0, !.subFailed = e]
                       ELSE m
    BY Zenon DEF ResetSubs
  <2> HIDE DEF e
  <2> QED BY <2>1, <2>2, Zenon DEF Message
<1>2. ASSUME NEW n \in Message
      PROVE  Reset(n) \in Message /\ Reset(n).req = n.req /\ Reset(n).reqNum = 0
  <2>1. 0 \in 0..2 /\ FALSE \in BOOLEAN
    BY SMT
  <2> QED BY <2>1, Zenon DEF Message, Reset
<1> QED BY <1>1, <1>2, Zenon

\* Decoding a request of sent into a message without one: its commands are in the
\* first request objects, and the other objects are the message's own.
LEMMA DecodedFields ==
  ASSUME TypeInv, NEW m \in Message, m.reqNum = 0, NEW id \in 1..Len(sent)
  PROVE  /\ Decoded(m, id) \in Message
         /\ Decoded(m, id).reqNum = KeysOf(sent[id])
         /\ KeysOf(sent[id]) <= Len(Decoded(m, id).req)
         /\ \A j \in 1..KeysOf(sent[id]) : Decoded(m, id).req[j].cmd = <<id, j>>
         /\ \A j \in (KeysOf(sent[id]) + 1)..Len(Decoded(m, id).req) :
              j \in 1..Len(m.req) /\ Decoded(m, id).req[j] = m.req[j]
<1> DEFINE n == KeysOf(sent[id])
           top == Max({Len(m.req), m.reqNum + n})
           obj(j) == IF j \in (m.reqNum + 1)..(m.reqNum + n)
                     THEN [cmd |-> <<id, j - m.reqNum>>, reply |-> ReplyField(m, j)]
                     ELSE m.req[j]
           objs == [j \in 1..top |-> obj(j)]
<1>1. n \in 0..2 /\ Len(m.req) \in Nat
  BY KeysOfKind, MessageFields, Zenon
<1>2. top \in Nat /\ top >= n /\ top >= Len(m.req) /\ (top > n => top = Len(m.req))
  <2> HIDE DEF n
  <2> QED BY <1>1, MaxOfTwo, SMTT(40)
<1>3. ASSUME NEW j \in 1..top, j <= n
      PROVE  obj(j) \in Object /\ obj(j).cmd = <<id, j>>
  <2>1. ReplyField(m, j) \in Replies
    BY <1>1, <1>2, <1>3, MessageFields DEF ReplyField, Replies
  <2>2. id \in 1..MaxSent
    BY SeqLength, HandlerAssumption DEF TypeInv
  <2> HIDE DEF n
  <2>3. j \in (m.reqNum + 1)..(m.reqNum + n) /\ j - m.reqNum = j /\ j \in 1..2
    BY <1>1, <1>2, <1>3
  <2>4. obj(j) = [cmd |-> <<id, j>>, reply |-> ReplyField(m, j)]
    BY <2>3, Zenon
  <2> QED BY <2>1, <2>2, <2>3, <2>4, SMT DEF Object, Commands
<1>4. ASSUME NEW j \in 1..top, j > n
      PROVE  obj(j) \in Object /\ obj(j) = m.req[j] /\ j \in 1..Len(m.req)
  <2> HIDE DEF n, top
  <2>1. j \in 1..Len(m.req) /\ j \notin (m.reqNum + 1)..(m.reqNum + n)
    BY <1>1, <1>2, <1>4
  <2> QED BY <2>1, MessageFields, Zenon
<1> HIDE DEF n, top, obj
<1>5. objs \in Seq(Object) /\ Len(objs) = top /\ \A j \in 1..top : objs[j] = obj(j)
  <2>1. \A j \in 1..top : obj(j) \in Object
    BY <1>1, <1>2, <1>3, <1>4
  <2> QED BY <1>2, <2>1, SMT
<1>6. Decoded(m, id) = [m EXCEPT !.req = objs, !.reqNum = n]
  <2>1. m.reqNum + n = n
    BY <1>1
  <2> QED BY <2>1, Zenon DEF Decoded, n, top, obj
<1> HIDE DEF objs
<1>7. /\ Decoded(m, id) \in Message
      /\ Decoded(m, id).req = objs /\ Decoded(m, id).reqNum = n
  BY <1>1, <1>5, <1>6, Zenon DEF Message
<1>8. \A j \in 1..n : j \in 1..top /\ objs[j].cmd = <<id, j>>
  BY <1>1, <1>2, <1>3, <1>5
<1>9. \A j \in (n + 1)..top : j \in 1..Len(m.req) /\ objs[j] = m.req[j]
  BY <1>1, <1>2, <1>4, <1>5
<1> QED BY <1>2, <1>5, <1>7, <1>8, <1>9, Zenon DEF n

-----------------------------------------------------------------------------
(* The inductive invariant *)

\* The messages of Init, and of allocMaxConcurrent.
LEMMA FreshMessages ==
  ASSUME NEW n \in Nat
  PROVE  LET ms == [s \in 1..n |-> FreshMessage]
         IN /\ ms \in Seq(Message) /\ Len(ms) = n
            /\ \A s \in 1..n : ms[s].req = << >> /\ ms[s].reqNum = 0
<1> DEFINE ms == [s \in 1..n |-> FreshMessage]
<1>1. FreshMessage \in Message /\ FreshMessage.req = << >> /\ FreshMessage.reqNum = 0
  BY FreshFields, Zenon
<1>2. ms \in Seq(Message) /\ Len(ms) = n /\ \A s \in 1..n : ms[s] = FreshMessage
  BY <1>1, SMT
<1> QED BY <1>1, <1>2, Zenon

\* A fresh message has no request objects, of this round or of an earlier one.
LEMMA NothingBeyond ==
  ASSUME NEW m \in Message, m.req = << >>
  PROVE  (m.reqNum + 1)..Len(m.req) = {}
BY MessageFields, SMT

\* The bound on the messages: concurrent of them, or concurrent times fewer than
\* maxConcurrent.
LEMMA Growth ==
  /\ Concurrent \in Nat /\ Concurrent <= MaxMessages /\ MaxMessages \in Nat
  /\ \A n \in Nat : n < MaxConcurrent => /\ Concurrent * n \in Nat
                                         /\ Concurrent * n <= MaxMessages
<1>1. /\ Concurrent \in Nat /\ Concurrent >= 1
      /\ MaxConcurrent \in Nat /\ MaxConcurrent >= 1
  BY HandlerAssumption
<1>2. ASSUME NEW a \in Nat, NEW b \in Nat, NEW c \in Nat, a <= b
      PROVE  c * a <= c * b /\ c * a \in Nat /\ c * b \in Nat
  <2>1. PICK d \in Nat : b = a + d
    BY <1>2
  <2>2. c * b = c * a + c * d /\ c * d \in Nat /\ c * a \in Nat
    BY <2>1
  <2> QED BY <2>2
<1>3. Concurrent * 1 = Concurrent
  BY <1>1
<1> QED BY <1>1, <1>2, <1>3 DEF MaxMessages

\* The handler starts with messages from the pool.
LEMMA InitInv == Init => IInv
<1> SUFFICES ASSUME Init  PROVE IInv
  OBVIOUS
<1> USE DEF Init
<1>1. /\ msgs \in Seq(Message) /\ Len(msgs) = Concurrent
      /\ \A s \in 1..Len(msgs) : msgs[s].req = << >> /\ msgs[s].reqNum = 0
  BY FreshMessages, Growth, Zenon
<1>2. asked = {} /\ ask \in [Parcels -> Commands \cup {None}]
      /\ answer \in [Parcels -> Commands \cup {None, Error}]
  BY Zenon DEF Pipe!Init
<1>3. TypeInv
  <2>1. /\ sent \in Seq(Kinds) /\ Len(sent) = 0
        /\ out \in Seq(Reply) /\ at \in Nat \X (1..2)
    BY SeqEmpty, SMT
  <2>2. 0 \in 0..Len(msgs) /\ 0 \in 0..Len(sent) /\ 0 <= MaxSent /\ 0 <= 0
    BY <1>1, <2>1, Growth, HandlerAssumption
  <2>3. Len(msgs) <= MaxMessages
    BY <1>1, Growth, Zenon
  <2> QED BY <1>1, <1>2, <2>1, <2>2, <2>3, Zenon DEF TypeInv
<1>4. MessageInv
  <2>1. ASSUME NEW s \in 1..Len(msgs)
        PROVE  (msgs[s].reqNum + 1)..Len(msgs[s].req) = {}
    BY <1>1, NothingBeyond, SeqLength, Zenon
  <2>2. 1..round = {} /\ (round + 1)..Len(msgs) = 1..Len(msgs)
    BY SMT
  <2> QED BY <1>1, <2>1, <2>2, Zenon DEF MessageInv, InRound, OldBeyond
<1>5. HeldInv /\ PositionInv
  BY <1>2, Zenon DEF HeldInv, PositionInv
<1>6. HandedInv
  <2>1. 1..round = {}
    BY SMT
  <2> QED BY <2>1, Zenon DEF HandedInv
<1>7. ForwardInv /\ EncodeInv
  BY Zenon DEF ForwardInv, EncodeInv
<1>8. OutInv
  <2>1. 1..Len(out) = {} /\ DOMAIN out = {}
    BY SMT
  <2> QED BY <2>1, Zenon DEF OutInv, OwnAnswers
<1>9. PanicInv
  BY Zenon DEF PanicInv, PanicsOnlyUnforwarded
<1> QED BY <1>3, <1>4, <1>5, <1>6, <1>7, <1>8, <1>9, Zenon DEF IInv

\* A step that leaves the messages and the pipes alone: the loops of the handler
\* moving on.
LEMMA QuietStep ==
  ASSUME IInv, crashed = "no",
         UNCHANGED <<front, msgs, round, client, handed, asked, ask, answer, crashed>>,
         at' \in Nat \X (1..2), out' \in Seq(Reply), fwd' \in {"open", "closed"},
         InRound' <=> InRound, InRound' \/ pc' \in {"decode", "closed"},
         asked # {} => pc' \in {"push", "wait"}
  PROVE  TypeInv' /\ MessageInv' /\ HeldInv' /\ HandedInv' /\ PanicInv'
<1>1. TypeInv'
  BY Zenon DEF IInv, TypeInv, client, Kinds
<1>2. MessageInv'
  BY Zenon DEF IInv, MessageInv, OldBeyond, Holds, Serves, client
<1>3. HeldInv'
  BY Zenon DEF IInv, HeldInv, IsBatch, ObjectOf
<1>4. HandedInv'
  BY Zenon DEF IInv, HandedInv, IsBatch, SlicePanics, Serves, client
<1>5. PanicInv'
  BY Zenon DEF PanicInv, PanicsOnlyUnforwarded
<1> QED BY <1>1, <1>2, <1>3, <1>4, <1>5, Zenon

\* Err, ResetSubs or Forward panics: everything stays as it was.
LEMMA PanicStep ==
  ASSUME IInv, front' = front, NEW where \in {"forward", "encode", "reset"}, Panic(where),
         \E s \in 1..round : \/ KeysOf(sent[Serves(s)]) = 0
                             \/ IsBatch(msgs[s]) /\ <<Serves(s), 1>> \notin handed
  PROVE  IInv'
<1> USE DEF Panic, client, env, pipes
<1>1. (TypeInv /\ MessageInv /\ HeldInv /\ HandedInv /\ PositionInv)'
  BY ZenonT(60) DEF IInv, TypeInv, Kinds, MessageInv, OldBeyond, Holds, Serves, HeldInv, IsBatch,
       ObjectOf, HandedInv, SlicePanics, PositionInv, InRound
<1>2. (ForwardInv /\ EncodeInv)'
  <2>1. ForwardInv'
    BY ZenonT(60) DEF IInv, ForwardInv, Passed, Part, Replied, IsBatch, Serves, MayEject
  <2>2. EncodeInv'
    BY ZenonT(60) DEF IInv, EncodeInv, Replied, IsBatch, Serves, MayEject, Redis
  <2> QED BY <2>1, <2>2, Zenon
<1>3. OutInv'
  BY ZenonT(60) DEF IInv, OutInv, OwnAnswers, UpTo, Serves, MayEject, Redis
<1>4. PanicInv'
  BY Zenon DEF PanicInv, PanicsOnlyUnforwarded, Serves, IsBatch
<1> QED BY <1>1, <1>2, <1>3, <1>4, Zenon DEF IInv

\* deferHandle: the pipes hold no message, and the messages go back to the pool.
LEMMA CloseStep ==
  ASSUME IInv, crashed = "no", front' = front, pc \notin {"push", "wait"}, Close,
         sent' = sent, decoded' \in decoded..Len(sent), out' \in Seq(Reply),
         \A k \in 1..Len(out') : out'[k].to <= decoded', OwnAnswers'
  PROVE  IInv'
<1> USE DEF Close, env, pipes
<1>1. asked = {} /\ asked' = {}
  BY Zenon DEF IInv, HeldInv
<1>2. TypeInv'
  <2>1. /\ msgs' \in Seq(Message) /\ Len(msgs') <= MaxMessages /\ round' \in 0..Len(msgs')
        /\ decoded' \in 0..Len(sent') /\ round' <= decoded'
    BY SeqEmpty, Growth, SMT DEF IInv, TypeInv
  <2> QED BY <1>1, <2>1, Zenon DEF IInv, TypeInv, Kinds, InRound
<1>3. MessageInv'
  <2>1. 1..Len(msgs') = {} /\ 1..round' = {} /\ (round' + 1)..Len(msgs') = {}
    BY SMT
  <2> QED BY <2>1, Zenon DEF MessageInv, InRound
<1>4. (HeldInv /\ PositionInv /\ ForwardInv /\ EncodeInv /\ PanicInv)'
  BY <1>1, Zenon DEF HeldInv, PositionInv, ForwardInv, EncodeInv, PanicInv,
       PanicsOnlyUnforwarded
<1>5. HandedInv'
  <2>1. 1..round' = {}
    BY SMT
  <2>2. ASSUME NEW c \in handed  PROVE c[1] <= decoded'
    <3>1. c[1] <= decoded /\ c[1] \in Int /\ decoded \in Int
      BY DEF IInv, HandedInv, TypeInv, Commands
    <3> QED BY <3>1
  <2> QED BY <2>1, <2>2, Zenon DEF HandedInv
<1>6. OutInv'
  BY Zenon DEF OutInv, UpTo
<1> QED BY <1>2, <1>3, <1>4, <1>5, <1>6, Zenon DEF IInv

\* The replies that are out stay a request's own replies when nothing is encoded.
LEMMA OutStays ==
  ASSUME IInv, UNCHANGED <<front, sent, out>>, fwd' = "open" => fwd = "open"
  PROVE  OwnAnswers'
BY Zenon DEF IInv, OutInv, OwnAnswers, MayEject, Redis

\* Bounds on the replies that are out, as numbers.
LEMMA OutNumbers ==
  ASSUME IInv
  PROVE  /\ Len(out) \in Nat /\ DOMAIN out = 1..Len(out)
         /\ \A k \in 1..Len(out) : out[k].to \in 1..MaxSent
<1>1. out \in Seq(Reply)
  BY Zenon DEF IInv, TypeInv
<1>2. \A k \in 1..Len(out) : out[k] \in Reply
  BY <1>1, SeqLength, Zenon
<1>3. \A r \in Reply : r.to \in 1..MaxSent
  BY Zenon DEF Reply
<1> QED BY <1>1, <1>2, <1>3, SeqLength, Zenon

\* The numbers of the round.
LEMMA RoundNumbers ==
  ASSUME IInv
  PROVE  /\ Len(msgs) \in Nat /\ round \in Nat /\ decoded \in Nat /\ Len(sent) \in Nat
         /\ round <= Len(msgs) /\ round <= decoded /\ decoded <= Len(sent)
         /\ Len(sent) <= MaxSent /\ MaxSent \in Nat
         /\ at[1] \in Nat /\ at[2] \in 1..2 /\ at = <<at[1], at[2]>>
         /\ \A s \in 1..Len(msgs) : msgs[s] \in Message
         /\ \A s \in 1..round : /\ s \in 1..Len(msgs) /\ Serves(s) \in 1..Len(sent)
                                /\ Serves(s) <= decoded /\ Serves(s) > decoded - round
<1>1. Len(msgs) \in Nat /\ Len(sent) \in Nat /\ MaxSent \in Nat
  BY SeqLength, HandlerAssumption, Zenon DEF IInv, TypeInv
<1>2. round \in 0..Len(msgs) /\ decoded \in 0..Len(sent) /\ round <= decoded
      /\ Len(sent) <= MaxSent /\ at \in Nat \X (1..2)
  BY Zenon DEF IInv, TypeInv
<1>3. \A s \in 1..Len(msgs) : msgs[s] \in Message
  BY SeqLength, Zenon DEF IInv, TypeInv
<1> QED BY <1>1, <1>2, <1>3 DEF Serves

\* A round is read: Malformed closes the connection.
LEMMA MalformedStep ==
  ASSUME IInv, crashed = "no", front' = front, pc = "decode", Close,
         NEW n \in Nat, n <= Len(sent) - decoded, decoded' = decoded + n,
         UNCHANGED <<sent, out>>
  PROVE  IInv'
<1>1. decoded' \in decoded..Len(sent)
  BY RoundNumbers, SMTT(40)
<1>2. ASSUME NEW k \in 1..Len(out')  PROVE out'[k].to <= decoded'
  <2>1. out[k].to <= decoded
    BY Zenon DEF IInv, OutInv, UpTo
  <2> QED BY <2>1, <1>1, RoundNumbers, OutNumbers, SMTT(40)
<1>3. OwnAnswers'
  BY OutStays, Zenon DEF Close, env
<1>4. out' \in Seq(Reply)
  BY Zenon DEF IInv, TypeInv
<1> QED BY <1>1, <1>2, <1>3, <1>4, CloseStep, Zenon

\* The client goes away.
LEMMA ReadFailsStep ==
  ASSUME IInv, crashed = "no", front' = front, ReadFails
  PROVE  IInv'
<1>1. decoded' = decoded + 0 /\ 0 \in Nat /\ 0 <= Len(sent) - decoded
  BY RoundNumbers, SMTT(40) DEF ReadFails, client
<1> QED BY <1>1, MalformedStep, Zenon DEF ReadFails, client

\* A reply to a later request is appended.
LEMMA AppendReply ==
  ASSUME IInv, UNCHANGED <<front, sent, fwd>>,
         NEW to \in 1..Len(sent), NEW body \in {Error} \cup Seq(Replies),
         \A k \in 1..Len(out) : out[k].to < to,
         out' = Append(out, [to |-> to, body |-> body]),
         fwd = "open" /\ (MayEject => Redis) =>
           \/ body = Error \/ KeysOf(sent[to]) = 0
           \/ body = [j \in 1..KeysOf(sent[to]) |-> <<to, j>>]
  PROVE  /\ out' \in Seq(Reply) /\ OwnAnswers'
         /\ \A k \in 1..Len(out') : out'[k].to <= to
<1> DEFINE r == [to |-> to, body |-> body]
<1>1. r \in Reply /\ r.to = to /\ r.body = body
  <2>1. to \in 1..MaxSent
    BY RoundNumbers, SMTT(40)
  <2> QED BY <2>1, Zenon DEF Reply
<1> HIDE DEF r
<1>2. /\ out' \in Seq(Reply) /\ Len(out') = Len(out) + 1
      /\ \A k \in 1..Len(out) : out'[k] = out[k]
      /\ out'[Len(out) + 1] = r
  <2>1. out \in Seq(Reply) /\ out' = Append(out, r)
    BY Zenon DEF IInv, TypeInv, r
  <2> QED BY <1>1, <2>1, SeqAppend
<1>3. ASSUME NEW k \in 1..Len(out')  PROVE out'[k].to <= to
  BY <1>1, <1>2, OutNumbers, RoundNumbers, SMTT(40)
<1>4. ASSUME fwd = "open" /\ (MayEject => Redis), NEW k \in 1..Len(out')
      PROVE  /\ k > 1 => out'[k - 1].to < out'[k].to
             /\ \/ out'[k].body = Error \/ KeysOf(sent[out'[k].to]) = 0
                \/ out'[k].body = [j \in 1..KeysOf(sent[out'[k].to]) |-> <<out'[k].to, j>>]
  <2>1. CASE k = Len(out) + 1
    <3>1. out'[k] = r
      BY <1>2, <2>1, Zenon
    <3>2. ASSUME k > 1  PROVE out'[k - 1].to < out'[k].to
      <4>1. k - 1 \in 1..Len(out)
        BY <2>1, <3>2, OutNumbers, SMTT(40)
      <4>2. out[k - 1].to < to /\ out'[k - 1] = out[k - 1]
        BY <4>1, <1>2, Zenon
      <4> QED BY <4>2, <3>1, <1>1, Zenon
    <3> QED BY <3>1, <3>2, <1>1, <1>4, Zenon
  <2>2. CASE k # Len(out) + 1
    <3>1. k \in 1..Len(out) /\ (k > 1 => k - 1 \in 1..Len(out))
      BY <1>2, <2>2, OutNumbers, SMTT(40)
    <3>2. out'[k] = out[k] /\ (k > 1 => out'[k - 1] = out[k - 1])
      BY <3>1, <1>2, Zenon
    <3>3. k \in DOMAIN out
      BY <3>1, OutNumbers, Zenon
    <3> QED BY <3>2, <3>3, <1>4, Zenon DEF IInv, OutInv, OwnAnswers
  <2> QED BY <2>1, <2>2, Zenon
<1>5. DOMAIN out' = 1..Len(out')
  BY <1>2, SeqLength, Zenon
<1> HIDE DEF r
<1>6. OwnAnswers'
  BY <1>4, <1>5, Zenon DEF OwnAnswers, MayEject, Redis
<1> QED BY <1>2, <1>3, <1>6, Zenon

\* CmdCheck keeps a command for itself, ends the round or lets it go on.
LEMMA CmdCheckStep ==
  ASSUME IInv, crashed = "no", front' = front, CmdCheck
  PROVE  IInv'
<1> DEFINE req == msgs[1].req
           kind == KindOf(msgs[1])
<1>1. pc = "check" /\ round > 0 /\ asked = {} /\ UNCHANGED client
  BY Zenon DEF CmdCheck, IInv, MessageInv, InRound, HeldInv
<1>2. 1 \in 1..round /\ 1 \in 1..Len(msgs)
  BY <1>1, RoundNumbers, SMTT(40)
<1>3. Serves(1) \in 1..Len(sent) /\ Serves(1) <= decoded /\ Serves(1) > decoded - round
  BY <1>2, RoundNumbers, Zenon
<1>4. \A k \in 1..Len(out) : out[k].to <= decoded - round /\ out[k].to <= decoded
                              /\ out[k].to < Serves(1)
  <2>1. \A k \in 1..Len(out) : out[k].to <= decoded - round
    BY <1>1, Zenon DEF IInv, OutInv, UpTo
  <2> QED BY <2>1, <1>3, RoundNumbers, OutNumbers, SMTT(40)
<1>5. CASE Redis /\ req = << >> /\ Close /\ UNCHANGED out
  <2>1. decoded' \in decoded..Len(sent) /\ decoded' = decoded /\ sent' = sent
    BY <1>1, RoundNumbers, SMTT(40) DEF client
  <2>2. OwnAnswers' /\ out' \in Seq(Reply)
    BY <1>5, <2>1, OutStays, Zenon DEF Close, env, IInv, TypeInv
  <2> QED BY <1>1, <1>4, <1>5, <2>1, <2>2, CloseStep, Zenon
<1>6. CASE /\ Redis => req # << >>
           /\ IF Redis /\ kind \in {"auth", "badauth", "ping"}
              THEN /\ out' = Append(out, [to |-> Serves(1), body |-> <<req[1].cmd>>])
                   /\ authorized' = IF kind = "ping" THEN authorized ELSE kind = "auth"
                   /\ pc' = "flush"
              ELSE /\ pc' = IF authorized THEN "enter" ELSE "flush"
                   /\ UNCHANGED <<out, authorized>>
           /\ UNCHANGED <<msgs, round, at, handed, env, pipes, crashed>>
  <2>1. /\ UNCHANGED <<front, msgs, round, sent, decoded, handed, asked, ask, answer, crashed,
                       at, fwd>>
        /\ pc' \in {"enter", "flush"}
    BY <1>1, <1>6, Zenon DEF client, env, pipes
  <2>2. /\ out' \in Seq(Reply) /\ OwnAnswers'
        /\ \A k \in 1..Len(out') : out'[k].to <= decoded
        /\ pc' = "enter" => \A k \in 1..Len(out') : out'[k].to <= decoded - round
    <3>1. CASE Redis /\ kind \in {"auth", "badauth", "ping"}
      <4> DEFINE body == <<req[1].cmd>>
      <4>1. out' = Append(out, [to |-> Serves(1), body |-> body]) /\ pc' = "flush"
        BY <1>6, <3>1, Zenon
      <4>2. req # << >> /\ req \in Seq(Object) /\ 1 \in 1..Len(req)
        <5>1. req # << >> /\ req \in Seq(Object)
          BY <1>2, <1>6, <3>1, RoundNumbers, MessageFields, Zenon
        <5> QED BY <5>1, SeqEmpty, SeqLength
      <4>3. req[1].cmd \in Commands
        BY <1>2, <4>2, RoundNumbers, MessageFields, Zenon
      <4>4. body \in Seq(Replies) /\ body = [j \in 1..1 |-> req[1].cmd]
        BY <4>3 DEF Replies
      <4>5. Holds(1) /\ OldBeyond(1)
        BY <1>2, Zenon DEF IInv, MessageInv
      <4>6. \/ KeysOf(sent[Serves(1)]) = 0
            \/ body = [j \in 1..KeysOf(sent[Serves(1)]) |-> <<Serves(1), j>>]
        <5> SUFFICES ASSUME KeysOf(sent[Serves(1)]) # 0
                     PROVE  body = [j \in 1..KeysOf(sent[Serves(1)]) |-> <<Serves(1), j>>]
          OBVIOUS
        <5>1. msgs[1].reqNum = KeysOf(sent[Serves(1)])
          BY <4>5, Zenon DEF Holds
        <5>2. 1 \in 1..msgs[1].reqNum
          BY <5>1, KeysOfKind
        <5>3. req[1].cmd = <<Serves(1), 1>>
          BY <4>5, <5>2, Zenon DEF Holds
        <5>4. kind = sent[Serves(1)]
          <6>1. req[1].cmd[1] = Serves(1)
            BY <5>3
          <6> QED BY <6>1, Zenon DEF KindOf
        <5>5. KeysOf(sent[Serves(1)]) = 1
          BY <5>4, <3>1, KeysOfKind, Zenon
        <5> HIDE DEF body
        <5> QED BY <4>4, <5>3, <5>5
      <4> HIDE DEF body
      <4>7. /\ out' \in Seq(Reply) /\ OwnAnswers'
            /\ \A k \in 1..Len(out') : out'[k].to <= Serves(1)
        BY <1>3, <1>4, <2>1, <4>1, <4>4, <4>6, AppendReply, Zenon
      <4>8. \A k \in 1..Len(out') : out'[k].to <= decoded
        <5>1. \A k \in 1..Len(out') : out'[k].to \in Int
          <6>1. \A k \in 1..Len(out') : out'[k] \in Reply
            BY <4>7, SeqLength, Zenon
          <6>2. \A a \in Reply : a.to \in Int
            BY DEF Reply
          <6> QED BY <6>1, <6>2, Zenon
        <5> QED BY <1>3, <4>7, <5>1, RoundNumbers, SMTT(40)
      <4> QED BY <4>1, <4>7, <4>8, Zenon
    <3>2. CASE ~(Redis /\ kind \in {"auth", "badauth", "ping"})
      <4>1. out' = out
        BY <1>6, <3>2, Zenon
      <4> QED BY <1>4, <2>1, <4>1, OutStays, Zenon DEF IInv, TypeInv
    <3> QED BY <3>1, <3>2, Zenon
  <2>3. /\ at' \in Nat \X (1..2) /\ fwd' \in {"open", "closed"} /\ InRound /\ InRound'
    BY <1>1, <2>1, Zenon DEF IInv, TypeInv, InRound
  <2>4. TypeInv' /\ MessageInv' /\ HeldInv' /\ HandedInv' /\ PanicInv'
    BY <1>1, <2>1, <2>2, <2>3, QuietStep, Zenon DEF client
  <2>5. (PositionInv /\ ForwardInv /\ EncodeInv)'
    BY <2>1, Zenon DEF PositionInv, ForwardInv, EncodeInv
  <2>6. OutInv'
    BY <2>1, <2>2, Zenon DEF OutInv, UpTo
  <2> QED BY <2>4, <2>5, <2>6, Zenon DEF IInv
<1> QED BY <1>5, <1>6, Zenon DEF CmdCheck

\* The commands of the messages a round is decoded into: every message that takes
\* part holds its request.
LEMMA DecodeStep ==
  ASSUME IInv, crashed = "no", front' = front, Decode
  PROVE  IInv'
<1> DEFINE n == Min({Len(sent) - decoded, Len(msgs)})
           ids == (decoded + 1)..(decoded + n)
<1>1. pc = "decode" /\ n > 0 /\ decoded' = decoded + n /\ UNCHANGED <<sent, out>>
  BY Zenon DEF Decode
<1>2. n \in Nat /\ n <= Len(sent) - decoded /\ n <= Len(msgs)
  <2>1. Len(sent) - decoded \in Int /\ Len(msgs) \in Int
    BY RoundNumbers, SMTT(40)
  <2>2. n = IF Len(sent) - decoded <= Len(msgs) THEN Len(sent) - decoded ELSE Len(msgs)
    BY <2>1, MinOfTwo, Zenon
  <2> HIDE DEF n
  <2> QED BY <2>2, RoundNumbers, SMTT(40)
<1>3. CASE Malformed(ids) /\ Close
  BY <1>1, <1>2, <1>3, MalformedStep, Zenon
<1>4. CASE /\ msgs' = [s \in DOMAIN msgs |->
                        IF s <= n THEN Decoded(msgs[s], decoded + s) ELSE msgs[s]]
           /\ round' = n
           /\ pc' = "check"
           /\ UNCHANGED <<at, authorized, handed, env, pipes, crashed>>
  <2> HIDE DEF n
  <2>1. round = 0 /\ asked = {} /\ \A s \in 1..Len(msgs) : msgs[s].reqNum = 0
    <3>1. round = 0
      BY <1>1, Zenon DEF IInv, MessageInv, InRound
    <3>2. (round + 1)..Len(msgs) = 1..Len(msgs)
      BY <3>1
    <3> QED BY <1>1, <3>1, <3>2, Zenon DEF IInv, MessageInv, HeldInv
  <2>2. DOMAIN msgs = 1..Len(msgs) /\ Len(msgs) \in Nat
    BY SeqLength, Zenon DEF IInv, TypeInv
  <2>3. ASSUME NEW s \in 1..Len(msgs)
        PROVE  /\ msgs'[s] \in Message
               /\ s <= n => decoded + s \in 1..Len(sent) /\ msgs'[s] = Decoded(msgs[s], decoded + s)
               /\ s > n => msgs'[s] = msgs[s]
    <3>1. msgs[s] \in Message /\ msgs[s].reqNum = 0
      BY <2>1, RoundNumbers, Zenon
    <3>2. CASE s <= n
      <4>1. decoded + s \in 1..Len(sent)
        BY <1>2, <3>2, RoundNumbers, SMTT(40)
      <4>2. msgs'[s] = Decoded(msgs[s], decoded + s)
        BY <1>4, <2>2, <3>2, Zenon
      <4>3. TypeInv
        BY Zenon DEF IInv
      <4>4. msgs'[s] \in Message
        BY <3>1, <4>1, <4>2, <4>3, DecodedFields, Zenon
      <4> QED BY <1>2, <3>2, <4>1, <4>2, <4>4
    <3>3. CASE ~(s <= n)
      <4>1. msgs'[s] = msgs[s]
        BY <1>4, <2>2, <3>3, Zenon
      <4> QED BY <3>1, <3>3, <4>1, Zenon
    <3> QED BY <3>2, <3>3, Zenon
  <2>4. msgs' \in Seq(Message) /\ Len(msgs') = Len(msgs)
    <3>1. msgs' \in [1..Len(msgs) -> Message]
      <4>1. /\ DOMAIN msgs' = 1..Len(msgs)
            /\ msgs' = [s \in 1..Len(msgs) |-> msgs'[s]]
        BY <1>4, <2>2, Zenon
      <4> QED BY <2>3, <4>1, Zenon
    <3> QED BY <2>2, <3>1, SMT
  <2>5. \A s \in 1..n : s \in 1..Len(msgs) /\ Serves(s)' = decoded + s
    BY <1>1, <1>2, <1>4, RoundNumbers, SMTT(40) DEF Serves
  <2>6. decoded' - round' = decoded - round /\ decoded' - round' = decoded
    BY <1>1, <1>2, <1>4, <2>1, RoundNumbers, SMTT(40)
  <2>7. TypeInv'
    <3>1. round' \in 0..Len(msgs') /\ decoded' \in 0..Len(sent') /\ round' <= decoded'
      BY <1>1, <1>2, <1>4, <2>4, RoundNumbers, SMTT(40)
    <3> QED BY <1>1, <1>4, <2>4, <3>1, ZenonT(60) DEF IInv, TypeInv, InRound, Kinds, env, pipes
  <2>8. MessageInv'
    <3>1. ASSUME NEW s \in 1..Len(msgs')  PROVE OldBeyond(s)'
      <4>1. s \in 1..Len(msgs) /\ msgs[s] \in Message /\ msgs[s].reqNum = 0 /\ TypeInv
        BY <2>1, <2>4, RoundNumbers, Zenon DEF IInv
      <4>2. \A j \in 1..Len(msgs[s].req) : msgs[s].req[j].cmd[1] <= decoded - round
        <5>1. (msgs[s].reqNum + 1)..Len(msgs[s].req) = 1..Len(msgs[s].req)
          BY <4>1
        <5> QED BY <4>1, <5>1, Zenon DEF IInv, MessageInv, OldBeyond
      <4>3. ASSUME NEW j \in (msgs'[s].reqNum + 1)..Len(msgs'[s].req)
            PROVE  j \in 1..Len(msgs[s].req) /\ msgs'[s].req[j] = msgs[s].req[j]
        <5>1. CASE s <= n
          <6>1. /\ msgs'[s] = Decoded(msgs[s], decoded + s)
                /\ decoded + s \in 1..Len(sent)
            BY <2>3, <4>1, <5>1, Zenon
          <6>2. /\ Decoded(msgs[s], decoded + s).reqNum = KeysOf(sent[decoded + s])
                /\ \A i \in (KeysOf(sent[decoded + s]) + 1)
                           ..Len(Decoded(msgs[s], decoded + s).req) :
                     /\ i \in 1..Len(msgs[s].req)
                     /\ Decoded(msgs[s], decoded + s).req[i] = msgs[s].req[i]
            BY <4>1, <6>1, DecodedFields, Zenon
          <6>3. j \in (KeysOf(sent[decoded + s]) + 1)
                       ..Len(Decoded(msgs[s], decoded + s).req)
            BY <4>3, <6>1, <6>2, Zenon
          <6> QED BY <6>1, <6>2, <6>3, Zenon
        <5>2. CASE ~(s <= n)
          <6>1. msgs'[s] = msgs[s]
            BY <1>2, <2>3, <4>1, <5>2
          <6> QED BY <4>1, <4>3, <6>1, MessageFields
        <5> QED BY <5>1, <5>2, Zenon
      <4> QED BY <2>6, <4>2, <4>3, Zenon DEF OldBeyond
    <3>2. ASSUME NEW s \in 1..round'  PROVE Holds(s)'
      <4>1. s \in 1..n /\ s \in 1..Len(msgs) /\ Serves(s)' = decoded + s /\ s <= n
        BY <1>2, <1>4, <2>5
      <4>2. msgs[s] \in Message /\ msgs[s].reqNum = 0 /\ TypeInv
        BY <2>1, <4>1, RoundNumbers, Zenon DEF IInv
      <4>3. /\ msgs'[s] = Decoded(msgs[s], decoded + s)
            /\ decoded + s \in 1..Len(sent)
        BY <2>3, <4>1, Zenon
      <4>4. /\ Decoded(msgs[s], decoded + s).reqNum = KeysOf(sent[decoded + s])
            /\ KeysOf(sent[decoded + s]) <= Len(Decoded(msgs[s], decoded + s).req)
            /\ \A j \in 1..KeysOf(sent[decoded + s]) :
                 Decoded(msgs[s], decoded + s).req[j].cmd = <<decoded + s, j>>
        BY <4>2, <4>3, DecodedFields, Zenon
      <4> QED BY <1>1, <4>1, <4>3, <4>4, Zenon DEF Holds
    <3>3. ASSUME NEW s \in (round' + 1)..Len(msgs')  PROVE msgs'[s].reqNum = 0
      <4>1. s \in 1..Len(msgs) /\ s > n
        BY <1>2, <1>4, <2>2, <2>4
      <4> QED BY <2>1, <2>3, <4>1, Zenon
    <3>4. round' > 0
      BY <1>1, <1>4, Zenon
    <3> QED BY <1>4, <3>1, <3>2, <3>3, <3>4, Zenon DEF MessageInv, InRound
  <2>9. (HeldInv /\ PositionInv /\ ForwardInv /\ EncodeInv /\ PanicInv)'
    BY <1>4, <2>1, Zenon DEF HeldInv, PositionInv, ForwardInv, EncodeInv, PanicInv,
         PanicsOnlyUnforwarded, pipes
  <2>10. HandedInv'
    <3>1. ASSUME NEW c \in handed'  PROVE c[1] <= decoded /\ c[1] \in Int /\ c[1] <= decoded'
      <4>1. c \in handed /\ c \in Commands
        BY <1>4, Zenon DEF IInv, TypeInv
      <4>2. c[1] <= decoded /\ c[1] \in Int
        BY <4>1 DEF IInv, HandedInv, Commands
      <4> QED BY <1>1, <1>2, <4>2, RoundNumbers, SMTT(40)
    <3>2. ASSUME NEW s \in 1..round'  PROVE <<Serves(s)', 1>> \notin handed'
      <4>1. Serves(s)' = decoded + s
        BY <1>4, <2>5, Zenon
      <4>2. <<Serves(s)', 1>>[1] = Serves(s)'
        OBVIOUS
      <4>3. ~(Serves(s)' <= decoded)
        BY <4>1, <1>4, <1>2, RoundNumbers, SMTT(40)
      <4> QED BY <3>1, <4>2, <4>3, Zenon
    <3> QED BY <3>1, <3>2, Zenon DEF HandedInv
  <2>11. OutInv'
    <3>1. OwnAnswers'
      BY <1>1, <1>4, OutStays, Zenon DEF env
    <3>2. \A k \in 1..Len(out) : out[k].to <= decoded
      BY <1>1, Zenon DEF IInv, OutInv, UpTo
    <3> QED BY <1>1, <1>4, <2>6, <3>1, <3>2, Zenon DEF OutInv, UpTo
  <2> QED BY <2>7, <2>8, <2>9, <2>10, <2>11, Zenon DEF IInv
<1> QED BY <1>3, <1>4, Zenon DEF Decode

\* Forward looks at the forwarder's state.
LEMMA EnterStep ==
  ASSUME IInv, crashed = "no", front' = front, Enter
  PROVE  IInv'
<1>1. /\ pc = "enter" /\ at' = <<1, 1>> /\ pc' = IF fwd = "closed" THEN "wait" ELSE "push"
      /\ UNCHANGED <<front, msgs, round, sent, decoded, out, handed, fwd, asked, ask, answer,
                     crashed>>
  BY Zenon DEF Enter, client, env, pipes
<1>2. at'[1] = 1 /\ at'[2] = 1 /\ at' \in Nat \X (1..2)
  BY <1>1
<1>3. round > 0 /\ asked = {}
  BY <1>1, Zenon DEF IInv, MessageInv, HeldInv, InRound
<1>4. TypeInv' /\ MessageInv' /\ HeldInv' /\ HandedInv' /\ PanicInv'
  <2>1. out' \in Seq(Reply) /\ fwd' \in {"open", "closed"} /\ InRound /\ InRound'
    BY <1>1, Zenon DEF IInv, TypeInv, InRound
  <2> QED BY <1>1, <1>2, <1>3, <2>1, QuietStep, Zenon DEF client
<1>5. PositionInv'
  <2>1. 1 \in 1..round
    BY <1>3, RoundNumbers, SMTT(40)
  <2> QED BY <1>1, <1>2, <2>1, Zenon DEF PositionInv
<1>6. ForwardInv'
  <2>1. ASSUME NEW s \in 1..round, NEW j \in 1..msgs[s].reqNum  PROVE ~Passed(s, j)'
    <3>1. ~(s < 1) /\ ~(j < 1)
      BY RoundNumbers, MessageFields, SMTT(40)
    <3> QED BY <1>2, <3>1, Zenon DEF Passed
  <2> QED BY <1>1, <2>1, Zenon DEF ForwardInv
<1>7. EncodeInv'
  BY <1>1, Zenon DEF EncodeInv
<1>8. OutInv'
  <2>1. OwnAnswers'
    BY <1>1, OutStays, Zenon
  <2> QED BY <1>1, <2>1, Zenon DEF IInv, OutInv, UpTo
<1> QED BY <1>4, <1>5, <1>6, <1>7, <1>8, Zenon DEF IInv

\* wg.Wait returns: every message Forward passed has a reply.
LEMMA WaitStep ==
  ASSUME IInv, crashed = "no", front' = front, Wait
  PROVE  IInv'
<1>1. /\ pc = "wait" /\ asked = {} /\ at' = <<1, 1>> /\ pc' = "encode"
      /\ UNCHANGED <<front, msgs, round, sent, decoded, out, handed, fwd, asked, ask, answer,
                     crashed>>
  BY Zenon DEF Wait, AllDone, client, env, pipes
<1>2. at'[1] = 1 /\ at' \in Nat \X (1..2) /\ round > 0 /\ 1 \in 1..round
  <2>1. round > 0
    BY <1>1, Zenon DEF IInv, MessageInv, InRound
  <2> QED BY <1>1, <2>1, RoundNumbers, SMTT(40)
<1>3. TypeInv' /\ MessageInv' /\ HeldInv' /\ HandedInv' /\ PanicInv'
  <2>1. out' \in Seq(Reply) /\ fwd' \in {"open", "closed"} /\ InRound /\ InRound'
    BY <1>1, Zenon DEF IInv, TypeInv, InRound
  <2> QED BY <1>1, <1>2, <2>1, QuietStep, Zenon DEF client
<1>4. PositionInv'
  BY <1>1, <1>2, Zenon DEF PositionInv
<1>5. ForwardInv'
  BY <1>1, Zenon DEF ForwardInv
<1>6. EncodeInv'
  <2>1. ASSUME fwd = "open", NEW s \in 1..round
        PROVE  \/ \A j \in 1..msgs[s].reqNum : Replied(s, j)
               \/ MayEject /\ \E f \in 1..s : msgs[f].failed
    <3>1. ASSUME s < at[1], NEW j \in 1..msgs[s].reqNum  PROVE Replied(s, j)
      BY <1>1, <2>1, <3>1, Zenon DEF IInv, ForwardInv, Passed
    <3>2. CASE at = <<round + 1, 1>>
      <4>1. s < at[1]
        BY <3>2, RoundNumbers, SMTT(40)
      <4> QED BY <3>1, <4>1, Zenon
    <3>3. CASE MayEject /\ at[1] \in 1..round /\ msgs[at[1]].failed
      <4>1. s < at[1] \/ at[1] \in 1..s
        BY <3>3, RoundNumbers, SMTT(40)
      <4> QED BY <3>1, <3>3, <4>1, Zenon
    <3> QED BY <1>1, <2>1, <3>2, <3>3, Zenon DEF IInv, ForwardInv
  <2>2. 1..(at'[1] - 1) = {}
    BY <1>2
  <2> QED BY <1>1, <2>1, <2>2, Zenon DEF EncodeInv, Replied, IsBatch, Serves, MayEject, Redis
<1>7. OutInv'
  <2>1. OwnAnswers'
    BY <1>1, OutStays, Zenon
  <2>2. (decoded' - round' + at'[1]) - 1 = decoded - round
    BY <1>1, <1>2, RoundNumbers, SMTT(40)
  <2>3. UpTo' = decoded - round /\ UpTo = decoded - round
    BY <1>1, <2>2, Zenon DEF UpTo, Serves
  <2> QED BY <1>1, <2>1, <2>3, Zenon DEF IInv, OutInv
<1> QED BY <1>3, <1>4, <1>5, <1>6, <1>7, Zenon DEF IInv

\* The pingers and Close of the forwarder, and a closed pipe that drops a message.
LEMMA OutsideStep ==
  ASSUME IInv, crashed = "no", front' = front,
         RingChanges \/ CloseForwarder \/ \E p \in asked : Abandon(p)
  PROVE  IInv'
<1>1. /\ UNCHANGED <<front, pc, msgs, round, sent, decoded, at, out, handed, asked, ask,
                     answer, crashed>>
      /\ fwd' = fwd \/ fwd' = "closed"
  BY Zenon DEF RingChanges, CloseForwarder, Abandon, client, env, pipes
<1>2. TypeInv' /\ MessageInv' /\ HeldInv' /\ HandedInv' /\ PanicInv'
  <2>1. /\ at' \in Nat \X (1..2) /\ out' \in Seq(Reply) /\ fwd' \in {"open", "closed"}
        /\ InRound' <=> InRound
        /\ InRound' \/ pc' \in {"decode", "closed"}
        /\ asked # {} => pc' \in {"push", "wait"}
    BY <1>1, Zenon DEF IInv, TypeInv, HeldInv, InRound
  <2> QED BY <1>1, <2>1, QuietStep, Zenon DEF client
<1>3. fwd' = "open" => fwd = "open"
  BY <1>1, Zenon
<1>4. PositionInv'
  BY <1>1, Zenon DEF IInv, PositionInv
<1>5. ForwardInv'
  BY <1>1, <1>3, ZenonT(60) DEF IInv, ForwardInv, Passed, Part, Replied, IsBatch, Serves, MayEject
<1>6. EncodeInv'
  BY <1>1, <1>3, ZenonT(60) DEF IInv, EncodeInv, Replied, IsBatch, Serves, MayEject, Redis
<1>7. OutInv'
  <2>1. OwnAnswers'
    BY <1>1, <1>3, OutStays, Zenon
  <2> QED BY <1>1, <2>1, Zenon DEF IInv, OutInv, UpTo, Serves
<1> QED BY <1>2, <1>4, <1>5, <1>6, <1>7, Zenon DEF IInv

\* A request arrives.
LEMMA SendStep ==
  ASSUME IInv, crashed = "no", front' = front, NEW kind \in Kinds, Send(kind)
  PROVE  IInv'
<1>1. /\ pc = "decode" /\ Len(sent) < MaxSent /\ sent' = Append(sent, kind)
      /\ UNCHANGED <<pc, front, msgs, round, decoded, at, out, handed, asked, ask, answer,
                     crashed, fwd>>
  BY Zenon DEF Send, env, pipes
<1>2. round = 0 /\ asked = {} /\ 1..round = {}
  <2>1. round = 0 /\ asked = {}
    BY <1>1, Zenon DEF IInv, MessageInv, HeldInv, InRound
  <2> QED BY <2>1
<1>3. /\ sent' \in Seq(Kinds) /\ Len(sent') = Len(sent) + 1
      /\ \A i \in 1..Len(sent) : sent'[i] = sent[i]
  <2>1. sent \in Seq(Kinds)
    BY Zenon DEF IInv, TypeInv
  <2> QED BY <1>1, <2>1, SeqAppend
<1>4. TypeInv'
  <2>1. Len(sent') <= MaxSent /\ decoded' \in 0..Len(sent')
    BY <1>1, <1>3, RoundNumbers, SMTT(40)
  <2>2. Kinds' = Kinds
    BY Zenon DEF Kinds
  <2> QED BY <1>1, <1>3, <2>1, <2>2, ZenonT(60) DEF IInv, TypeInv, InRound
<1>5. MessageInv'
  BY <1>1, <1>2, Zenon DEF IInv, MessageInv, OldBeyond, InRound
<1>6. (HeldInv /\ PositionInv /\ ForwardInv /\ EncodeInv /\ PanicInv)'
  BY <1>1, <1>2, Zenon DEF HeldInv, PositionInv, ForwardInv, EncodeInv, PanicInv,
       PanicsOnlyUnforwarded
<1>7. HandedInv'
  BY <1>1, <1>2, Zenon DEF IInv, HandedInv
<1>8. OutInv'
  <2>1. \A k \in 1..Len(out) : out[k].to <= decoded
    BY <1>1, Zenon DEF IInv, OutInv, UpTo
  <2>2. \A k \in 1..Len(out) : out[k].to \in 1..Len(sent)
    BY <2>1, OutNumbers, RoundNumbers, SMTT(40)
  <2>3. \A k \in DOMAIN out : sent'[out[k].to] = sent[out[k].to]
    BY <2>2, <1>3, OutNumbers, Zenon
  <2>4. OwnAnswers'
    BY <1>1, <2>3, ZenonT(60) DEF IInv, OutInv, OwnAnswers, MayEject, Redis
  <2> QED BY <1>1, <2>1, <2>4, Zenon DEF OutInv, UpTo
<1> QED BY <1>4, <1>5, <1>6, <1>7, <1>8, Zenon DEF IInv

\* What Encode writes for a message without an error: of the right type, and the
\* replies to the message's own commands.
LEMMA EncodedBody ==
  ASSUME IInv, pc = "encode", ~ErrorReply(msgs[at[1]]), ~EncodeFails(msgs[at[1]])
  PROVE  /\ Body(msgs[at[1]]) \in Seq(Replies)
         /\ fwd = "open" /\ (MayEject => Redis) =>
              \/ KeysOf(sent[Serves(at[1])]) = 0
              \/ Body(msgs[at[1]]) = [j \in 1..KeysOf(sent[Serves(at[1])]) |-> <<Serves(at[1]), j>>]
<1> DEFINE s == at[1]
           m == msgs[s]
<1>1. s \in 1..round
  BY Zenon DEF IInv, PositionInv
<1>2. s \in Nat /\ s \in 1..Len(msgs) /\ m \in Message /\ Holds(s)
  <2>1. Holds(s)
    BY <1>1, Zenon DEF IInv, MessageInv
  <2> QED BY <1>1, <2>1, RoundNumbers, Zenon
<1>3. /\ m.reqNum \in 0..2 /\ m.reqNum <= Len(m.req) /\ Len(m.req) \in Nat
      /\ m.req \in Seq(Object)
      /\ \A j \in 1..Len(m.req) : m.req[j].reply \in Replies
      /\ m.reqNum = KeysOf(sent[Serves(s)])
  BY <1>2, MessageFields, Zenon DEF Holds
<1>4. m.req # << >> /\ ~HasError(m)
  BY Zenon DEF ErrorReply, EncodeFails
<1> HIDE DEF s, m
<1>5. CASE m.reqNum > 0
  <2>1. Body(m) = [j \in 1..m.reqNum |-> m.req[j].reply]
    BY <1>5, Zenon DEF Body
  <2>2. Body(m) \in Seq(Replies)
    <3>1. \A j \in 1..m.reqNum : m.req[j].reply \in Replies
      BY <1>3
    <3> QED BY <1>3, <2>1, <3>1
  <2>3. ASSUME fwd = "open", MayEject => Redis
        PROVE  \A j \in 1..m.reqNum : m.req[j].reply = <<Serves(s), j>>
    <3>1. \A j \in 1..m.reqNum : Replied(s, j)
      <4>1. ASSUME MayEject, NEW f \in 1..s, msgs[f].failed  PROVE FALSE
        <5>1. CASE f = s
          BY <1>4, <4>1, <5>1, Zenon DEF HasError, m
        <5>2. CASE f # s
          <6>1. f \in 1..(s - 1)
            BY <1>2, <5>2
          <6> QED BY <2>3, <4>1, <6>1, Zenon DEF IInv, EncodeInv, s
        <5> QED BY <5>1, <5>2, Zenon
      <4> QED BY <1>1, <2>3, <4>1, Zenon DEF IInv, EncodeInv, m
    <3> QED BY <1>4, <3>1, Zenon DEF Replied, HasError, m
  <2>4. ASSUME fwd = "open", MayEject => Redis
        PROVE  Body(m) = [j \in 1..KeysOf(sent[Serves(s)]) |-> <<Serves(s), j>>]
    BY <1>3, <2>1, <2>3, <2>4, Zenon
  <2> QED BY <2>2, <2>4, Zenon DEF s, m
<1>6. CASE ~(m.reqNum > 0)
  <2>1. KeysOf(sent[Serves(s)]) = 0 /\ 1 \in 1..Len(m.req)
    <3>1. Len(m.req) # 0
      BY <1>3, <1>4, SeqEmpty, Zenon
    <3> QED BY <1>3, <1>6, <3>1
  <2>2. Body(m) = << >> \/ Body(m) = <<m.req[1].reply>>
    BY <1>6, Zenon DEF Body
  <2>3. m.req[1].reply \in Replies
    BY <1>3, <2>1, Zenon
  <2>4. Body(m) \in Seq(Replies)
    <3>1. << >> \in Seq(Replies)
      BY SeqEmpty, Zenon
    <3>2. \A r \in Replies : <<r>> \in Seq(Replies)
      OBVIOUS
    <3> QED BY <2>2, <2>3, <3>1, <3>2, Zenon
  <2> QED BY <2>1, <2>4, Zenon DEF s, m
<1> QED BY <1>5, <1>6, Zenon

\* Encode answers the next request of the round, or ends the connection.
LEMMA EncodeStep ==
  ASSUME IInv, crashed = "no", front' = front, Encode
  PROVE  IInv'
<1> DEFINE s == at[1]
           m == msgs[s]
           ends == EncodeFails(m)
<1>1. pc = "encode" /\ asked = {} /\ s \in 1..round
  BY Zenon DEF Encode, IInv, HeldInv, PositionInv
<1>2. /\ s \in 1..Len(msgs) /\ s \in Nat
      /\ Serves(s) \in 1..Len(sent) /\ Serves(s) <= decoded
  BY <1>1, RoundNumbers, Zenon
<1>3. CASE ~m.failed /\ SlicePanics(m) /\ Panic("encode")
  <2>1. IsBatch(msgs[s]) /\ <<Serves(s), 1>> \notin handed
    BY <1>1, <1>3, Zenon DEF IInv, HandedInv, SlicePanics
  <2> QED BY <1>1, <1>3, <2>1, PanicStep, Zenon
<1>4. CASE /\ m.failed \/ ~SlicePanics(m)
           /\ out' = IF ErrorReply(m) THEN Append(out, [to |-> Serves(s), body |-> Error])
                     ELSE IF ends \/ Silent(KindOf(m)) THEN out
                     ELSE Append(out, [to |-> Serves(s), body |-> Body(m)])
           /\ UNCHANGED client
           /\ \/ ends /\ Close
              \/ /\ ~ends
                 /\ at' = <<s + 1, 1>>
                 /\ pc' = IF LastEncoded(s) THEN "flush" ELSE "encode"
                 /\ UNCHANGED <<msgs, round, authorized, handed, env, pipes, crashed>>
  <2>1. UNCHANGED <<front, sent, decoded, fwd>>
    BY <1>4, Zenon DEF client, env, Close
  <2>2. \A k \in 1..Len(out) : out[k].to < Serves(s) /\ out[k].to <= Serves(s)
    <3>1. \A k \in 1..Len(out) : out[k].to <= Serves(s) - 1
      BY <1>1, Zenon DEF IInv, OutInv, UpTo
    <3> QED BY <1>2, <3>1, OutNumbers, RoundNumbers, SMTT(40)
  <2>3. /\ out' \in Seq(Reply) /\ OwnAnswers'
        /\ \A k \in 1..Len(out') : out'[k].to <= Serves(s)
    <3>1. CASE ErrorReply(m)
      <4>1. out' = Append(out, [to |-> Serves(s), body |-> Error])
        BY <1>4, <3>1, Zenon
      <4> QED BY <1>2, <2>1, <2>2, <4>1, AppendReply, Zenon
    <3>2. CASE ~ErrorReply(m) /\ (ends \/ Silent(KindOf(m)))
      <4>1. out' = out
        BY <1>4, <3>2, Zenon
      <4> QED BY <2>1, <2>2, <4>1, OutStays, Zenon DEF IInv, TypeInv
    <3>3. CASE ~ErrorReply(m) /\ ~(ends \/ Silent(KindOf(m)))
      <4>1. out' = Append(out, [to |-> Serves(s), body |-> Body(m)])
        BY <1>4, <3>3, Zenon
      <4>2. /\ Body(m) \in Seq(Replies)
            /\ fwd = "open" /\ (MayEject => Redis) =>
                 \/ KeysOf(sent[Serves(s)]) = 0
                 \/ Body(m) = [j \in 1..KeysOf(sent[Serves(s)]) |-> <<Serves(s), j>>]
        BY <1>1, <3>3, EncodedBody, Zenon
      <4> HIDE DEF s, m, ends
      <4> QED BY <1>2, <2>1, <2>2, <4>1, <4>2, AppendReply, Zenon
    <3> QED BY <3>1, <3>2, <3>3, Zenon
  <2>4. \A k \in 1..Len(out') : out'[k].to \in Int
    <3>1. \A k \in 1..Len(out') : out'[k] \in Reply
      BY <2>3, SeqLength, Zenon
    <3>2. \A a \in Reply : a.to \in Int
      BY DEF Reply
    <3> QED BY <3>1, <3>2, Zenon
  <2>5. \A k \in 1..Len(out') : out'[k].to <= decoded
    BY <1>2, <2>3, <2>4, RoundNumbers, SMTT(40)
  <2>6. CASE ends /\ Close
    <3>1. decoded' \in decoded..Len(sent)
      BY <2>1, RoundNumbers, SMTT(40)
    <3> QED BY <1>1, <2>1, <2>3, <2>5, <2>6, <3>1, CloseStep, Zenon
  <2>7. CASE /\ ~ends
             /\ at' = <<s + 1, 1>>
             /\ pc' = IF LastEncoded(s) THEN "flush" ELSE "encode"
             /\ UNCHANGED <<msgs, round, authorized, handed, env, pipes, crashed>>
    <3>1. /\ UNCHANGED <<msgs, round, handed, asked, ask, answer, crashed>>
          /\ pc' = (IF s = round THEN "flush" ELSE "encode") /\ pc' \in {"encode", "flush"}
      BY <2>7, Zenon DEF LastEncoded, pipes
    <3>2. at'[1] = s + 1 /\ at' \in Nat \X (1..2)
      BY <1>2, <2>7
    <3>3. TypeInv' /\ MessageInv' /\ HeldInv' /\ HandedInv' /\ PanicInv'
      <4>1. fwd' \in {"open", "closed"} /\ InRound /\ InRound'
        BY <1>1, <2>1, <3>1, Zenon DEF IInv, TypeInv, InRound
      <4> QED BY <1>1, <2>1, <2>3, <3>1, <3>2, <4>1, QuietStep, Zenon DEF client
    <3>4. PositionInv'
      <4>1. s # round => s + 1 \in 1..round
        BY <1>1, RoundNumbers, SMTT(40)
      <4> QED BY <3>1, <3>2, <4>1, Zenon DEF PositionInv
    <3>5. ForwardInv'
      BY <3>1, Zenon DEF ForwardInv
    <3>6. EncodeInv'
      <4>1. ASSUME Redis, fwd = "open", NEW f \in 1..(at'[1] - 1)  PROVE ~msgs[f].failed
        <5>1. CASE f = s
          BY <2>7, <4>1, <5>1, Zenon DEF EncodeFails, HasError
        <5>2. CASE f # s
          <6>1. f \in 1..(s - 1)
            BY <1>2, <3>2, <5>2
          <6> QED BY <1>1, <4>1, <6>1, Zenon DEF IInv, EncodeInv
        <5> QED BY <5>1, <5>2, Zenon
      <4>2. ASSUME fwd = "open", NEW t \in 1..round
            PROVE  \/ \A j \in 1..msgs[t].reqNum : Replied(t, j)
                   \/ MayEject /\ \E f \in 1..t : msgs[f].failed
        BY <1>1, <4>2, Zenon DEF IInv, EncodeInv
      <4> QED BY <2>1, <3>1, <4>1, <4>2, Zenon DEF EncodeInv, Replied, IsBatch, Serves, MayEject, Redis
    <3>7. OutInv'
      <4>1. (decoded' - round' + at'[1]) - 1 = Serves(s)
        BY <1>2, <2>1, <3>1, <3>2, RoundNumbers, SMTT(40) DEF Serves
      <4>2. UpTo' = Serves(s) \/ UpTo' = decoded
        BY <2>1, <3>1, <4>1, Zenon DEF UpTo, Serves
      <4> QED BY <2>3, <2>5, <4>2, Zenon DEF OutInv
    <3> QED BY <3>3, <3>4, <3>5, <3>6, <3>7, Zenon DEF IInv
  <2> QED BY <1>4, <2>6, <2>7, Zenon
<1>5. CASE UNCHANGED <<client, out>> /\ Close
  <2>1. decoded' \in decoded..Len(sent) /\ decoded' = decoded /\ sent' = sent
    BY <1>5, RoundNumbers, SMTT(40) DEF client
  <2>2. OwnAnswers' /\ out' \in Seq(Reply)
    BY <1>5, <2>1, OutStays, Zenon DEF Close, env, IInv, TypeInv
  <2>3. \A k \in 1..Len(out') : out'[k].to <= decoded'
    <3>1. \A k \in 1..Len(out) : out[k].to <= Serves(s) - 1
      BY <1>1, Zenon DEF IInv, OutInv, UpTo
    <3>2. \A k \in 1..Len(out) : out[k].to <= decoded
      BY <1>2, <3>1, OutNumbers, RoundNumbers, SMTT(40)
    <3> QED BY <1>5, <2>1, <3>2, Zenon
  <2> QED BY <1>1, <1>5, <2>1, <2>2, <2>3, CloseStep, Zenon
<1> QED BY <1>3, <1>4, <1>5, Zenon DEF Encode

\* Every request object holds a command of a request that has been decoded.
LEMMA ObjectsDecoded ==
  ASSUME IInv, NEW s \in 1..Len(msgs), NEW j \in 1..Len(msgs[s].req)
  PROVE  msgs[s].req[j].cmd[1] <= decoded
<1>1. msgs[s] \in Message /\ msgs[s].reqNum \in 0..2 /\ OldBeyond(s) /\ Len(msgs[s].req) \in Nat
  BY RoundNumbers, MessageFields, Zenon DEF IInv, MessageInv
<1>2. CASE j \in (msgs[s].reqNum + 1)..Len(msgs[s].req)
  <2>1. msgs[s].req[j].cmd[1] <= decoded - round
    BY <1>1, <1>2, Zenon DEF OldBeyond
  <2>2. msgs[s].req[j].cmd[1] \in Int
    BY <1>1, MessageFields
  <2> QED BY <2>1, <2>2, RoundNumbers, SMTT(40)
<1>3. CASE j \notin (msgs[s].reqNum + 1)..Len(msgs[s].req)
  <2>1. j \in 1..msgs[s].reqNum /\ msgs[s].reqNum # 0
    BY <1>1, <1>3
  <2>2. s \in 1..round
    <3>1. s \notin (round + 1)..Len(msgs)
      BY <2>1, Zenon DEF IInv, MessageInv
    <3> QED BY <3>1, RoundNumbers, SMTT(40)
  <2>3. msgs[s].req[j].cmd = <<Serves(s), j>>
    BY <2>1, <2>2, Zenon DEF IInv, MessageInv, Holds
  <2>4. msgs[s].req[j].cmd[1] = Serves(s)
    BY <2>3
  <2> QED BY <2>2, <2>4, RoundNumbers, Zenon
<1> QED BY <1>2, <1>3, Zenon

\* The round ends: the messages are reset or replaced by more of them.
LEMMA FlushStep ==
  ASSUME IInv, crashed = "no", front' = front, Flush
  PROVE  IInv'
<1>1. pc = "flush" /\ asked = {}
  BY Zenon DEF Flush, IInv, HeldInv
<1>2. CASE Close /\ UNCHANGED <<client, out>>
  <2>1. decoded' \in decoded..Len(sent) /\ decoded' = decoded /\ sent' = sent
    BY <1>2, RoundNumbers, SMTT(40) DEF client
  <2>2. OwnAnswers' /\ out' \in Seq(Reply)
    BY <1>2, <2>1, OutStays, Zenon DEF Close, env, IInv, TypeInv
  <2>3. \A k \in 1..Len(out') : out'[k].to <= decoded'
    BY <1>1, <1>2, <2>1, Zenon DEF IInv, OutInv, UpTo
  <2> QED BY <1>1, <1>2, <2>1, <2>2, <2>3, CloseStep, Zenon
<1>3. CASE (\E s \in 1..round : SlicePanics(msgs[s])) /\ Panic("reset")
  <2>1. \E s \in 1..round : IsBatch(msgs[s]) /\ <<Serves(s), 1>> \notin handed
    BY <1>3, Zenon DEF IInv, HandedInv, SlicePanics
  <2> QED BY <1>3, <2>1, PanicStep, Zenon
<1>4. CASE /\ msgs' = IF Grows(Len(msgs))
                      THEN [s \in 1..(Concurrent * Len(msgs)) |-> FreshMessage]
                      ELSE [s \in DOMAIN msgs |->
                             IF s <= round THEN Reset(ResetSubs(msgs[s])) ELSE msgs[s]]
           /\ round' = 0 /\ pc' = "decode"
           /\ UNCHANGED <<at, authorized, client, out, handed, env, pipes, crashed>>
  <2>1. UNCHANGED <<front, sent, decoded, fwd, at, out, handed, asked, ask, answer, crashed>>
    BY <1>4, Zenon DEF client, env, pipes
  <2>2. DOMAIN msgs = 1..Len(msgs) /\ Len(msgs) \in Nat
    BY SeqLength, Zenon DEF IInv, TypeInv
  <2>3. /\ msgs' \in Seq(Message) /\ Len(msgs') <= MaxMessages
        /\ \A s \in 1..Len(msgs') :
             /\ msgs'[s].reqNum = 0
             /\ \A j \in 1..Len(msgs'[s].req) : msgs'[s].req[j].cmd[1] <= decoded
    <3>1. CASE Grows(Len(msgs))
      <4> DEFINE k == Concurrent * Len(msgs)
      <4>1. k \in Nat /\ k <= MaxMessages
        BY <2>2, <3>1, Growth, Zenon DEF Grows
      <4>2. msgs' = [s \in 1..k |-> FreshMessage]
        BY <1>4, <3>1, Zenon
      <4> HIDE DEF k
      <4>3. /\ msgs' \in Seq(Message) /\ Len(msgs') = k
            /\ \A s \in 1..k : msgs'[s].req = << >> /\ msgs'[s].reqNum = 0
        BY <4>1, <4>2, FreshMessages, Zenon
      <4>4. 1..Len(<< >>) = {}
        OBVIOUS
      <4> QED BY <4>1, <4>3, <4>4, Zenon
    <3>2. CASE ~Grows(Len(msgs))
      <4>1. ASSUME NEW s \in 1..Len(msgs)
            PROVE  /\ msgs'[s] \in Message /\ msgs'[s].reqNum = 0
                   /\ msgs'[s].req = msgs[s].req
        <5>1. msgs[s] \in Message
          BY RoundNumbers, Zenon
        <5>2. msgs'[s] = IF s <= round THEN Reset(ResetSubs(msgs[s])) ELSE msgs[s]
          BY <1>4, <2>2, <3>2, Zenon
        <5>3. ~(s <= round) => msgs[s].reqNum = 0
          <6>1. ~(s <= round) => s \in (round + 1)..Len(msgs)
            BY RoundNumbers, SMTT(40)
          <6> QED BY <6>1, Zenon DEF IInv, MessageInv
        <5> QED BY <5>1, <5>2, <5>3, ResetFields, Zenon
      <4>2. msgs' \in [1..Len(msgs) -> Message]
        <5>1. /\ DOMAIN msgs' = 1..Len(msgs)
              /\ msgs' = [s \in 1..Len(msgs) |-> msgs'[s]]
          BY <1>4, <2>2, <3>2, Zenon
        <5> QED BY <4>1, <5>1, Zenon
      <4>3. msgs' \in Seq(Message) /\ Len(msgs') = Len(msgs)
        BY <2>2, <4>2, SMT
      <4>4. Len(msgs) <= MaxMessages
        BY Zenon DEF IInv, TypeInv
      <4> QED BY <4>1, <4>3, <4>4, ObjectsDecoded, Zenon
    <3> QED BY <3>1, <3>2, Zenon
  <2>4. Len(msgs') \in Nat /\ \A s \in 1..Len(msgs') : msgs'[s] \in Message
    BY <2>3, SeqLength, Zenon
  <2>5. 1..round' = {} /\ (round' + 1)..Len(msgs') = 1..Len(msgs') /\ round' = 0
        /\ decoded' - round' = decoded
    BY <1>4, <2>1, RoundNumbers, SMTT(40)
  <2>6. TypeInv'
    <3>1. round' \in 0..Len(msgs') /\ round' <= decoded'
      BY <2>1, <2>4, <2>5, RoundNumbers, SMTT(40)
    <3> QED BY <1>4, <2>1, <2>3, <3>1, ZenonT(60) DEF IInv, TypeInv, InRound, Kinds
  <2>7. MessageInv'
    <3>1. ASSUME NEW s \in 1..Len(msgs'), NEW j \in (msgs'[s].reqNum + 1)..Len(msgs'[s].req)
          PROVE  j \in 1..Len(msgs'[s].req)
      <4>1. msgs'[s].reqNum = 0
        BY <2>3, Zenon
      <4> QED BY <3>1, <4>1
    <3>2. ASSUME NEW s \in 1..Len(msgs')  PROVE OldBeyond(s)'
      BY <2>3, <2>5, <3>1, <3>2, Zenon DEF OldBeyond
    <3> QED BY <1>4, <2>3, <2>5, <3>2, Zenon DEF MessageInv, InRound
  <2>8. (HeldInv /\ PositionInv /\ ForwardInv /\ EncodeInv /\ PanicInv)'
    BY <1>1, <1>4, <2>1, Zenon DEF HeldInv, PositionInv, ForwardInv, EncodeInv, PanicInv,
         PanicsOnlyUnforwarded
  <2>9. HandedInv'
    BY <2>1, <2>5, Zenon DEF IInv, HandedInv
  <2>10. OutInv'
    <3>1. OwnAnswers'
      BY <2>1, OutStays, Zenon
    <3> QED BY <1>1, <1>4, <2>1, <3>1, ZenonT(60) DEF IInv, OutInv, UpTo
  <2> QED BY <2>6, <2>7, <2>8, <2>9, <2>10, Zenon DEF IInv
<1> QED BY <1>2, <1>3, <1>4, Zenon DEF Flush

\* A reply is put into one request object (the pipe's decoder).
LEMMA ReplyPut ==
  ASSUME NEW m \in Message, NEW o \in 1..Len(m.req), NEW r \in Replies
  PROVE  LET n == [m EXCEPT !.req[o].reply = r]
         IN /\ n \in Message /\ Len(n.req) = Len(m.req)
            /\ n.reqNum = m.reqNum /\ n.subs = m.subs /\ n.failed = m.failed
            /\ n.subFailed = m.subFailed
            /\ \A j \in 1..Len(m.req) : n.req[j].cmd = m.req[j].cmd
            /\ \A j \in 1..Len(m.req) : j # o => n.req[j].reply = m.req[j].reply
            /\ n.req[o].reply = r
<1> DEFINE x == [m.req[o] EXCEPT !.reply = r]
           q == [m.req EXCEPT ![o] = x]
           n == [m EXCEPT !.req = q]
<1>1. m.req \in Seq(Object) /\ m.req[o] \in Object
  BY MessageFields, Zenon
<1>2. x \in Object /\ x.cmd = m.req[o].cmd /\ x.reply = r
  BY <1>1, Zenon DEF Object
<1> HIDE DEF x
<1>3. /\ q \in Seq(Object) /\ Len(q) = Len(m.req)
      /\ \A j \in 1..Len(m.req) : q[j] = IF j = o THEN x ELSE m.req[j]
  BY <1>1, <1>2, SeqReplace
<1> HIDE DEF q
<1>4. /\ n \in Message /\ n.req = q /\ n.reqNum = m.reqNum /\ n.subs = m.subs
      /\ n.failed = m.failed /\ n.subFailed = m.subFailed
  BY <1>3, Zenon DEF Message
<1>5. n = [m EXCEPT !.req[o].reply = r]
  BY Zenon DEF q, x
<1> HIDE DEF n
<1> QED BY <1>2, <1>3, <1>4, <1>5, Zenon

\* A message or a sub-message gets an error (WithError).
LEMMA ErrorPut ==
  ASSUME NEW m \in Message, NEW o \in 1..2
  PROVE  /\ LET n == [m EXCEPT !.failed = TRUE]
            IN /\ n \in Message /\ n.req = m.req /\ n.reqNum = m.reqNum /\ n.subs = m.subs
               /\ n.failed = TRUE /\ n.subFailed = m.subFailed
         /\ LET n == [m EXCEPT !.subFailed = @ \cup {o}]
            IN /\ n \in Message /\ n.req = m.req /\ n.reqNum = m.reqNum /\ n.subs = m.subs
               /\ n.failed = m.failed /\ n.subFailed = m.subFailed \cup {o}
<1>1. m.subFailed \cup {o} \in SUBSET (1..2) /\ TRUE \in BOOLEAN
  BY MessageFields, Zenon
<1> QED BY <1>1, Zenon DEF Message

\* A message of the round is changed and keeps its commands: what the round says of
\* the messages stays true.
LEMMA SameCommands ==
  ASSUME IInv, InRound, InRound', UNCHANGED <<round, sent, decoded>>,
         NEW s \in 1..round, NEW m \in Message, msgs' = [msgs EXCEPT ![s] = m],
         m.reqNum = msgs[s].reqNum, Len(m.req) = Len(msgs[s].req),
         \A j \in 1..Len(m.req) : m.req[j].cmd = msgs[s].req[j].cmd
  PROVE  /\ msgs' \in Seq(Message) /\ Len(msgs') = Len(msgs)
         /\ msgs'[s] = m /\ \A t \in 1..Len(msgs) : t # s => msgs'[t] = msgs[t]
         /\ \A t \in 1..Len(msgs) : /\ msgs'[t].reqNum = msgs[t].reqNum
                                    /\ Len(msgs'[t].req) = Len(msgs[t].req)
                                    /\ \A j \in 1..Len(msgs[t].req) :
                                         msgs'[t].req[j].cmd = msgs[t].req[j].cmd
         /\ \A t \in 1..round : IsBatch(msgs'[t]) <=> IsBatch(msgs[t])
         /\ MessageInv'
<1>1. msgs \in Seq(Message) /\ s \in 1..Len(msgs)
  BY RoundNumbers, Zenon DEF IInv, TypeInv
<1>2. /\ msgs' \in Seq(Message) /\ Len(msgs') = Len(msgs)
      /\ msgs'[s] = m /\ \A t \in 1..Len(msgs) : t # s => msgs'[t] = msgs[t]
  BY <1>1, ReplaceMessage
<1>3. ASSUME NEW t \in 1..Len(msgs)
      PROVE  /\ msgs'[t].reqNum = msgs[t].reqNum
             /\ Len(msgs'[t].req) = Len(msgs[t].req)
             /\ \A j \in 1..Len(msgs[t].req) : msgs'[t].req[j].cmd = msgs[t].req[j].cmd
  BY <1>2, Zenon
<1>4. \A t \in 1..round : t \in 1..Len(msgs)
  BY RoundNumbers, Zenon
<1>5. \A t \in 1..round : IsBatch(msgs'[t]) <=> IsBatch(msgs[t])
  BY <1>3, <1>4, Zenon DEF IsBatch
<1>6. ASSUME NEW t \in 1..Len(msgs)  PROVE OldBeyond(t)'
  <2>1. \A j \in (msgs[t].reqNum + 1)..Len(msgs[t].req) : j \in 1..Len(msgs[t].req)
    <3>1. msgs[t].reqNum \in 0..2 /\ Len(msgs[t].req) \in Nat
      BY RoundNumbers, MessageFields, Zenon
    <3> QED BY <3>1
  <2> QED BY <1>3, <2>1, ZenonT(60) DEF OldBeyond, IInv, MessageInv
<1>7. ASSUME NEW t \in 1..round  PROVE Holds(t)'
  <2>1. t \in 1..Len(msgs) /\ Holds(t) /\ msgs[t] \in Message
    BY RoundNumbers, Zenon DEF IInv, MessageInv
  <2>2. \A j \in 1..msgs[t].reqNum : j \in 1..Len(msgs[t].req)
    BY <2>1, MessageFields, SMTT(40) DEF Holds
  <2> QED BY <1>3, <2>1, <2>2, Zenon DEF Holds, Serves
<1>8. \A t \in (round + 1)..Len(msgs) : t \in 1..Len(msgs)
  BY RoundNumbers, SMTT(40)
<1>9. MessageInv'
  BY <1>2, <1>3, <1>6, <1>7, <1>8, Zenon DEF IInv, MessageInv
<1> QED BY <1>2, <1>3, <1>5, <1>9, Zenon

\* n is message m with request r of its parcel p answered, or failed
AnswerIn(n, m, p, r) ==
  LET o == ObjectOf(p)
  IN /\ n \in Message /\ n.reqNum = m.reqNum /\ Len(n.req) = Len(m.req)
     /\ \A j \in 1..Len(m.req) : n.req[j].cmd = m.req[j].cmd
     /\ n.subs = m.subs /\ (m.failed => n.failed) /\ m.subFailed \subseteq n.subFailed
     /\ \A j \in 1..Len(m.req) : j # o => n.req[j].reply = m.req[j].reply
     /\ n.failed \/ (p[2] # 0 /\ o \in n.subFailed) \/ n.req[o].reply = r

\* A message one of whose parcels is answered keeps its commands, its errors and
\* the replies of its other requests, and the request of the parcel has the answer
\* or an error.
LEMMA AnsweredFields ==
  ASSUME NEW m \in Message, NEW p \in Parcels, ObjectOf(p) \in 1..Len(m.req),
         NEW r \in Commands, NEW a \in {r, Error}
  PROVE  AnswerIn(Answered(m, p, a), m, p, r)
<1>1. ObjectOf(p) \in 1..2
  BY ParcelFields, Zenon
<1>2. CASE a # Error
  <2>1. a = r /\ r \in Replies /\ Answered(m, p, a) = [m EXCEPT !.req[ObjectOf(p)].reply = r]
    BY <1>2, Zenon DEF Replies, Answered
  <2> DEFINE n == [m EXCEPT !.req[ObjectOf(p)].reply = r]
  <2>2. /\ n \in Message /\ Len(n.req) = Len(m.req)
        /\ n.reqNum = m.reqNum /\ n.subs = m.subs /\ n.failed = m.failed
        /\ n.subFailed = m.subFailed
        /\ \A j \in 1..Len(m.req) : n.req[j].cmd = m.req[j].cmd
        /\ \A j \in 1..Len(m.req) : j # ObjectOf(p) => n.req[j].reply = m.req[j].reply
        /\ n.req[ObjectOf(p)].reply = r
    BY <2>1, ReplyPut
  <2> HIDE DEF n
  <2>3. Answered(m, p, a) = n
    BY <2>1, Zenon DEF n
  <2> QED BY <2>2, <2>3, Zenon DEF AnswerIn
<1>3. CASE a = Error /\ p[2] = 0
  <2>1. Answered(m, p, a) = [m EXCEPT !.failed = TRUE]
    BY <1>3, Zenon DEF Answered
  <2> DEFINE n == [m EXCEPT !.failed = TRUE]
  <2>2. /\ n \in Message /\ n.req = m.req /\ n.reqNum = m.reqNum /\ n.subs = m.subs
        /\ n.failed = TRUE /\ n.subFailed = m.subFailed
    BY <1>1, ErrorPut, Zenon
  <2> HIDE DEF n
  <2>3. Answered(m, p, a) = n
    BY <2>1, Zenon DEF n
  <2> QED BY <2>2, <2>3, Zenon DEF AnswerIn
<1>4. CASE a = Error /\ p[2] # 0
  <2>1. Answered(m, p, a) = [m EXCEPT !.subFailed = @ \cup {ObjectOf(p)}]
    BY <1>4, Zenon DEF Answered
  <2> DEFINE n == [m EXCEPT !.subFailed = @ \cup {ObjectOf(p)}]
  <2>2. /\ n \in Message /\ n.req = m.req /\ n.reqNum = m.reqNum /\ n.subs = m.subs
        /\ n.failed = m.failed /\ n.subFailed = m.subFailed \cup {ObjectOf(p)}
    BY <1>1, ErrorPut, Zenon
  <2> HIDE DEF n
  <2>3. Answered(m, p, a) = n
    BY <2>1, Zenon DEF n
  <2> QED BY <1>4, <2>2, <2>3, Zenon DEF AnswerIn
<1> QED BY <1>2, <1>3, <1>4, Zenon

\* A pipe marks a message or a sub-message done.
LEMMA DoneStep ==
  ASSUME IInv, crashed = "no", front' = front, NEW p \in asked, Done(p)
  PROVE  IInv'
<1> DEFINE s == p[1]
           o == ObjectOf(p)
           m == msgs[s]
           a == answer'[p]
           n == Answered(m, p, a)
<1>1. /\ asked' = asked \ {p} /\ ask' = ask
      /\ answer' \in {[answer EXCEPT ![p] = b] : b \in {ask[p], Error}}
      /\ UNCHANGED <<front, pc, round, at, sent, decoded, out, handed, fwd, crashed>>
      /\ msgs' = [msgs EXCEPT ![s] = n]
  <2>1. /\ asked' = asked \ {p} /\ ask' = ask
        /\ answer' \in {[answer EXCEPT ![p] = b] : b \in {ask[p], Error}}
    BY Zenon DEF Done, Pipe!Done
  <2>2. UNCHANGED <<front, pc, round, at, sent, decoded, out, handed, fwd, crashed>>
    BY Zenon DEF Done, client, env
  <2>3. msgs' = [msgs EXCEPT ![s] = n]
    BY Zenon DEF Done
  <2> QED BY <2>1, <2>2, <2>3, Zenon
<1>2. /\ p \in Parcels /\ s \in 1..round /\ o <= Len(m.req) /\ ask[p] = m.req[o].cmd
      /\ (p[2] # 0 => IsBatch(m)) /\ (p[2] = 0 => ~IsBatch(m)) /\ p[2] <= m.reqNum
      /\ pc \in {"push", "wait"}
  BY Zenon DEF IInv, HeldInv, TypeInv
<1>3. /\ p = <<s, p[2]>> /\ p[2] \in 0..2 /\ o = (IF p[2] >= 1 THEN p[2] ELSE 1)
      /\ o \in 1..2
  BY <1>2, ParcelFields, Zenon
<1>4. /\ m \in Message /\ s \in 1..Len(msgs) /\ o \in 1..Len(m.req)
      /\ ask[p] \in Commands /\ m.reqNum \in 0..2
  <2>1. m \in Message /\ s \in 1..Len(msgs)
    BY <1>2, RoundNumbers, Zenon
  <2>2. Len(m.req) \in Nat /\ m.reqNum \in 0..2
    BY <2>1, MessageFields, Zenon
  <2>3. o \in 1..Len(m.req)
    BY <1>2, <1>3, <2>2
  <2> QED BY <1>2, <2>1, <2>2, <2>3, MessageFields, Zenon
<1>5. a \in {ask[p], Error} /\ answer' \in [Parcels -> Commands \cup {None, Error}]
  <2>1. answer \in [Parcels -> Commands \cup {None, Error}]
    BY Zenon DEF IInv, TypeInv
  <2>2. PICK b \in {ask[p], Error} : answer' = [answer EXCEPT ![p] = b]
    BY <1>1, Zenon
  <2> QED BY <1>2, <1>4, <2>1, <2>2, Zenon
<1>6. /\ n \in Message /\ n.reqNum = m.reqNum /\ Len(n.req) = Len(m.req)
      /\ \A j \in 1..Len(m.req) : n.req[j].cmd = m.req[j].cmd
      /\ n.subs = m.subs /\ (m.failed => n.failed) /\ m.subFailed \subseteq n.subFailed
      /\ \A j \in 1..Len(m.req) : j # o => n.req[j].reply = m.req[j].reply
      /\ n.failed \/ (p[2] # 0 /\ o \in n.subFailed) \/ n.req[o].reply = ask[p]
  <2> HIDE DEF a, o, m
  <2>1. /\ m \in Message /\ p \in Parcels /\ ObjectOf(p) \in 1..Len(m.req)
        /\ ask[p] \in Commands /\ a \in {ask[p], Error}
    BY <1>2, <1>4, <1>5, Zenon DEF o
  <2>2. AnswerIn(n, m, p, ask[p])
    BY <2>1, AnsweredFields, Zenon
  <2> QED BY <2>2, Zenon DEF AnswerIn, o
<1>7. InRound /\ InRound'
  BY <1>1, <1>2, Zenon DEF InRound
<1> HIDE DEF n, a
<1>8. /\ msgs' \in Seq(Message) /\ Len(msgs') = Len(msgs)
      /\ msgs'[s] = n /\ \A t \in 1..Len(msgs) : t # s => msgs'[t] = msgs[t]
      /\ \A t \in 1..Len(msgs) : /\ msgs'[t].reqNum = msgs[t].reqNum
                                 /\ Len(msgs'[t].req) = Len(msgs[t].req)
                                 /\ \A j \in 1..Len(msgs[t].req) :
                                      msgs'[t].req[j].cmd = msgs[t].req[j].cmd
      /\ \A t \in 1..round : IsBatch(msgs'[t]) <=> IsBatch(msgs[t])
      /\ MessageInv'
  <2> HIDE DEF s
  <2>1. /\ n.reqNum = msgs[s].reqNum /\ Len(n.req) = Len(msgs[s].req)
        /\ \A j \in 1..Len(n.req) : n.req[j].cmd = msgs[s].req[j].cmd
    BY <1>6, Zenon
  <2> QED BY <1>1, <1>2, <1>6, <1>7, <2>1, SameCommands, Zenon
<1>9. \A t \in 1..round : t \in 1..Len(msgs) /\ msgs[t] \in Message
  BY RoundNumbers, Zenon
<1>10. TypeInv'
  <2>1. asked' \subseteq Parcels
    BY <1>1, Zenon DEF IInv, TypeInv
  <2> QED BY <1>1, <1>5, <1>8, <2>1, ZenonT(60) DEF IInv, TypeInv, InRound, Kinds
<1>11. HeldInv'
  <2>1. ASSUME NEW q \in asked'
        PROVE  /\ q \in asked /\ q[1] \in 1..round /\ ObjectOf(q) \in 1..Len(msgs[q[1]].req)
    <3>1. q \in asked /\ q \in Parcels
      BY <1>1, Zenon DEF IInv, TypeInv
    <3>2. q[1] \in 1..round /\ ObjectOf(q) <= Len(msgs[q[1]].req)
      BY <3>1, Zenon DEF IInv, HeldInv
    <3>3. ObjectOf(q) \in 1..2
      BY <3>1, ParcelFields, Zenon
    <3>4. Len(msgs[q[1]].req) \in Nat
      BY <3>2, <1>9, MessageFields, Zenon
    <3> QED BY <3>1, <3>2, <3>3, <3>4
  <2> QED BY <1>1, <1>2, <1>8, <1>9, <2>1, ZenonT(60) DEF IInv, HeldInv, ObjectOf
<1>12. PositionInv'
  BY <1>1, <1>8, <1>9, Zenon DEF IInv, PositionInv
<1>13. HandedInv'
  <2>1. ASSUME NEW t \in 1..round  PROVE SlicePanics(msgs'[t]) <=> SlicePanics(msgs[t])
    BY <1>6, <1>8, <1>9, Zenon DEF SlicePanics, IsBatch
  <2> QED BY <1>1, <1>8, <2>1, Zenon DEF IInv, HandedInv, Serves
<1>14. o \in 1..m.reqNum => Replied(s, o)'
  <2> SUFFICES ASSUME o \in 1..m.reqNum  PROVE Replied(s, o)'
    OBVIOUS
  <2>1. ask[p] = <<Serves(s), o>>
    BY <1>2, Zenon DEF IInv, MessageInv, Holds
  <2>2. IsBatch(msgs'[s]) <=> IsBatch(m)
    BY <1>2, <1>8, Zenon
  <2>3. msgs'[s].failed \/ (p[2] # 0 /\ o \in msgs'[s].subFailed)
        \/ msgs'[s].req[o].reply = <<Serves(s), o>>
    BY <1>6, <1>8, <2>1, Zenon
  <2>4. Serves(s)' = Serves(s)
    BY <1>1, Zenon DEF Serves
  <2> QED BY <1>2, <2>2, <2>3, <2>4, Zenon DEF Replied
<1>15. ASSUME NEW t \in 1..round, NEW j \in 1..msgs[t].reqNum, Replied(t, j)
       PROVE  Replied(t, j)'
  <2>1. Serves(t)' = Serves(t) /\ (IsBatch(msgs'[t]) <=> IsBatch(msgs[t]))
    BY <1>1, <1>8, Zenon DEF Serves
  <2>2. CASE t # s
    <3>1. msgs'[t] = msgs[t]
      BY <1>8, <1>9, <2>2, Zenon
    <3> QED BY <1>15, <2>1, <3>1, Zenon DEF Replied
  <2>3. CASE t = s /\ j = o
    BY <1>14, <2>3, Zenon
  <2>4. CASE t = s /\ j # o
    <3>1. j \in 1..Len(m.req)
      <4>1. m.reqNum <= Len(m.req)
        BY <1>2, Zenon DEF IInv, MessageInv, Holds
      <4>2. Len(m.req) \in Nat
        BY <1>4, MessageFields, Zenon
      <4> QED BY <1>4, <2>4, <4>1, <4>2
    <3>2. /\ msgs[t].failed => msgs'[t].failed
          /\ j \in msgs[t].subFailed => j \in msgs'[t].subFailed
          /\ msgs'[t].req[j].reply = msgs[t].req[j].reply
      BY <1>6, <1>8, <2>4, <3>1, Zenon
    <3> QED BY <1>15, <2>1, <3>2, Zenon DEF Replied
  <2> QED BY <2>2, <2>3, <2>4, Zenon
<1>16. ForwardInv'
  <2>1. ASSUME fwd = "open", NEW t \in 1..round, NEW j \in 1..msgs[t].reqNum, Passed(t, j)
        PROVE  Part(t, j)' \in asked' \/ Replied(t, j)'
    <3>1. Part(t, j)' = Part(t, j)
      BY <1>8, Zenon DEF Part
    <3>2. Part(t, j) \in asked \/ Replied(t, j)
      BY <1>2, <2>1, Zenon DEF IInv, ForwardInv
    <3>3. CASE Part(t, j) = p
      <4>1. t = s /\ j = o
        <5>1. CASE IsBatch(msgs[t])
          <6>1. <<t, j>> = <<s, p[2]>>
            BY <1>3, <3>3, <5>1, Zenon DEF Part
          <6>2. msgs[t].reqNum \in 0..2
            BY <1>9, MessageFields, Zenon
          <6>3. t = s /\ j = p[2] /\ p[2] >= 1
            BY <6>1, <6>2
          <6> QED BY <1>3, <6>3, Zenon
        <5>2. CASE ~IsBatch(msgs[t])
          <6>1. <<t, 0>> = <<s, p[2]>>
            BY <1>3, <3>3, <5>2, Zenon DEF Part
          <6>2. t = s /\ p[2] = 0
            BY <6>1, Zenon
          <6>3. msgs[t].reqNum \in 0..2
            BY <1>9, MessageFields, Zenon
          <6>4. ~(msgs[t].reqNum > 1)
            BY <5>2, Zenon DEF IsBatch
          <6>5. j = 1
            BY <6>3, <6>4
          <6>6. o = 1
            BY <1>3, <6>2
          <6> QED BY <6>2, <6>5, <6>6, Zenon
        <5> QED BY <5>1, <5>2, Zenon
      <4>2. o \in 1..m.reqNum
        BY <2>1, <4>1, Zenon
      <4> QED BY <1>14, <4>1, <4>2, Zenon
    <3>4. CASE Part(t, j) # p
      BY <1>1, <1>15, <3>1, <3>2, <3>4, Zenon
    <3> QED BY <3>3, <3>4, Zenon
  <2>2. ASSUME NEW t \in 1..round, msgs[t].failed  PROVE msgs'[t].failed
    BY <1>6, <1>8, <1>9, <2>2, Zenon
  <2>3. ASSUME NEW t \in 1..round, NEW j \in 1..msgs'[t].reqNum, Passed(t, j)', fwd = "open"
        PROVE  j \in 1..msgs[t].reqNum /\ Passed(t, j)
    BY <1>1, <1>8, <1>9, <2>3, Zenon DEF Passed
  <2>4. ASSUME fwd = "open", pc = "wait"
        PROVE  \/ at' = <<round' + 1, 1>>
               \/ MayEject' /\ at'[1] \in 1..round' /\ msgs'[at'[1]].failed
    BY <1>1, <2>2, <2>4, Zenon DEF IInv, ForwardInv, MayEject
  <2> QED BY <1>1, <2>1, <2>3, <2>4, Zenon DEF ForwardInv
<1>17. EncodeInv' /\ PanicInv'
  BY <1>1, <1>2, Zenon DEF EncodeInv, PanicInv, PanicsOnlyUnforwarded
<1>18. OutInv'
  <2>1. OwnAnswers'
    BY <1>1, OutStays, Zenon
  <2> QED BY <1>1, <1>2, <2>1, Zenon DEF IInv, OutInv, UpTo
<1> QED BY <1>8, <1>10, <1>11, <1>12, <1>13, <1>16, <1>17, <1>18 DEF IInv

\* What Forward finds at its position in a message with a request.
LEMMA ForwardFields ==
  ASSUME IInv, pc = "push", msgs[at[1]].req # << >>,
         NEW part, part = (IF IsBatch(msgs[at[1]]) THEN at[2] ELSE 0),
         NEW m, m = (IF IsBatch(msgs[at[1]]) THEN Batch(msgs[at[1]]) ELSE msgs[at[1]])
  PROVE  /\ at[1] \in 1..round /\ at[1] \in 1..Len(msgs) /\ msgs[at[1]] \in Message
         /\ <<at[1], part>> \in Parcels
         /\ <<at[1], part>>[1] = at[1] /\ <<at[1], part>>[2] = part
         /\ part \in 0..msgs[at[1]].reqNum /\ (IsBatch(msgs[at[1]]) <=> part # 0)
         /\ ObjectOf(<<at[1], part>>) \in 1..Len(msgs[at[1]].req)
         /\ m \in Message /\ m.req = msgs[at[1]].req /\ m.reqNum = msgs[at[1]].reqNum
         /\ m.failed = msgs[at[1]].failed /\ m.subFailed = msgs[at[1]].subFailed
         /\ ~SlicePanics(m)
<1> DEFINE s == at[1]
           n == msgs[s]
<1>1. s \in 1..round /\ (at[2] = 1 \/ at[2] <= n.reqNum) /\ Holds(s)
  BY Zenon DEF IInv, PositionInv, MessageInv
<1>2. /\ s \in 1..Len(msgs) /\ n \in Message /\ n.reqNum \in 0..2 /\ Len(n.req) \in Nat
      /\ n.req \in Seq(Object)
  BY <1>1, RoundNumbers, MessageFields, Zenon
<1>3. n.reqNum <= Len(n.req)
  BY <1>1, Zenon DEF Holds
<1>4. part \in 0..n.reqNum /\ part \in 0..2 /\ (IsBatch(n) <=> part # 0)
  BY <1>1, <1>2, RoundNumbers, SMTT(40) DEF IsBatch
<1>5. s \in 1..MaxMessages
  <2>1. Len(msgs) <= MaxMessages
    BY Zenon DEF IInv, TypeInv
  <2> QED BY <1>2, <2>1, Growth, RoundNumbers, SMTT(40)
<1>6. Len(n.req) # 0
  BY <1>2, SeqEmpty, Zenon
<1> HIDE DEF s, n
<1>7. /\ <<s, part>> \in Parcels /\ <<s, part>>[1] = s /\ <<s, part>>[2] = part
  BY <1>4, <1>5, Zenon DEF Parcels
<1>8. ObjectOf(<<s, part>>) \in 1..Len(n.req)
  <2>1. ObjectOf(<<s, part>>) = IF part >= 1 THEN part ELSE 1
    BY <1>7, ParcelFields, Zenon
  <2> QED BY <1>2, <1>3, <1>4, <1>6, <2>1
<1>9. /\ m \in Message /\ m.req = n.req /\ m.reqNum = n.reqNum
      /\ m.failed = n.failed /\ m.subFailed = n.subFailed /\ ~SlicePanics(m)
  <2>1. CASE IsBatch(n)
    <3>1. m = Batch(n)
      BY <2>1, Zenon DEF n, s
    <3>2. /\ m \in Message /\ m.req = n.req /\ m.reqNum = n.reqNum
          /\ m.failed = n.failed /\ m.subFailed = n.subFailed /\ m.subs >= n.reqNum
      BY <1>2, <3>1, BatchFields, Zenon
    <3>3. m.subs \in 0..2
      BY <3>2, MessageFields, Zenon
    <3>4. ~(m.subs < m.reqNum)
      BY <1>2, <3>2, <3>3
    <3> QED BY <3>2, <3>4, Zenon DEF SlicePanics
  <2>2. CASE ~IsBatch(n)
    <3>1. m = n
      BY <2>2, Zenon DEF n, s
    <3> QED BY <1>2, <2>2, <3>1, Zenon DEF SlicePanics
  <2> QED BY <2>1, <2>2, Zenon
<1> QED BY <1>1, <1>2, <1>4, <1>7, <1>8, <1>9, ZenonT(60) DEF s, n

\* A message of the round is changed and keeps its commands, replies and errors:
\* what was replied stays replied.
LEMMA SameReplies ==
  ASSUME UNCHANGED <<round, decoded>>,
         NEW s \in 1..round,
         \A t \in 1..round : t # s => msgs'[t] = msgs[t],
         msgs'[s].req = msgs[s].req, msgs'[s].reqNum = msgs[s].reqNum,
         msgs[s].failed => msgs'[s].failed, msgs'[s].subFailed = msgs[s].subFailed
  PROVE  \A t \in 1..round : \A j \in 1..msgs[t].reqNum : Replied(t, j) => Replied(t, j)'
<1> SUFFICES ASSUME NEW t \in 1..round, NEW j \in 1..msgs[t].reqNum, Replied(t, j)
             PROVE  Replied(t, j)'
  OBVIOUS
<1>1. Serves(t)' = Serves(t)
  BY Zenon DEF Serves
<1>2. CASE t = s
  BY <1>1, <1>2, Zenon DEF Replied, IsBatch
<1>3. CASE t # s
  BY <1>1, <1>3, Zenon DEF Replied, IsBatch
<1> QED BY <1>2, <1>3, Zenon

\* The ring is empty: Forward fails the message and gives up.
LEMMA GiveUpStep ==
  ASSUME Inv, crashed = "no", front' = front, pc = "push", ~ring,
         msgs[at[1]].req # << >>,
         NEW m, m = (IF IsBatch(msgs[at[1]]) THEN Batch(msgs[at[1]]) ELSE msgs[at[1]]),
         msgs' = [msgs EXCEPT ![at[1]] = [m EXCEPT !.failed = TRUE]],
         pc' = "wait",
         UNCHANGED <<round, at, sent, decoded, out, handed, fwd, asked, ask, answer, crashed>>
  PROVE  IInv'
<1> DEFINE s == at[1]
           n == [m EXCEPT !.failed = TRUE]
<1>1. IInv /\ MayEject
  BY Zenon DEF Inv, RingInv
<1>2. /\ s \in 1..round /\ s \in 1..Len(msgs) /\ msgs[s] \in Message
      /\ m \in Message /\ m.req = msgs[s].req /\ m.reqNum = msgs[s].reqNum
      /\ m.subFailed = msgs[s].subFailed /\ ~SlicePanics(m)
  BY <1>1, ForwardFields, Zenon
<1>3. /\ n \in Message /\ n.req = m.req /\ n.reqNum = m.reqNum /\ n.subs = m.subs
      /\ n.failed = TRUE /\ n.subFailed = m.subFailed
  <2>1. 1 \in 1..2
    OBVIOUS
  <2> QED BY <1>2, <2>1, ErrorPut, Zenon
<1>4. msgs' = [msgs EXCEPT ![s] = n]
  OBVIOUS
<1>5. InRound /\ InRound'
  BY Zenon DEF InRound
<1> HIDE DEF s, n
<1>6. /\ msgs' \in Seq(Message) /\ Len(msgs') = Len(msgs)
      /\ msgs'[s] = n /\ \A t \in 1..Len(msgs) : t # s => msgs'[t] = msgs[t]
      /\ \A t \in 1..Len(msgs) : /\ msgs'[t].reqNum = msgs[t].reqNum
                                 /\ Len(msgs'[t].req) = Len(msgs[t].req)
                                 /\ \A j \in 1..Len(msgs[t].req) :
                                      msgs'[t].req[j].cmd = msgs[t].req[j].cmd
      /\ \A t \in 1..round : IsBatch(msgs'[t]) <=> IsBatch(msgs[t])
      /\ MessageInv'
  <2>1. /\ n.reqNum = msgs[s].reqNum /\ Len(n.req) = Len(msgs[s].req)
        /\ \A j \in 1..Len(n.req) : n.req[j].cmd = msgs[s].req[j].cmd
    BY <1>2, <1>3, Zenon
  <2> QED BY <1>1, <1>2, <1>3, <1>4, <1>5, <2>1, SameCommands, ZenonT(60)
<1>7. \A t \in 1..round : t \in 1..Len(msgs)
  BY <1>1, RoundNumbers, Zenon
<1>8. TypeInv'
  BY <1>1, <1>6, Zenon DEF IInv, TypeInv, InRound, Kinds
<1>9. HeldInv'
  <2>1. ASSUME NEW q \in asked
        PROVE  q[1] \in 1..round /\ ObjectOf(q) \in 1..Len(msgs[q[1]].req)
    <3>1. q[1] \in 1..round /\ ObjectOf(q) <= Len(msgs[q[1]].req) /\ q \in Parcels
      BY <1>1, Zenon DEF IInv, HeldInv, TypeInv
    <3>2. ObjectOf(q) \in 1..2
      BY <3>1, ParcelFields, Zenon
    <3>3. Len(msgs[q[1]].req) \in Nat
      BY <1>1, <3>1, RoundNumbers, MessageFields, Zenon
    <3> QED BY <3>1, <3>2, <3>3
  <2> QED BY <1>1, <1>6, <1>7, <2>1, ZenonT(60) DEF IInv, HeldInv
<1>10. PositionInv' /\ EncodeInv'
  BY Zenon DEF PositionInv, EncodeInv
<1>11. HandedInv'
  <2>1. ~SlicePanics(n)
    BY <1>2, <1>3, Zenon DEF SlicePanics, IsBatch
  <2>2. ASSUME NEW t \in 1..round  PROVE SlicePanics(msgs'[t]) => SlicePanics(msgs[t])
    BY <1>6, <1>7, <2>1, Zenon
  <2> QED BY <1>1, <1>6, <2>2, Zenon DEF IInv, HandedInv, Serves
<1>12. ForwardInv'
  <2>1. \A t \in 1..round : \A j \in 1..msgs[t].reqNum : Replied(t, j) => Replied(t, j)'
    <3>1. /\ \A t \in 1..round : t # s => msgs'[t] = msgs[t]
          /\ msgs'[s].req = msgs[s].req /\ msgs'[s].reqNum = msgs[s].reqNum
          /\ msgs[s].failed => msgs'[s].failed /\ msgs'[s].subFailed = msgs[s].subFailed
          /\ msgs'[s].subFailed = msgs[s].subFailed
      BY <1>2, <1>3, <1>6, <1>7, Zenon
    <3> QED BY <1>2, <3>1, SameReplies, Zenon
  <2>2. ASSUME fwd = "open", NEW t \in 1..round, NEW j \in 1..msgs'[t].reqNum, Passed(t, j)'
        PROVE  Part(t, j)' \in asked' \/ Replied(t, j)'
    <3>1. j \in 1..msgs[t].reqNum /\ Passed(t, j) /\ Part(t, j)' = Part(t, j)
      BY <1>6, <1>7, <2>2, Zenon DEF Passed, Part
    <3> QED BY <1>1, <2>1, <2>2, <3>1, Zenon DEF IInv, ForwardInv
  <2>3. MayEject' /\ at'[1] \in 1..round' /\ msgs'[at'[1]].failed
    BY <1>1, <1>2, <1>3, <1>6, Zenon DEF s, MayEject
  <2> QED BY <2>2, <2>3, Zenon DEF ForwardInv
<1>13. PanicInv'
  BY Zenon DEF PanicInv, PanicsOnlyUnforwarded
<1>14. OutInv'
  <2>1. OwnAnswers'
    BY <1>1, OutStays, Zenon
  <2> QED BY <1>1, <2>1, Zenon DEF IInv, OutInv, UpTo
<1> QED BY <1>6, <1>8, <1>9, <1>10, <1>11, <1>12, <1>13, <1>14, ZenonT(60) DEF IInv

\* Forward hands the message or sub-message at its position to a pipe.
LEMMA PushStep ==
  ASSUME IInv, crashed = "no", front' = front, Forward, ring, msgs[at[1]].req # << >>
  PROVE  IInv'
<1> DEFINE s == at[1]
           part == IF IsBatch(msgs[s]) THEN at[2] ELSE 0
           m == IF IsBatch(msgs[s]) THEN Batch(msgs[s]) ELSE msgs[s]
           p == <<s, part>>
           o == ObjectOf(p)
           cmd == msgs[s].req[o].cmd
           more == part # 0 /\ part < msgs[s].reqNum
<1>1. /\ s \in 1..round /\ s \in 1..Len(msgs) /\ msgs[s] \in Message
      /\ p \in Parcels /\ p[1] = s /\ p[2] = part
      /\ part \in 0..msgs[s].reqNum /\ (IsBatch(msgs[s]) <=> part # 0)
      /\ o \in 1..Len(msgs[s].req)
      /\ m \in Message /\ m.req = msgs[s].req /\ m.reqNum = msgs[s].reqNum
      /\ m.failed = msgs[s].failed /\ m.subFailed = msgs[s].subFailed /\ ~SlicePanics(m)
  <2>1. pc = "push"
    BY Zenon DEF Forward
  <2> QED BY <2>1, ForwardFields, Zenon
<1>2. /\ p \notin asked /\ asked' = asked \cup {p} /\ ask' = [ask EXCEPT ![p] = cmd]
      /\ answer' = [answer EXCEPT ![p] = None]
  BY Zenon DEF Forward, Pipe!Push
<1>3. /\ pc = "push" /\ msgs' = [msgs EXCEPT ![s] = m] /\ handed' = handed \cup {cmd}
      /\ at' = (IF more THEN <<s, part + 1>> ELSE <<s + 1, 1>>)
      /\ pc' = (IF ~more /\ s = round THEN "wait" ELSE "push")
      /\ UNCHANGED <<front, round, sent, decoded, out, fwd, crashed>>
  BY Zenon DEF Forward, client, env
<1>4. InRound /\ InRound' /\ pc' \in {"push", "wait"}
  BY <1>3, Zenon DEF InRound
<1>5. /\ msgs[s].reqNum \in 0..2 /\ s \in Nat /\ part \in 0..2 /\ cmd \in Commands
      /\ cmd[1] \in Int /\ cmd[1] <= decoded
  <2>1. msgs[s].reqNum \in 0..2 /\ cmd \in Commands
    BY <1>1, MessageFields, Zenon
  <2>2. cmd[1] \in Int
    <3> HIDE DEF cmd
    <3> QED BY <2>1, SMTT(40) DEF Commands
  <2>3. cmd[1] <= decoded
    BY <1>1, ObjectsDecoded, Zenon
  <2>4. s \in 1..round /\ round \in Nat /\ part \in 0..msgs[s].reqNum
    BY <1>1, RoundNumbers, Zenon
  <2> HIDE DEF s, part
  <2>5. s \in Nat /\ part \in 0..2
    BY <2>1, <2>4
  <2> QED BY <2>1, <2>2, <2>3, <2>5, Zenon
<1> HIDE DEF s, part, m, p, o, cmd, more
<1>6. /\ msgs' \in Seq(Message) /\ Len(msgs') = Len(msgs)
      /\ msgs'[s] = m /\ \A t \in 1..Len(msgs) : t # s => msgs'[t] = msgs[t]
      /\ \A t \in 1..Len(msgs) : /\ msgs'[t].reqNum = msgs[t].reqNum
                                 /\ Len(msgs'[t].req) = Len(msgs[t].req)
                                 /\ \A j \in 1..Len(msgs[t].req) :
                                      msgs'[t].req[j].cmd = msgs[t].req[j].cmd
      /\ \A t \in 1..round : IsBatch(msgs'[t]) <=> IsBatch(msgs[t])
      /\ MessageInv'
  <2>1. /\ m.reqNum = msgs[s].reqNum /\ Len(m.req) = Len(msgs[s].req)
        /\ \A j \in 1..Len(m.req) : m.req[j].cmd = msgs[s].req[j].cmd
    BY <1>1, Zenon
  <2> QED BY <1>1, <1>3, <1>4, <2>1, SameCommands, ZenonT(60)
<1>7. \A t \in 1..round : t \in 1..Len(msgs) /\ msgs[t] \in Message
  BY RoundNumbers, Zenon
<1>8. /\ at' \in Nat \X (1..2)
      /\ more => at'[1] = s /\ at'[2] = part + 1 /\ part + 1 <= msgs[s].reqNum
      /\ ~more => at'[1] = s + 1 /\ at'[2] = 1
  <2>1. CASE more
    <3>1. at' = <<s, part + 1>> /\ part < msgs[s].reqNum
      BY <1>3, <2>1, Zenon DEF more
    <3>2. part + 1 \in 1..2 /\ part + 1 <= msgs[s].reqNum
      BY <1>5, <3>1
    <3> QED BY <1>5, <2>1, <3>1, <3>2
  <2>2. CASE ~more
    <3>1. at' = <<s + 1, 1>>
      BY <1>3, <2>2, Zenon
    <3> QED BY <1>5, <2>2, <3>1
  <2> QED BY <2>1, <2>2, Zenon
<1>9. TypeInv'
  <2>1. asked' \subseteq Parcels /\ handed' \subseteq Commands
    BY <1>1, <1>2, <1>3, <1>5, Zenon DEF IInv, TypeInv
  <2>2. /\ ask' \in [Parcels -> Commands \cup {None}]
        /\ answer' \in [Parcels -> Commands \cup {None, Error}]
    BY <1>1, <1>2, <1>5, Zenon DEF IInv, TypeInv
  <2> QED BY <1>3, <1>4, <1>6, <1>8, <2>1, <2>2, ZenonT(60) DEF IInv, TypeInv, Kinds
<1>10. HeldInv'
  <2>1. ASSUME NEW q \in asked
        PROVE  /\ q[1] \in 1..round' /\ ObjectOf(q) <= Len(msgs'[q[1]].req)
               /\ q[2] # 0 => IsBatch(msgs'[q[1]])
               /\ q[2] = 0 => ~IsBatch(msgs'[q[1]])
               /\ q[2] <= msgs'[q[1]].reqNum
               /\ ask'[q] = msgs'[q[1]].req[ObjectOf(q)].cmd
    <3>1. /\ q[1] \in 1..round /\ ObjectOf(q) <= Len(msgs[q[1]].req) /\ q \in Parcels
          /\ q[2] # 0 => IsBatch(msgs[q[1]])
          /\ q[2] = 0 => ~IsBatch(msgs[q[1]])
          /\ q[2] <= msgs[q[1]].reqNum
          /\ ask[q] = msgs[q[1]].req[ObjectOf(q)].cmd
      BY Zenon DEF IInv, HeldInv, TypeInv
    <3>2. ObjectOf(q) \in 1..Len(msgs[q[1]].req)
      <4>1. ObjectOf(q) \in 1..2
        BY <3>1, ParcelFields, Zenon
      <4>2. Len(msgs[q[1]].req) \in Nat
        BY <1>7, <3>1, MessageFields, Zenon
      <4> QED BY <3>1, <4>1, <4>2
    <3>3. ask'[q] = ask[q]
      <4>1. q # p /\ ask \in [Parcels -> Commands \cup {None}]
        BY <1>2, Zenon DEF IInv, TypeInv
      <4> QED BY <1>2, <3>1, <4>1, Zenon
    <3> QED BY <1>3, <1>6, <1>7, <3>1, <3>2, <3>3, Zenon
  <2>2. /\ p[1] \in 1..round' /\ ObjectOf(p) <= Len(msgs'[p[1]].req)
        /\ p[2] # 0 => IsBatch(msgs'[p[1]])
        /\ p[2] = 0 => ~IsBatch(msgs'[p[1]])
        /\ p[2] <= msgs'[p[1]].reqNum
        /\ ask'[p] = msgs'[p[1]].req[ObjectOf(p)].cmd
    <3>1. ask'[p] = cmd
      BY <1>1, <1>2, Zenon DEF IInv, TypeInv
    <3>2. part <= msgs[s].reqNum /\ o <= Len(msgs[s].req)
      <4>1. Len(msgs[s].req) \in Nat
        BY <1>1, MessageFields, Zenon
      <4> QED BY <1>1, <1>5, <4>1
    <3> QED BY <1>1, <1>3, <1>6, <3>1, <3>2, Zenon DEF o, cmd
  <2> QED BY <1>2, <1>4, <2>1, <2>2, Zenon DEF HeldInv
<1>11. PositionInv'
  <2>1. CASE more
    <3>1. pc' = "push" /\ at'[1] = s /\ at'[2] <= msgs[s].reqNum
      BY <1>3, <1>8, <2>1, Zenon
    <3> QED BY <1>1, <1>3, <1>6, <3>1, Zenon DEF PositionInv
  <2>2. CASE ~more
    <3>1. s # round => s + 1 \in 1..round
      BY <1>1, RoundNumbers, SMTT(40)
    <3>2. at'[1] = s + 1 /\ at'[2] = 1 /\ (pc' = "push" => s # round)
      BY <1>3, <1>8, <2>2, Zenon
    <3> QED BY <1>3, <1>4, <3>1, <3>2, Zenon DEF PositionInv
  <2> QED BY <2>1, <2>2, Zenon
<1>12. HandedInv'
  <2>1. \A c \in handed' : c[1] <= decoded'
    BY <1>3, <1>5, Zenon DEF IInv, HandedInv
  <2>2. ASSUME NEW t \in 1..round, t # s  PROVE cmd # <<Serves(t), 1>>
    <3>1. Serves(t) > decoded - round /\ Serves(t) # Serves(s) /\ Serves(t) \in Int
      BY <1>1, <2>2, RoundNumbers, SMTT(40) DEF Serves
    <3>2. cmd[1] = Serves(s) \/ cmd[1] <= decoded - round
      <4>1. CASE o \in 1..msgs[s].reqNum
        <5>1. cmd = <<Serves(s), o>>
          BY <1>1, <4>1, Zenon DEF IInv, MessageInv, Holds, cmd
        <5> QED BY <5>1, Zenon
      <4>2. CASE o \notin 1..msgs[s].reqNum
        <5>1. o \in (msgs[s].reqNum + 1)..Len(msgs[s].req)
          <6>1. Len(msgs[s].req) \in Nat
            BY <1>1, MessageFields, Zenon
          <6> QED BY <1>1, <1>5, <4>2, <6>1
        <5> QED BY <1>1, <5>1, Zenon DEF IInv, MessageInv, OldBeyond, cmd
      <4> QED BY <4>1, <4>2, Zenon
    <3>3. cmd[1] # Serves(t)
      BY <1>5, <3>1, <3>2, RoundNumbers, SMTT(40)
    <3>4. <<Serves(t), 1>>[1] = Serves(t)
      OBVIOUS
    <3> QED BY <3>3, <3>4, Zenon
  <2>3. ASSUME NEW t \in 1..round, <<Serves(t), 1>> \in handed', IsBatch(msgs'[t])
        PROVE  ~SlicePanics(msgs'[t])
    <3>1. CASE t = s
      BY <1>1, <1>6, <3>1, Zenon
    <3>2. CASE t # s
      <4>1. msgs'[t] = msgs[t] /\ <<Serves(t), 1>> \in handed
        BY <1>3, <1>6, <1>7, <2>2, <2>3, <3>2, Zenon
      <4> QED BY <2>3, <4>1, Zenon DEF IInv, HandedInv
    <3> QED BY <3>1, <3>2, Zenon
  <2> QED BY <1>3, <2>1, <2>3, Zenon DEF HandedInv, Serves
<1>13. ForwardInv'
  <2>1. \A t \in 1..round : \A j \in 1..msgs[t].reqNum : Replied(t, j) => Replied(t, j)'
    <3>1. /\ \A t \in 1..round : t # s => msgs'[t] = msgs[t]
          /\ msgs'[s].req = msgs[s].req /\ msgs'[s].reqNum = msgs[s].reqNum
          /\ (msgs[s].failed => msgs'[s].failed) /\ msgs'[s].subFailed = msgs[s].subFailed
      BY <1>1, <1>6, <1>7, Zenon
    <3> QED BY <1>1, <1>3, <3>1, SameReplies, Zenon
  <2>2. ASSUME NEW t \in 1..round, NEW j \in 1..msgs[t].reqNum, Passed(t, j)'
        PROVE  Passed(t, j) \/ Part(t, j) = p
    <3>1. CASE t < s
      BY <3>1, Zenon DEF Passed, s
    <3>2. CASE ~(t < s)
      <4>1. t = s
        BY <1>5, <1>8, <2>2, <3>2, RoundNumbers, SMTT(40) DEF Passed
      <4>2. CASE ~IsBatch(msgs[s])
        BY <4>1, <4>2, Zenon DEF Part, p, part
      <4>3. CASE IsBatch(msgs[s])
        <5>1. part = at[2] /\ part # 0
          BY <1>1, <4>3, Zenon DEF part
        <5>2. j <= part
          <6>1. CASE more
            <7>1. j < part + 1
              BY <1>8, <2>2, <4>1, <6>1, <1>5 DEF Passed
            <7> QED BY <1>5, <4>1, <7>1
          <6>2. CASE ~more
            <7>1. ~(part < msgs[s].reqNum)
              BY <5>1, <6>2, Zenon DEF more
            <7> QED BY <1>5, <4>1, <7>1
          <6> QED BY <6>1, <6>2, Zenon
        <5>3. j < at[2] \/ j = part
          BY <1>5, <4>1, <5>1, <5>2
        <5> QED BY <4>1, <4>3, <5>3, Zenon DEF Passed, Part, p, s
      <4> QED BY <4>2, <4>3, Zenon
    <3> QED BY <3>1, <3>2, Zenon
  <2>3. ASSUME fwd = "open", NEW t \in 1..round, NEW j \in 1..msgs'[t].reqNum, Passed(t, j)'
        PROVE  Part(t, j)' \in asked' \/ Replied(t, j)'
    <3>1. j \in 1..msgs[t].reqNum /\ Part(t, j)' = Part(t, j)
      BY <1>6, <1>7, <2>3, Zenon DEF Part
    <3>2. Passed(t, j) \/ Part(t, j) = p
      BY <2>2, <2>3, <3>1, Zenon
    <3> QED BY <1>2, <1>3, <2>1, <2>3, <3>1, <3>2, ZenonT(60) DEF IInv, ForwardInv
  <2>4. pc' = "wait" => at' = <<round' + 1, 1>>
    BY <1>3, Zenon
  <2> QED BY <1>3, <1>4, <2>3, <2>4, Zenon DEF ForwardInv
<1>14. EncodeInv' /\ PanicInv'
  BY <1>3, <1>4, Zenon DEF EncodeInv, PanicInv, PanicsOnlyUnforwarded
<1>15. OutInv'
  <2>1. OwnAnswers'
    BY <1>3, OutStays, Zenon
  <2> QED BY <1>3, <1>4, <2>1, Zenon DEF IInv, OutInv, UpTo
<1> QED BY <1>6, <1>9, <1>10, <1>11, <1>12, <1>13, <1>14, <1>15 DEF IInv

\* One turn of Forward's loops.
LEMMA ForwardStep ==
  ASSUME Inv, crashed = "no", front' = front, Forward
  PROVE  IInv'
<1> DEFINE s == at[1]
           m == msgs[s]
           batched == IF IsBatch(m) THEN Batch(m) ELSE m
<1>1. IInv /\ pc = "push"
  BY Zenon DEF Inv, Forward
<1>2. CASE m.req = << >> /\ Panic("forward")
  <2>1. s \in 1..round /\ Holds(s)
    BY <1>1, Zenon DEF IInv, PositionInv, MessageInv
  <2>2. m \in Message /\ Len(m.req) = 0
    BY <1>1, <1>2, <2>1, RoundNumbers, SeqEmpty, Zenon
  <2>3. m.reqNum \in 0..2 /\ m.reqNum <= 0
    BY <2>1, <2>2, MessageFields, Zenon DEF Holds
  <2>4. KeysOf(sent[Serves(s)]) = 0
    <3>1. m.reqNum = 0
      BY <2>3
    <3> QED BY <2>1, <3>1, Zenon DEF Holds
  <2> QED BY <1>1, <1>2, <2>1, <2>4, PanicStep, Zenon
<1>3. CASE /\ m.req # << >> /\ ~ring
           /\ msgs' = [msgs EXCEPT ![s] = [batched EXCEPT !.failed = TRUE]]
           /\ pc' = "wait"
           /\ UNCHANGED <<round, at, authorized, client, out, handed, env, pipes, crashed>>
  <2>1. UNCHANGED <<round, at, sent, decoded, out, handed, fwd, asked, ask, answer, crashed>>
    BY <1>3, Zenon DEF client, env, pipes
  <2> QED BY <1>1, <1>3, <2>1, GiveUpStep, Zenon
<1>4. CASE m.req # << >> /\ ring
  BY <1>1, <1>4, PushStep, Zenon
<1> QED BY <1>2, <1>3, <1>4, Zenon DEF Forward

\* Every step keeps the invariant.
LEMMA NextInv == Inv /\ [Next]_vars => Inv'
<1> SUFFICES ASSUME Inv, [Next]_vars  PROVE Inv'
  OBVIOUS
<1>1. IInv /\ RingInv
  BY Zenon DEF Inv
<1>2. CASE UNCHANGED vars
  <2>1. /\ UNCHANGED <<front, pc, msgs, round, sent, decoded, at, out, handed, asked, ask,
                       answer, crashed, fwd, ring>>
    BY <1>2, Zenon DEF vars, client, env, pipes
  <2>2. (TypeInv /\ MessageInv /\ HeldInv /\ HandedInv /\ PositionInv)'
    BY <1>1, <2>1, ZenonT(60) DEF IInv, TypeInv, Kinds, MessageInv, OldBeyond, Holds, Serves,
         HeldInv, IsBatch, ObjectOf, HandedInv, SlicePanics, PositionInv, InRound
  <2>3. ForwardInv'
    BY <1>1, <2>1, ZenonT(60) DEF IInv, ForwardInv, Passed, Part, Replied, IsBatch, Serves, MayEject
  <2>4. EncodeInv'
    BY <1>1, <2>1, ZenonT(60) DEF IInv, EncodeInv, Replied, IsBatch, Serves, MayEject, Redis
  <2>5. OutInv'
    BY <1>1, <2>1, ZenonT(60) DEF IInv, OutInv, OwnAnswers, UpTo, Serves, MayEject, Redis
  <2>6. PanicInv'
    BY <1>1, <2>1, Zenon DEF IInv, PanicInv, PanicsOnlyUnforwarded, Serves, IsBatch
  <2>7. RingInv'
    BY <1>1, <2>1, Zenon DEF RingInv, MayEject
  <2> QED BY <2>2, <2>3, <2>4, <2>5, <2>6, <2>7 DEF Inv, IInv
<1>3. CASE Next
  <2>1. crashed = "no" /\ front' = front
    BY <1>3, Zenon DEF Next
  <2>2. IInv'
    <3>1. CASE Decode
      BY <1>1, <2>1, <3>1, DecodeStep
    <3>2. CASE CmdCheck
      BY <1>1, <2>1, <3>2, CmdCheckStep
    <3>3. CASE Enter
      BY <1>1, <2>1, <3>3, EnterStep
    <3>4. CASE Forward
      BY <2>1, <3>4, ForwardStep, Zenon
    <3>5. CASE Wait
      BY <1>1, <2>1, <3>5, WaitStep
    <3>6. CASE Encode
      BY <1>1, <2>1, <3>6, EncodeStep
    <3>7. CASE Flush
      BY <1>1, <2>1, <3>7, FlushStep
    <3>8. CASE ReadFails
      BY <1>1, <2>1, <3>8, ReadFailsStep, Zenon
    <3>9. ASSUME NEW kind \in Kinds, Send(kind)  PROVE IInv'
      BY <1>1, <2>1, <3>9, SendStep, Zenon
    <3>10. ASSUME NEW p \in asked, Done(p)  PROVE IInv'
      BY <1>1, <2>1, <3>10, DoneStep, Zenon
    <3>11. CASE RingChanges \/ CloseForwarder \/ \E p \in asked : Abandon(p)
      BY <1>1, <2>1, <3>11, OutsideStep
    <3> QED BY <1>3, <3>1, <3>2, <3>3, <3>4, <3>5, <3>6, <3>7, <3>8, <3>9, <3>10, <3>11, Zenon
         DEF Next, Step
  <2>3. RingInv'
    <3>1. MayEject' = MayEject
      BY <2>1, Zenon DEF MayEject
    <3>2. CASE RingChanges
      BY <3>1, <3>2, Zenon DEF RingChanges, RingInv
    <3>3. CASE ring' = ring
      BY <1>1, <3>1, <3>3, Zenon DEF RingInv
    <3>4. RingChanges \/ ring' = ring
      BY <1>3, Zenon DEF Next, Step, Decode, CmdCheck, Enter, Forward, Wait, Encode, Flush,
           ReadFails, Send, Done, Abandon, CloseForwarder, Close, Panic, env
    <3> QED BY <3>2, <3>3, <3>4, Zenon
  <2> QED BY <2>2, <2>3, Zenon DEF Inv
<1> QED BY <1>2, <1>3, Zenon

-----------------------------------------------------------------------------
(* The theorems *)

\* The invariant holds in every state.
LEMMA Invariance == Spec => []Inv
<1>1. Init => Inv
  BY InitInv, Zenon DEF Init, Inv, RingInv
<1> QED BY <1>1, NextInv, PTL DEF Spec

\* Until the forwarder is closed, and in whatever order requests are decoded,
\* forwarded and answered: every reply the client reads answers a later request
\* than the one before, and is an error or the replies of the nodes to that
\* request's own commands (handle, Encode, Requests, Reset).  OwnAnswers names what
\* is left out.
THEOREM RepliesAnswerOwnRequest == Spec => []OwnAnswers
<1>1. Inv => OwnAnswers
  BY Zenon DEF Inv, IInv, OutInv
<1> QED BY <1>1, Invariance, PTL

\* The process panics in Forward, Err or ResetSubs only in a round with a command
\* without a key, or with a multi-key request of which nothing was forwarded.
THEOREM PanicsAreUnforwarded == Spec => []PanicsOnlyUnforwarded
<1>1. Inv => PanicsOnlyUnforwarded
  BY Zenon DEF Inv, IInv, PanicInv
<1> QED BY <1>1, Invariance, PTL

\* A step that leaves a message with its pipe leaves the command it was asked for.
LEMMA AskKept ==
  ASSUME Inv, Next
  PROVE  \A p \in asked \cap asked' : ask'[p] = ask[p]
<1>1. CASE ask' = ask
  BY <1>1, Zenon
<1>2. CASE \E q, r : Pipe!Push(q, r)
  <2>1. PICK q, r : Pipe!Push(q, r)
    BY <1>2, Zenon
  <2>2. q \notin asked /\ ask' = [ask EXCEPT ![q] = r]
    BY <2>1, Zenon DEF Pipe!Push
  <2>3. ask \in [Parcels -> Commands \cup {None}] /\ asked \subseteq Parcels
    BY Zenon DEF Inv, IInv, TypeInv
  <2> QED BY <2>2, <2>3, Zenon
<1>3. ask' = ask \/ \E q, r : Pipe!Push(q, r)
  <2>1. CASE Forward
    BY <2>1, Zenon DEF Forward, Panic, pipes
  <2>2. CASE ~Forward
    BY <2>2, Zenon DEF Next, Step, Decode, CmdCheck, Enter, Wait, Encode, Flush, ReadFails,
         Send, Done, Pipe!Done, Abandon, RingChanges, CloseForwarder, Close, Panic, pipes
  <2> QED BY <2>1, <2>2, Zenon
<1> QED BY <1>1, <1>2, <1>3, Zenon

\* Between Push and Done the handler does not reset the message, give it back to
\* the pool or decode into it: the command the pipe was given stays in it.
THEOREM HeldMessagesStay == Spec => HeldUntouched
<1>1. ASSUME Inv, [Next]_vars
      PROVE  [\A p \in asked \cap asked' :
                /\ p[1] \in DOMAIN msgs'
                /\ msgs'[p[1]].req[ObjectOf(p)].cmd = ask[p]]_vars
  <2>1. CASE UNCHANGED vars
    BY <2>1, Zenon
  <2>2. CASE Next
    <3>1. Inv'
      BY <1>1, NextInv, Zenon
    <3>2. ASSUME NEW p \in asked \cap asked'
          PROVE  p[1] \in DOMAIN msgs' /\ msgs'[p[1]].req[ObjectOf(p)].cmd = ask[p]
      <4>1. /\ p[1] \in 1..round' /\ ask'[p] = msgs'[p[1]].req[ObjectOf(p)].cmd
            /\ round' \in 0..Len(msgs') /\ msgs' \in Seq(Message)
        BY <3>1, Zenon DEF Inv, IInv, HeldInv, TypeInv
      <4>2. p[1] \in DOMAIN msgs'
        BY <4>1, SeqLength
      <4>3. ask'[p] = ask[p]
        BY <1>1, <2>2, AskKept, Zenon
      <4> QED BY <4>1, <4>2, <4>3, Zenon
    <3> QED BY <3>2, Zenon
  <2> QED BY <1>1, <2>1, <2>2, Zenon
<1> QED BY <1>1, Invariance, PTL DEF Spec, HeldUntouched

=============================================================================
