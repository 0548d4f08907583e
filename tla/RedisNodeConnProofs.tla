------------------------- MODULE RedisNodeConnProofs -------------------------
(***************************************************************************)
(* The theorems about RedisNodeConn, for any number of requests and any    *)
(* size of a batch.                                                        *)
(***************************************************************************)
EXTENDS RedisNodeConn, TLAPS, SequenceTheorems

-----------------------------------------------------------------------------
(* The inductive invariant.                                                *)

\* the requests i+1 to j, in order
Span(i, j) == [k \in 1..(j - i) |-> i + k]

\* The counters, the places of the two goroutines and the errors.
PlaceInv ==
  /\ mixed \in BOOLEAN /\ rerr \in BOOLEAN
  /\ done \in Nat /\ written \in Nat /\ done <= written /\ written <= MaxReqs
  /\ reply \in [1..MaxReqs -> Replies \cup {NoReply, Junk}]
  /\ authPc \in {"write", "flush", "read", "end"} /\ pipePc \in {"write", "read", "end"}
  /\ closed => pipePc = "end"
  /\ werr => closed
  /\ rerr => authPc = "end"
  /\ pipePc = "read" => InBatch

\* What is on the connection while the pipe uses it and DoAuth has not got in its
\* way: the command and the reply of AUTH, or what the batch has written and not
\* yet read, in order.  A late reply to AUTH is behind an error of the reader.
WireInv ==
  /\ authPc = "flush" => ~InBatch /\ buf = <<Auth>> /\ stream = << >>
  /\ authPc = "read" => ~InBatch /\ buf = << >> /\ stream = <<Auth>>
  /\ authPc \in {"write", "end"} /\ pipePc = "write" =>
       buf = Span(done, written) /\ (~rerr => stream = << >>)
  /\ pipePc = "read" => ~InAuth /\ buf = << >> /\ (~rerr => stream = Span(done, written))

IInv ==
  /\ PlaceInv
  /\ OwnUnlessMixed
  /\ ~mixed /\ pipePc # "end" => WireInv

-----------------------------------------------------------------------------
(* Spans.                                                                  *)

\* Nothing is left of a batch that has been read.
LEMMA SpanEmpty ==
  ASSUME NEW i \in Nat
  PROVE  Span(i, i) = << >>
BY DEF Span

\* A span is a sequence.
LEMMA SpanSeq ==
  ASSUME NEW i \in Nat, NEW j \in Nat, i <= j
  PROVE  Span(i, j) \in Seq(Nat) /\ Len(Span(i, j)) = j - i
<1>1. Span(i, j) \in [1..(j - i) -> Nat] /\ j - i \in Nat
  BY DEF Span
<1>2. Span(i, j) \in Seq(Nat)
  BY <1>1, SeqDef
<1>3. DOMAIN Span(i, j) = 1..(j - i)
  BY <1>1
<1> QED
  BY <1>1, <1>2, <1>3, LenProperties

\* Write appends the next request.
LEMMA SpanAppend ==
  ASSUME NEW i \in Nat, NEW j \in Nat, i <= j
  PROVE  Append(Span(i, j), j + 1) = Span(i, j + 1)
<1> DEFINE s == Span(i, j)
           t == Append(s, j + 1)
           u == Span(i, j + 1)
<1>1. s \in Seq(Nat) /\ Len(s) = j - i /\ j + 1 \in Nat
  BY SpanSeq
<1>2. u \in Seq(Nat) /\ Len(u) = j + 1 - i
  BY SpanSeq
<1>3. \A k \in 1..(j - i) : s[k] = i + k
  BY DEF Span
<1>4. \A k \in 1..(j + 1 - i) : u[k] = i + k
  BY DEF Span
<1> HIDE DEF s, u
<1>5. /\ t \in Seq(Nat) /\ Len(t) = Len(s) + 1
      /\ \A k \in 1..Len(s) : t[k] = s[k]
      /\ t[Len(s) + 1] = j + 1
  BY <1>1, AppendProperties
<1>6. \A k \in 1..Len(t) : t[k] = u[k]
  BY <1>1, <1>3, <1>4, <1>5
<1> HIDE DEF t
<1>7. t = u
  BY <1>1, <1>2, <1>5, <1>6, SeqEqual
<1> QED
  BY <1>7 DEF s, t, u

\* Read takes the first request.
LEMMA SpanNext ==
  ASSUME NEW i \in Nat, NEW j \in Nat, i < j
  PROVE  Span(i, j)[1] = i + 1 /\ SubSeq(Span(i, j), 2, Len(Span(i, j))) = Span(i + 1, j)
<1> DEFINE s == Span(i, j)
           t == SubSeq(s, 2, Len(s))
           u == Span(i + 1, j)
<1>1. s \in Seq(Nat) /\ Len(s) = j - i
  BY SpanSeq
<1>2. u \in Seq(Nat) /\ Len(u) = j - i - 1
  BY SpanSeq
<1>3. \A k \in 1..(j - i) : s[k] = i + k
  BY DEF Span
<1>4. \A k \in 1..(j - i - 1) : u[k] = i + 1 + k
  BY DEF Span
<1> HIDE DEF s, u
<1>5. t \in Seq(Nat) /\ Len(t) = j - i - 1 /\ \A k \in 1..(j - i - 1) : t[k] = s[k + 1]
  BY <1>1
<1>6. \A k \in 1..Len(t) : t[k] = u[k]
  BY <1>3, <1>4, <1>5
<1> HIDE DEF t
<1>7. t = u
  BY <1>2, <1>5, <1>6, SeqEqual
<1>8. s[1] = i + 1
  BY <1>3
<1> QED
  BY <1>7, <1>8 DEF s, t, u
-----------------------------------------------------------------------------
(* Each step.                                                              *)

\* While the two have not overlapped, the reply that is decoded is the next one.
LEMMA DecodesNext ==
  ASSUME ~mixed, NEW x, Decodes(x)
  PROVE  /\ ~rerr /\ 1 \in DOMAIN stream /\ x = stream[1]
         /\ stream' = SubSeq(stream, 2, Len(stream))
BY DEF Decodes, Garbled

\* Once the two have overlapped, or the pipe has stopped, only the counters count.
LEMMA PlaceSuffices ==
  ASSUME PlaceInv', mixed' \/ (pipePc' = "end" /\ OwnUnlessMixed')
  PROVE  IInv'
BY DEF IInv, OwnUnlessMixed

\* DoAuth writes the command.
LEMMA AuthWriteIInv ==
  ASSUME IInv, AuthWrite
  PROVE  IInv'
<1>1. /\ authPc = "write" /\ authPc' = "flush" /\ mixed' = (mixed \/ InBatch)
      /\ UNCHANGED <<stream, werr, rerr, pipePc, written, done, reply, closed>>
      /\ ~werr => Appends(Auth)
  BY DEF AuthWrite
<1>2. PlaceInv'
  <2>1. mixed' \in BOOLEAN
    BY <1>1, Zenon
  <2> QED
    BY <1>1, <2>1 DEF IInv, PlaceInv, InBatch
<1>3. ~mixed' => ~mixed /\ ~InBatch
  BY <1>1, Zenon
<1>4. OwnUnlessMixed'
  BY <1>1, <1>3 DEF IInv, OwnUnlessMixed
<1>5. ASSUME ~mixed', pipePc' # "end" PROVE WireInv'
  <2>1. ~mixed /\ ~InBatch /\ pipePc = "write" /\ ~werr /\ WireInv
    BY <1>1, <1>3, <1>5 DEF IInv, PlaceInv
  <2>2. done = written /\ done \in Nat
    BY <2>1 DEF InBatch, IInv, PlaceInv
  <2>3. buf = << >> /\ stream = << >>
    BY <1>1, <2>1, <2>2, SpanEmpty DEF WireInv, IInv, PlaceInv
  <2>4. buf' = <<Auth>>
    BY <1>1, <1>5, <2>1, <2>3 DEF Appends
  <2> QED
    BY <1>1, <2>1, <2>2, <2>3, <2>4 DEF WireInv, InBatch, InAuth
<1> QED
  BY <1>2, <1>4, <1>5 DEF IInv

\* DoAuth flushes.
LEMMA AuthFlushIInv ==
  ASSUME IInv, AuthFlush
  PROVE  IInv'
<1>1. /\ authPc = "flush" /\ UNCHANGED <<rerr, pipePc, written, done, reply, closed, mixed>>
      /\ authPc' = IF werr' THEN "end" ELSE "read"
      /\ IF werr THEN UNCHANGED <<buf, stream, werr>> ELSE Flushes
  BY DEF AuthFlush
<1>2. PlaceInv'
  BY <1>1 DEF IInv, PlaceInv, InBatch, Flushes
<1>3. OwnUnlessMixed'
  BY <1>1 DEF IInv, OwnUnlessMixed
<1>4. ASSUME ~mixed, pipePc # "end" PROVE WireInv'
  <2>1. ~closed /\ ~werr /\ WireInv
    BY <1>4 DEF IInv, PlaceInv
  <2>2. buf = <<Auth>> /\ stream = << >> /\ ~InBatch /\ pipePc = "write"
    BY <1>1, <1>4, <2>1 DEF WireInv, IInv, PlaceInv
  <2>3. buf' = << >> /\ stream' = stream \o buf /\ ~werr'
    BY <1>1, <2>1 DEF Flushes
  <2>4. stream' = <<Auth>>
    BY <2>2, <2>3 DEF Auth
  <2> QED
    BY <1>1, <2>2, <2>3, <2>4 DEF WireInv, InBatch, InAuth
<1> QED
  BY <1>1, <1>2, <1>3, <1>4 DEF IInv

\* DoAuth reads the reply, or gives up and leaves its error with the reader.
LEMMA AuthEndsIInv ==
  ASSUME IInv, AuthRead \/ AuthFails
  PROVE  IInv'
<1>1. /\ authPc = "read" /\ authPc' = "end"
      /\ UNCHANGED <<buf, werr, pipePc, written, done, reply, closed, mixed>>
  BY DEF AuthRead, AuthFails
<1>2. rerr' \in BOOLEAN
  BY Zenon DEF AuthRead, AuthFails, KeepsError, IInv, PlaceInv
<1>3. PlaceInv'
  BY <1>1, <1>2 DEF IInv, PlaceInv, InBatch
<1>4. OwnUnlessMixed'
  BY <1>1 DEF IInv, OwnUnlessMixed
<1>5. ASSUME ~mixed, pipePc # "end" PROVE WireInv'
  <2>1. ~InBatch /\ buf = << >> /\ stream = <<Auth>> /\ pipePc = "write"
    BY <1>1, <1>5 DEF IInv, PlaceInv, WireInv
  <2>2. done = written /\ done \in Nat
    BY <2>1 DEF InBatch, IInv, PlaceInv
  <2>3. buf' = Span(done', written')
    BY <1>1, <2>1, <2>2, SpanEmpty
  <2>4. ~rerr' => stream' = << >>
    <3>1. CASE AuthRead
      <4>1. stream' = SubSeq(stream, 2, Len(stream))
        BY <1>5, <3>1, DecodesNext DEF AuthRead
      <4>2. Len(stream) = 1
        BY <2>1
      <4> QED
        BY <4>1, <4>2, SubSeqEmpty
    <3>2. CASE AuthFails
      BY <3>2 DEF AuthFails, KeepsError
    <3> QED
      BY <3>1, <3>2
  <2> QED
    BY <1>1, <2>1, <2>3, <2>4 DEF WireInv
<1> QED
  BY <1>1, <1>3, <1>4, <1>5 DEF IInv

\* The pipe writes a request.
LEMMA WriteIInv ==
  ASSUME IInv, Write
  PROVE  IInv'
<1>1. /\ pipePc = "write" /\ written < MaxReqs /\ written' = written + 1
      /\ mixed' = (mixed \/ InAuth) /\ Appends(written + 1)
      /\ UNCHANGED <<stream, werr, rerr, authPc, pipePc, done, reply, closed>>
  BY DEF Write
<1>2. PlaceInv'
  <2>1. mixed' \in BOOLEAN
    BY <1>1, Zenon
  <2> QED
    BY <1>1, <2>1, NodeConnAssumption DEF IInv, PlaceInv, InBatch
<1>3. ~mixed' => ~mixed /\ ~InAuth
  BY <1>1, Zenon
<1>4. OwnUnlessMixed'
  BY <1>1, <1>3 DEF IInv, OwnUnlessMixed
<1>5. ASSUME ~mixed' PROVE WireInv'
  <2>1. ~mixed /\ authPc \in {"write", "end"} /\ WireInv
    BY <1>1, <1>3, <1>5 DEF IInv, PlaceInv, InAuth
  <2>2. buf = Span(done, written) /\ (~rerr => stream = << >>)
    BY <1>1, <2>1 DEF WireInv
  <2>3. buf' = Append(buf, written + 1)
    BY <1>1, <1>5 DEF Appends
  <2>4. buf' = Span(done', written')
    BY <1>1, <2>2, <2>3, SpanAppend DEF IInv, PlaceInv
  <2> QED
    BY <1>1, <2>1, <2>2, <2>4 DEF WireInv
<1> QED
  BY <1>2, <1>4, <1>5 DEF IInv

\* The pipe flushes its batch.
LEMMA FlushIInv ==
  ASSUME IInv, Flush
  PROVE  IInv'
<1>1. /\ pipePc = "write" /\ InBatch /\ Flushes /\ pipePc' = "read"
      /\ UNCHANGED <<rerr, authPc, written, done, reply, closed, mixed>>
  BY DEF Flush
<1>2. ~closed
  BY <1>1 DEF IInv, PlaceInv
<1>3. PlaceInv'
  BY <1>1, <1>2 DEF IInv, PlaceInv, InBatch, Flushes
<1>4. OwnUnlessMixed'
  BY <1>1 DEF IInv, OwnUnlessMixed
<1>5. ASSUME ~mixed PROVE WireInv'
  <2>1. authPc \in {"write", "end"} /\ WireInv
    BY <1>1, <1>5 DEF IInv, PlaceInv, WireInv
  <2>2. buf = Span(done, written) /\ (~rerr => stream = << >>)
    BY <1>1, <2>1 DEF WireInv
  <2>3. buf' = << >> /\ stream' = stream \o buf
    BY <1>1, <1>2 DEF Flushes
  <2>4. Span(done, written) \in Seq(Nat)
    BY SpanSeq DEF IInv, PlaceInv
  <2>5. ~rerr => stream' = Span(done, written)
    BY <2>2, <2>3, <2>4, ConcatEmptySeq
  <2> QED
    BY <1>1, <2>1, <2>3, <2>5 DEF WireInv, InAuth
<1> QED
  BY <1>1, <1>3, <1>4, <1>5 DEF IInv

\* The pipe reads a reply: it is the one to the next request.
LEMMA ReadIInv ==
  ASSUME IInv, Read
  PROVE  IInv'
<1>1. /\ pipePc = "read" /\ done' = done + 1
      /\ UNCHANGED <<buf, werr, rerr, authPc, written, closed, mixed>>
      /\ pipePc' = IF done + 1 = written THEN "write" ELSE "read"
  BY DEF Read
<1>2. PICK x \in Replies \cup {Junk} : Decodes(x) /\ reply' = [reply EXCEPT ![done + 1] = x]
  BY Zenon DEF Read
<1>3. done < written /\ done + 1 \in 1..MaxReqs /\ done \in Nat /\ written \in Nat
  BY <1>1, NodeConnAssumption DEF IInv, PlaceInv, InBatch
<1>4. reply' \in [1..MaxReqs -> Replies \cup {NoReply, Junk}]
  BY <1>2, <1>3 DEF IInv, PlaceInv
<1>5. PlaceInv'
  BY <1>1, <1>3, <1>4 DEF IInv, PlaceInv, InBatch
<1>6. ASSUME ~mixed PROVE OwnUnlessMixed' /\ WireInv'
  <2>1. WireInv
    BY <1>1, <1>6 DEF IInv
  <2>2. ~rerr /\ x = stream[1] /\ stream' = SubSeq(stream, 2, Len(stream))
    BY <1>2, <1>6, DecodesNext
  <2>3. stream = Span(done, written) /\ buf = << >> /\ ~InAuth
    BY <1>1, <2>1, <2>2 DEF WireInv
  <2>4. x = done + 1 /\ stream' = Span(done + 1, written)
    BY <1>3, <2>2, <2>3, SpanNext, Zenon
  <2>5. OwnUnlessMixed'
    <3>1. \A k \in 1..done : reply[k] = k
      BY <1>6 DEF IInv, OwnUnlessMixed
    <3>2. reply'[done + 1] = done + 1 /\ \A k \in 1..done : reply'[k] = reply[k]
      BY <1>2, <1>3, <2>4 DEF IInv, PlaceInv
    <3> QED
      BY <1>1, <1>3, <3>1, <3>2 DEF OwnUnlessMixed
  <2>6. authPc \in {"write", "end"}
    BY <2>3 DEF InAuth, IInv, PlaceInv
  <2>7. done + 1 = written => Span(done + 1, written) = << >>
    BY <1>3, SpanEmpty
  <2>8. WireInv'
    BY <1>1, <2>3, <2>4, <2>6, <2>7 DEF WireInv, InAuth
  <2> QED
    BY <2>5, <2>8
<1> QED
  BY <1>1, <1>5, <1>6 DEF IInv, OwnUnlessMixed

\* The pipe closes the connection and stops.
LEMMA CloseIInv ==
  ASSUME IInv, Close
  PROVE  IInv'
<1>1. /\ closed' = TRUE /\ pipePc' = "end"
      /\ UNCHANGED <<buf, werr, rerr, authPc, written, done, reply, mixed>>
  BY DEF Close
<1>2. PlaceInv'
  BY <1>1 DEF IInv, PlaceInv, InBatch
<1>3. OwnUnlessMixed'
  BY <1>1 DEF IInv, OwnUnlessMixed
<1> QED
  BY <1>1, <1>2, <1>3, PlaceSuffices
-----------------------------------------------------------------------------
(* The theorems.                                                           *)

\* A new connection.
LEMMA InitIInv == Init => IInv
<1> SUFFICES ASSUME Init PROVE IInv
  OBVIOUS
<1>1. PlaceInv
  <2>1. mixed \in BOOLEAN /\ rerr \in BOOLEAN
    BY Zenon DEF Init
  <2>2. reply \in [1..MaxReqs -> Replies \cup {NoReply, Junk}]
    BY DEF Init
  <2>3. done \in Nat /\ written \in Nat /\ done <= written /\ written <= MaxReqs
    BY NodeConnAssumption DEF Init
  <2>4. ~closed /\ ~werr /\ ~rerr /\ pipePc = "write" /\ authPc = "write"
    BY DEF Init
  <2> QED
    BY <2>1, <2>2, <2>3, <2>4 DEF PlaceInv
<1>2. OwnUnlessMixed
  BY DEF Init, OwnUnlessMixed
<1>3. WireInv
  BY SpanEmpty DEF Init, WireInv
<1> QED
  BY <1>1, <1>2, <1>3 DEF IInv

\* Every step keeps the invariant.
LEMMA NextIInv == IInv /\ [Next]_vars => IInv'
<1> SUFFICES ASSUME IInv, [Next]_vars PROVE IInv'
  OBVIOUS
<1>1. CASE UNCHANGED vars
  BY <1>1 DEF vars, IInv, PlaceInv, OwnUnlessMixed, WireInv, InBatch, InAuth
<1> QED
  BY <1>1, AuthWriteIInv, AuthFlushIInv, AuthEndsIInv, WriteIInv, FlushIInv, ReadIInv,
     CloseIInv DEF Next

\* The order of commands and replies on the connection, at all times.
THEOREM NodeConnInvariance == Spec => []IInv
BY InitIInv, NextIInv, PTL DEF Spec

\* nodeConn.Read gives every request its own reply unless DoAuth and a batch have
\* overlapped, also when the reply to AUTH comes after DoAuth gave up.
THEOREM RepliesOwnUnlessMixed == Spec => []OwnUnlessMixed
<1>1. IInv => OwnUnlessMixed
  BY DEF IInv
<1> QED
  BY <1>1, NodeConnInvariance, PTL

=============================================================================
