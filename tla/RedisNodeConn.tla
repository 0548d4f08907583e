---------------------------- MODULE RedisNodeConn ----------------------------
(***************************************************************************)
(* A redis node connection (proxy/proto/redis/node_conn.go) from           *)
(* NewNodeConn to Close.  Two goroutines use its writer and its reader     *)
(* without a lock: DoAuth, started by NewNodeConn, and the pipe that       *)
(* writes, flushes and reads batches of requests.  The node answers in the *)
(* order of the stream, and whoever decodes next gets the next reply.      *)
(*                                                                         *)
(* Requests are numbered in the order in which the pipe writes them; 0 is  *)
(* the AUTH command, and the reply to a request has its number.            *)
(*                                                                         *)
(* When DoAuth and a batch overlap there are data races.  In the writer a  *)
(* command may be lost when both append to bufs.  In the reader both may   *)
(* fill the same part of the buffer: replies are overwritten, and what is  *)
(* decoded may be made of pieces (Junk).                                   *)
(***************************************************************************)
EXTENDS Integers, Sequences, SequencesExt

CONSTANTS
  MaxReqs,   \* bound: requests on the connection
  BatchMax,  \* pipeMaxCount
  NoReply, Junk

ASSUME NodeConnAssumption ==
  /\ MaxReqs \in Nat \ {0} /\ BatchMax \in Nat \ {0}
  /\ NoReply \notin 0..MaxReqs /\ Junk \notin 0..MaxReqs /\ Junk # NoReply

VARIABLES
  buf,      \* nc.bw: written and not flushed
  stream,   \* the replies to what was flushed, not decoded yet
  werr,     \* bw.err is set: nothing more is written
  rerr,     \* br.err is set: nothing more is read
  authPc,   \* DoAuth
  pipePc,   \* the pipe goroutine
  written,  \* requests written so far
  done,     \* requests of the earlier batches and those read in this one
  reply,    \* what Read decoded into each request
  closed,   \* nc.state
  mixed     \* whether DoAuth and a batch have overlapped

vars == <<buf, stream, werr, rerr, authPc, pipePc, written, done, reply, closed, mixed>>

Auth == 0
Replies == 0..MaxReqs

TypeOK ==
  /\ buf \in Seq(Replies) /\ stream \in Seq(Replies)
  /\ werr \in BOOLEAN /\ rerr \in BOOLEAN
  /\ authPc \in {"write", "flush", "read", "end"}
  /\ pipePc \in {"write", "read", "end"}
  /\ done \in 0..MaxReqs /\ written \in done..MaxReqs /\ written - done <= BatchMax
  /\ reply \in [1..MaxReqs -> Replies \cup {NoReply, Junk}]
  /\ closed \in BOOLEAN /\ mixed \in BOOLEAN

Init ==
  /\ buf = << >> /\ stream = << >> /\ werr = FALSE /\ rerr = FALSE
  /\ authPc = "write"
  /\ pipePc = "write" /\ written = 0 /\ done = 0
  /\ reply = [k \in 1..MaxReqs |-> NoReply]
  /\ closed = FALSE /\ mixed = FALSE

\* between the first Write of a batch and its last Read; between the Write of
\* DoAuth and its end
InBatch == written > done
InAuth == authPc \in {"flush", "read"}

-----------------------------------------------------------------------------
(* The writer and the reader.                                              *)

\* bufs = append(bufs, p)
Appends(x) ==
  \/ buf' = Append(buf, x)
  \/ mixed' /\ buf' = buf
  \/ mixed' /\ buf # << >> /\ buf' = Append(Front(buf), x)

\* Writev; on a closed connection it fails and nothing is written any more
Flushes ==
  /\ buf' = << >>
  /\ IF closed THEN werr' = TRUE /\ UNCHANGED stream
               ELSE UNCHANGED werr /\ stream' = stream \o buf

\* both goroutines have been able to fill the buffer at once
Garbled == mixed /\ authPc \in {"read", "end"}

\* the next reply is decoded to x
Decodes(x) ==
  /\ ~rerr
  /\ \E i \in DOMAIN stream :
       /\ i = 1 \/ Garbled
       /\ x = stream[i] \/ (Garbled /\ x = Junk)
       /\ stream' = SubSeq(stream, i + 1, Len(stream))

-----------------------------------------------------------------------------
(* DoAuth *)

AuthWrite ==
  /\ authPc = "write" /\ authPc' = "flush"
  /\ mixed' = (mixed \/ InBatch)
  /\ IF werr THEN UNCHANGED buf ELSE Appends(Auth)
  /\ UNCHANGED <<stream, werr, rerr, pipePc, written, done, reply, closed>>

\* what the pipe has written is flushed with it
AuthFlush ==
  /\ authPc = "flush"
  /\ IF werr THEN UNCHANGED <<buf, stream, werr>> ELSE Flushes
  /\ authPc' = IF werr' THEN "end" ELSE "read"
  /\ UNCHANGED <<rerr, pipePc, written, done, reply, closed, mixed>>

\* the reply is consumed, whatever it is
AuthRead ==
  /\ authPc = "read" /\ authPc' = "end"
  /\ UNCHANGED <<buf, werr, rerr, pipePc, written, done, reply, closed, mixed>>
  /\ \E x \in Replies \cup {Junk} : Decodes(x)

\* variant: an error of one read does not stay with the reader
Forgets == rerr

KeepsError == TRUE

\* the read fails: its deadline passes, or the connection is closed; the reply
\* to AUTH may still come
AuthFails ==
  /\ authPc = "read" /\ authPc' = "end"
  /\ rerr' = KeepsError
  /\ UNCHANGED <<buf, stream, werr, pipePc, written, done, reply, closed, mixed>>

-----------------------------------------------------------------------------
(* Write, Flush, Read and Close, as the pipe calls them *)

Room == written - done < BatchMax

Write ==
  /\ pipePc = "write" /\ written < MaxReqs /\ Room /\ ~werr
  /\ written' = written + 1
  /\ mixed' = (mixed \/ InAuth)
  /\ Appends(written + 1)
  /\ UNCHANGED <<stream, werr, rerr, authPc, pipePc, done, reply, closed>>

Flush ==
  /\ pipePc = "write" /\ InBatch /\ ~werr
  /\ Flushes
  /\ pipePc' = "read"
  /\ UNCHANGED <<rerr, authPc, written, done, reply, closed, mixed>>

Read ==
  /\ pipePc = "read"
  /\ done' = done + 1
  /\ UNCHANGED <<buf, werr, rerr, authPc, written, closed, mixed>>
  /\ \E x \in Replies \cup {Junk} :
       Decodes(x) /\ reply' = [reply EXCEPT ![done + 1] = x]
  /\ pipePc' = IF done + 1 = written THEN "write" ELSE "read"

\* an error in Write, Flush or Read, or the end of the pipe: nc.Close
Close ==
  /\ ~closed /\ closed' = TRUE /\ pipePc' = "end" /\ stream' = << >>
  /\ UNCHANGED <<buf, werr, rerr, authPc, written, done, reply, mixed>>

-----------------------------------------------------------------------------
Next ==
  \/ AuthWrite \/ AuthFlush \/ AuthRead \/ AuthFails
  \/ Write \/ Flush \/ Read \/ Close

Spec == Init /\ [][Next]_vars

-----------------------------------------------------------------------------
(* Properties.                                                             *)

\* When DoAuth ran before the first batch or between two of them, every request
\* gets its own reply; also when DoAuth gave up and the reply to AUTH comes late,
\* since the reader keeps the error and the pipe replaces the connection
\* (io.go:36-38, pipe.go:194-197).
OwnUnlessMixed == ~mixed => \A k \in 1..done : reply[k] = k

=============================================================================
