------------------------------ MODULE ReadBuffer ------------------------------
(***************************************************************************)
(* The read buffer of pkg/bufio and the loops that decode redis replies    *)
(* from it.  The buffer holds a window of the byte stream: buf[0] is byte  *)
(* number base, bytes r to w - 1 are unread.  Bytes are told apart only by *)
(* their place: a decode that does not start at the first byte of a reply  *)
(* reads nonsense, and has no step here.                                   *)
(*                                                                         *)
(* Two kinds of loop use it.  nodeConn.Read decodes, and calls Reader.Read *)
(* when the reply is incomplete; its peer may answer several requests at   *)
(* once.  The loops of fetch, fetchAuth and DoAuth take a mark, call       *)
(* Reader.Read first and go back to the mark when the reply is incomplete; *)
(* they ask for the next reply only when they have the one before.         *)
(***************************************************************************)
EXTENDS Integers, Sequences, FiniteSetsExt

CONSTANTS
  Streams,  \* what may arrive: [marks, replies], marks telling the kind of the
            \* loop; a reply is the sequence of the sizes of its parts, the
            \* line with its type first, then its elements
  InitLen   \* the size of a new buffer

ASSUME BufferAssumption ==
  /\ \A s \in Streams :
       /\ s.marks \in BOOLEAN
       /\ s.replies \in Seq(Seq(Nat \ {0})) /\ s.replies # << >>
       /\ \A i \in DOMAIN s.replies : s.replies[i] # << >>
  /\ InitLen \in Nat \ {0}

VARIABLES
  stream,   \* the member of Streams that arrives
  base,     \* the stream position of buf[0]
  r, w,     \* b.r and b.w
  len,      \* len(b.buf)
  pc,       \* "mark", "read", "decode" or "end"
  mark,     \* begin := br.Mark()
  got       \* how many replies are decoded

vars == <<stream, base, r, w, len, pc, mark, got>>

Count == Len(stream.replies)

\* the size of the first n parts of reply k
PartsSize(k, n) == MapThenSumSet(LAMBDA j : stream.replies[k][j], 1..n)

Size(k) == PartsSize(k, Len(stream.replies[k]))

\* where reply k starts on the stream
Start(k) == MapThenSumSet(Size, 1..(k - 1))

\* the end of what the peer has been asked for
Asked == Start(IF stream.marks THEN got + 2 ELSE Count + 1)

TypeOK ==
  /\ stream \in Streams
  /\ base \in Nat /\ mark \in Nat /\ len \in Nat
  /\ w \in 0..len /\ r \in 0..w
  /\ pc \in {"mark", "read", "decode", "end"}
  /\ got \in 0..Count

Init ==
  /\ stream \in Streams
  /\ base = 0 /\ r = 0 /\ w = 0 /\ len = InitLen /\ mark = 0 /\ got = 0
  /\ pc = IF stream.marks THEN "mark" ELSE "decode"

-----------------------------------------------------------------------------
(* Reader.Read.                                                            *)

\* unread bytes that fill the buffer make it grow to growFactor times its size
Grown == IF w - r = len THEN 2 * len ELSE len

\* variant: shrink resets the positions and moves no byte
MovesNothing(l) ==
  IF w = l THEN [base |-> base, r |-> 0, w |-> w - r]
           ELSE [base |-> base, r |-> r, w |-> w]

\* the unread bytes move to the front when the end of the buffer, of length l,
\* is reached
Shrunk(l) ==
  IF w = l THEN [base |-> base + r, r |-> 0, w |-> w - r]
           ELSE [base |-> base, r |-> r, w |-> w]

\* how many bytes fill may get into the room of the buffer, never none
Fills(l, b) == 1..Min({l - b.w, Asked - b.base - b.w})

Read ==
  /\ pc = "read"
  /\ LET b == Shrunk(Grown) IN
       \E n \in Fills(Grown, b) : base' = b.base /\ r' = b.r /\ w' = b.w + n
  /\ len' = Grown
  /\ pc' = "decode"
  /\ UNCHANGED <<stream, mark, got>>

-----------------------------------------------------------------------------
(* The loops.                                                              *)

Mark ==
  /\ pc = "mark"
  /\ mark' = r
  /\ pc' = "read"
  /\ UNCHANGED <<stream, base, r, w, len, got>>

AtReply == pc = "decode" /\ base + r = Start(got + 1)

Decoded ==
  /\ AtReply
  /\ w - r >= Size(got + 1)
  /\ r' = r + Size(got + 1)
  /\ got' = got + 1
  /\ pc' = CASE got' = Count  -> "end"
             [] stream.marks  -> "mark"
             [] OTHER         -> "decode"
  /\ UNCHANGED <<stream, base, w, len, mark>>

\* variant: an array puts back its elements and not its own line
KeepsLine == r + (IF w - r >= PartsSize(got + 1, 1) THEN PartsSize(got + 1, 1) ELSE 0)

\* where a decode that meets ErrBufferFull leaves r: the parts it has read are
\* put back
PutBack == r

BufferFull ==
  /\ AtReply
  /\ w - r < Size(got + 1)
  /\ r' = IF stream.marks THEN mark ELSE PutBack
  /\ pc' = "read"
  /\ UNCHANGED <<stream, base, w, len, mark, got>>

Next == Read \/ Mark \/ Decoded \/ BufferFull

\* the peer sends what it is asked for and the loop runs on
Spec == Init /\ [][Next]_vars /\ WF_vars(Next)

-----------------------------------------------------------------------------
(* Properties.                                                             *)

\* shrink has moved the bytes while a mark other than 0 was held, as it can only
\* for a reply after the first
MarkMoved == stream.marks /\ got > 0 /\ base + mark # Start(got + 1)

\* However the bytes are cut into reads, growing, shrinking (io.go:70-75),
\* putting back and going back to a mark keep r at the first byte of the reply
\* that is due, and the loop never runs out of room (io.ErrNoProgress): every
\* reply is decoded, also one larger than the buffer.  Only a mark that shrink
\* has moved away from can be lost.
DecodedInStep ==
  /\ [](pc = "decode" => base + r = Start(got + 1) \/ MarkMoved)
  /\ <>(got = Count \/ MarkMoved)

=============================================================================
