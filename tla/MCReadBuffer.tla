---------------------------- MODULE MCReadBuffer ----------------------------
(***************************************************************************)
(* Instances of ReadBuffer with a buffer of four bytes.                    *)
(***************************************************************************)
EXTENDS ReadBuffer

Pipelined(s) == [marks |-> FALSE, replies |-> s]
OneByOne(s) == [marks |-> TRUE, replies |-> s]

\* node connections: short and long replies, one of four times the buffer, many
\* short ones after it; fetch: one reply, on a new buffer, of any size; DoAuth:
\* one short reply; fetchAuth: the reply to AUTH, then that to CLUSTER NODES
UsualStreams ==
  { Pipelined(<< <<2>>, <<2, 3>>, <<1>>, <<3, 4, 2>>, <<3>>, <<1>>, <<2, 2>> >>),
    Pipelined(<< <<3>>, <<1, 16>>, <<2>>, <<2>>, <<5>> >>),
    Pipelined(<< <<2>>, <<1>>, <<2>>, <<1>>, <<2>>, <<2>>, <<1>>, <<2>> >>),
    OneByOne(<< <<2>> >>), OneByOne(<< <<13>> >>),
    OneByOne(<< <<2>>, <<7>> >>) }

=============================================================================
