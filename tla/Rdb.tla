--------------------------------- MODULE Rdb ---------------------------------
(***************************************************************************)
(* anzi's reader of a redis dump.  A dump is a sequence of fields          *)
(* [w, v], a width in bytes and a value; a read of another width than was  *)
(* written puts the reader out of step ("skew").  Embedded structures      *)
(* (ziplist, intset, zipmap) are strings whose value is such a sequence.   *)
(* A function of the code is a sequence of tasks, the reads and calls it   *)
(* makes; Step carries out the first task of the reader.                   *)
(***************************************************************************)
EXTENDS Integers, Sequences, SequencesExt, FiniteSets

CONSTANTS U32,       \* 2^32 in the code
          Parsed     \* the texts strconv.ParseInt takes, and how the result is printed

(* A value is a number [n], a text [t], the bytes [b] of a text, or the     *)
(* fields [f] of a structure.                                               *)
F(w, n) == [w |-> w, v |-> [n |-> n]]
Field(w, v) == [w |-> w, v |-> v]
Do(op) == [op |-> op, n |-> 0, body |-> <<>>]
W(n) == [op |-> "read", n |-> n, body |-> <<>>]          \* a field of n bytes
Each(body) == [op |-> "each", n |-> 0, body |-> body]    \* as often as the last value says
Str == <<Do("len"), Do("data")>>                         \* readString
Keep == <<Do("keep")>>

(* readZipList, readZSetFromZiplist, readHashFromZipList, and the headers   *)
(* and ends they share; readListFromQuickList; readIntSet; readZipMap.      *)
Entry == <<Do("prevlen"), Do("entry")>>
Header == <<Do("open"), W(4), W(4), W(2)>>
End == <<Do("zlend"), Do("close")>>
ZipList == Str \o Header \o <<Each(Entry \o <<Do("RPUSH")>>)>> \o End
ZSetFromZiplist == Str \o Header \o <<Do("half"), Each(Entry \o Keep \o Entry \o <<Do("ZADD")>>)>> \o End
HashFromZipList == Str \o Header \o <<Do("half"), Each(Entry \o Keep \o Entry \o <<Do("HSET")>>)>> \o End
ListFromQuickList == <<Do("len"), Each(ZipList)>>
IntSet == Str \o <<Do("open"), W(4)>> \o Keep \o <<W(4), Each(<<Do("int"), Do("SADD")>>), Do("close")>>
ZipMap == Str \o <<Do("open"), W(1), Do("zmlen"), Do("zmentry"), Do("close")>>

(* readStream: all of it is read and nothing is sent; readModule. *)
Pending == <<W(16), W(8), Do("len")>>
Consumer == Str \o <<W(8), Do("len"), Each(<<W(16)>>)>>
Group == Str \o <<Do("len"), Do("len"), Do("len"), Each(Pending), Do("len"), Each(Consumer)>>
Stream == <<Do("len"), Each(Str \o Str), Do("len"), Do("len"), Do("len"), Do("len"), Each(Group)>>
Module == <<Do("id"), Do("id"), Do("opcode")>>
ModuleValue(opcode) ==
  CASE opcode \in {1, 2} -> <<Do("len")>>
    [] opcode = 3 -> <<W(4)>>
    [] opcode = 4 -> <<W(8)>>
    [] opcode = 5 -> Str
    [] OTHER -> <<Do("bad")>>

(* readObject; the types it does not know are an error. *)
Expire == <<Do("EXPIREAT")>>
Object(dtype) ==
  CASE dtype = 0 -> Str \o <<Do("SET")>> \o Expire
    [] dtype = 1 -> <<Do("len"), Each(Str \o <<Do("RPUSH")>>)>> \o Expire
    [] dtype = 2 -> <<Do("len"), Each(Str \o <<Do("SADD")>>)>> \o Expire
    [] dtype = 3 -> <<Do("len"), Each(Str \o Keep \o <<Do("float"), Do("ZADD")>>)>> \o Expire
    [] dtype = 4 -> <<Do("len"), Each(Str \o Keep \o Str \o <<Do("HSET")>>)>> \o Expire
    [] dtype = 5 -> <<Do("len"), Each(Str \o Keep \o <<W(8), Do("ZADD")>>)>> \o Expire
    [] dtype = 7 -> Module
    [] dtype = 9 -> ZipMap \o Expire
    [] dtype = 10 -> ZipList \o Expire
    [] dtype = 11 -> IntSet \o Expire
    [] dtype = 12 -> ZSetFromZiplist \o Expire
    [] dtype = 13 -> HashFromZipList \o Expire
    [] dtype = 14 -> ListFromQuickList \o Expire
    [] dtype = 15 -> Stream
    [] OTHER -> <<Do("bad")>>

(* A round of bgSyncProc, and what follows the type it has read. *)
Round == <<W(1), Do("expire"), Do("idle"), Do("type")>>
OfType(dtype) ==
  CASE dtype = 254 -> <<Do("len")>>
    [] dtype = 250 -> Str \o Str
    [] dtype = 251 -> <<Do("len"), Do("len")>>
    [] dtype = 247 -> Module
    [] dtype = 255 -> <<Do("eof")>>
    [] OTHER -> Str \o <<Do("key")>> \o Object(dtype)
-----------------------------------------------------------------------------
(* The reader: the fields left, the tasks, the value last read and one kept *)
(* from before, the fields around an embedded structure, the key and its    *)
(* expiry, the error, the command to be written, and the end.               *)
Reader(fields) ==
  [s |-> fields, todo |-> Round, v |-> [n |-> 0], keep |-> [n |-> 0], around |-> <<>>, key |-> [t |-> ""], exp |-> 0,
   e |-> "", out |-> <<>>, end |-> FALSE]
Err(p, e) == [p EXCEPT !.e = e, !.todo = <<>>]
Got(p, widths, v) ==
  IF Len(p.s) < Len(widths) THEN Err(p, "eof")
  ELSE IF \E j \in 1..Len(widths) : p.s[j].w # widths[j] THEN Err(p, "skew")
  ELSE [p EXCEPT !.s = SubSeq(@, Len(widths) + 1, Len(@)), !.v = v]
Num(p, widths, n) == Got(p, widths, [n |-> n])
Next1(p) == p.s[1].v.n
Next2(p) == p.s[2].v.n
Push(p, tasks) == [p EXCEPT !.todo = tasks \o @]
Emit(p, cmd) == [p EXCEPT !.out = <<cmd>>]

(* readLength: 6, 14, 32 and 64 bits, or the number of an encoding, which   *)
(* is an error to all but readString and readModule.                        *)
ReadLength(p, task) ==
  IF p.s = <<>> THEN Err(p, "eof")
  ELSE LET b == Next1(p) IN
       IF p.s[1].w # 1 THEN Err(p, "skew")
       ELSE CASE b \div 64 = 0 -> Num(p, <<1>>, b)
              [] b \div 64 = 1 -> Num(p, <<1, 1>>, 256 * (b % 64) + Next2(p))
              [] b = 128 -> Got(p, <<1, 4>>, p.s[2].v)
              [] b = 129 -> Got(p, <<1, 8>>, p.s[2].v)
              [] b \in 130..191 -> Num(p, <<1>>, 0)
              [] b \div 64 = 3 /\ task = "id" -> Num(p, <<1>>, b % 64)
              [] b \div 64 = 3 /\ p.todo # <<>> /\ Head(p.todo).op = "data" ->
                   [Num(p, <<1>>, b % 64) EXCEPT !.todo[1].op = "enc"]
              [] OTHER -> Err(p, "bad")

(* lzfDecompress: literal runs and references back into the output. *)
LzfDecompress(data) ==
  LET Token(i, o) ==
        LET ctrl == data[i]
            long == ctrl \div 32 = 7
            len == 2 + (ctrl \div 32) + (IF long THEN data[i + 1] ELSE 0)
            at == IF long THEN i + 2 ELSE i + 1
            ref == Len(o) - 256 * (ctrl % 32) - data[at] - 1
            back[j \in 0..len] == IF j = 0 THEN o ELSE Append(back[j - 1], back[j - 1][ref + j])
        IN IF ctrl < 32 THEN <<i + ctrl + 2, o \o SubSeq(data, i + 1, i + ctrl + 1)>>
           ELSE <<at + 1, back[len]>>
      run[k \in 0..Len(data)] ==
        IF k = 0 THEN <<1, <<>>>>
        ELSE LET r == run[k - 1] IN IF r[1] > Len(data) THEN r ELSE Token(r[1], r[2])
  IN run[Len(data)][2]

(* readStringEnc: an 8-bit integer is printed without its sign.  A       *)
(* compressed text that breaks off is decompressed all the same, with zeros *)
(* for what is missing, which may be an index panic.                        *)
Breaks(p) == IF p.todo # <<>> /\ Head(p.todo).op = "lzf" THEN {"eof", "panic"} ELSE {"eof"}
ReadStringEnc(p) ==
  CASE p.v.n = 0 -> Num(p, <<1>>, Next1(p) % 256)
    [] p.v.n = 1 -> Got(p, <<2>>, p.s[1].v)
    [] p.v.n = 2 -> Got(p, <<4>>, p.s[1].v)
    [] p.v.n = 3 -> Push(p, <<Do("len"), Do("keep"), Do("len"), Do("lzf")>>)
    [] OTHER -> [p EXCEPT !.v = [t |-> ""]]

(* readFloat: a length, then the text; 253 to 255 stand for a value without *)
(* text, and are read as lengths too.                                       *)
ReadFloat(p) ==
  IF p.s = <<>> THEN Err(p, "eof") ELSE Got(p, <<1, Next1(p)>>, p.s[2].v)

(* readExpire: the seconds are multiplied in 32 bits.  readIdleAndFreq.     *)
Seconds(v) == (1000 * v) % U32
ReadExpire(p) ==
  CASE p.v.n = 252 -> Push(p, <<W(8), Do("millis"), W(1)>>)
    [] p.v.n = 253 -> Push(p, <<W(4), Do("seconds"), W(1)>>)
    [] OTHER -> p
ReadIdleAndFreq(p) ==
  CASE p.v.n = 248 -> Push(p, <<Do("len"), W(1)>>)
    [] p.v.n = 249 -> Push(p, <<W(1), W(1)>>)
    [] OTHER -> p

(* readZipListEntry: 24-bit integers lose their sign. *)
ReadPrevLen(p) ==
  IF p.s # <<>> /\ Next1(p) = 254 THEN Got(p, <<1, 4>>, p.s[2].v) ELSE Got(p, <<1>>, p.s[1].v)
ReadZipListEntry(p) ==
  IF p.s = <<>> THEN Err(p, "eof")
  ELSE LET h == Next1(p) IN
       CASE h \div 64 = 0 -> Got(p, <<1, h % 64>>, p.s[2].v)
         [] h \div 64 = 1 -> Got(p, <<1, 1, 256 * (h % 64) + Next2(p)>>, p.s[3].v)
         [] h \div 64 = 2 -> Got(p, <<1, 4, Next2(p)>>, p.s[3].v)
         [] h \div 16 = 12 -> Got(p, <<1, 2>>, p.s[2].v)
         [] h \div 16 = 13 -> Got(p, <<1, 4>>, p.s[2].v)
         [] h \div 16 = 14 -> Got(p, <<1, 8>>, p.s[2].v)
         [] h = 240 -> Num(p, <<1, 3>>, Next2(p) % 16777216)
         [] h = 254 -> Got(p, <<1, 1>>, p.s[2].v)
         [] h \in 241..253 -> Num(p, <<1>>, h - 241)
         [] OTHER -> Err(p, "panic")

(* readZipMapNextLength, the end mark 255 read as 0, and an entry.  A value *)
(* that parses as an integer is sent as that integer is printed.            *)
ReadZipMapNextLength(p) ==
  IF p.s # <<>> /\ Next1(p) = 254 THEN Got(p, <<1, 4>>, p.s[2].v)
  ELSE Num(p, <<1>>, IF Next1(p) = 255 THEN 0 ELSE Next1(p))
ReadZipMapValue(p) ==
  IF p.s = <<>> THEN Err(p, "eof")
  ELSE LET free == Next1(p)
           text == p.s[2].v.t
       IN Got(p, IF free = 0 THEN <<1, p.v.n>> ELSE <<1, p.v.n, free>>,
              [t |-> IF text \in DOMAIN Parsed THEN Parsed[text] ELSE text])
ZipMapEntry == <<Do("data"), Do("keep"), Do("zmlen"), Do("zmvalue"), Do("HSET"), Do("zmlen"), Do("zmentry")>>
-----------------------------------------------------------------------------
(* CmdSet and the others, as ProtocolCallbacker writes them: ZADD without   *)
(* the score.                                                               *)
Command(op, p) ==
  CASE op \in {"SET", "RPUSH", "SADD"} -> Emit(p, <<op, p.key, p.v>>)
    [] op = "ZADD" -> Emit(p, <<op, p.key, p.keep>>)
    [] op = "HSET" -> Emit(p, <<op, p.key, p.keep, p.v>>)
    [] op = "EXPIREAT" -> IF p.exp = 0 THEN p ELSE Emit(p, <<op, p.key, [n |-> p.exp]>>)

Task(t, p) ==
  CASE t.op = "read" -> Got(p, <<t.n>>, p.s[1].v)
    [] t.op \in {"len", "id"} -> ReadLength(p, t.op)
    [] t.op = "data" -> IF p.v.n = 0 THEN [p EXCEPT !.v = [t |-> ""]] ELSE Got(p, <<p.v.n>>, p.s[1].v)
    [] t.op = "enc" -> ReadStringEnc(p)
    [] t.op = "lzf" -> Got(p, <<p.keep.n>>, [b |-> LzfDecompress(p.s[1].v.b)])
    [] t.op = "keep" -> [p EXCEPT !.keep = p.v]
    [] t.op = "each" -> Push(p, FlattenSeq([i \in 1..p.v.n |-> t.body]))
    [] t.op = "float" -> ReadFloat(p)
    [] t.op = "expire" -> ReadExpire(p)
    [] t.op = "millis" -> [p EXCEPT !.exp = p.v.n]
    [] t.op = "seconds" -> [p EXCEPT !.exp = Seconds(p.v.n)]
    [] t.op = "idle" -> ReadIdleAndFreq(p)
    [] t.op = "type" -> Push(p, OfType(p.v.n))
    [] t.op = "key" -> [p EXCEPT !.key = p.v]
    [] t.op = "opcode" -> IF p.v.n = 0 THEN p ELSE Push(p, ModuleValue(p.v.n) \o <<Do("len"), Do("opcode")>>)
    [] t.op = "open" -> [p EXCEPT !.around = p.s, !.s = p.v.f]
    [] t.op = "close" -> [p EXCEPT !.s = p.around, !.around = <<>>]
    [] t.op = "half" -> IF p.v.n % 2 # 0 THEN Err(p, "panic") ELSE [p EXCEPT !.v.n = @ \div 2]
    [] t.op = "prevlen" -> ReadPrevLen(p)
    [] t.op = "entry" -> ReadZipListEntry(p)
    [] t.op = "zlend" -> IF p.s # <<>> /\ Next1(p) # 255 THEN Err(p, "panic") ELSE Num(p, <<1>>, 0)
    [] t.op = "int" -> IF p.keep.n \notin {2, 4, 8} THEN Err(p, "panic") ELSE Got(p, <<p.keep.n>>, p.s[1].v)
    [] t.op = "zmlen" -> ReadZipMapNextLength(p)
    [] t.op = "zmvalue" -> ReadZipMapValue(p)
    [] t.op = "zmentry" -> IF p.v.n = 0 THEN p ELSE Push(p, ZipMapEntry)
    [] t.op = "eof" -> [p EXCEPT !.end = TRUE, !.todo = <<>>]
    [] t.op = "bad" -> Err(p, "bad")
    [] OTHER -> Command(t.op, p)
\* A bug: the expiry of the last object is kept.
NextRoundStale(p) == [p EXCEPT !.todo = Round]
NextRound(p) == [p EXCEPT !.todo = Round, !.exp = 0]
Step(p) ==
  IF p.todo = <<>> THEN NextRound(p)
  ELSE Task(Head(p.todo), [p EXCEPT !.todo = Tail(@)])
=============================================================================
