------------------------------ MODULE RdbWriter ------------------------------
(***************************************************************************)
(* External: what redis writes into a dump, what it means by it, and what  *)
(* the target does with the commands that anzi makes of it.  An            *)
(* object is [t, key, exp, lru, x]: its type, an expiry <<unit, n>>, what   *)
(* precedes the type, and its elements.  An element is [k, v]: a value and *)
(* the way it is encoded; texts are three bytes long.                      *)
(***************************************************************************)
EXTENDS Rdb

Raw(v) == <<F(1, 3), Field(3, v)>>
Text(t) == Raw([t |-> t])
String(x) ==
  CASE x.k = "raw" -> Raw(x.v)
    [] x.k = "raw14" -> <<F(1, 64), F(1, 3), Field(3, x.v)>>
    [] x.k = "raw32" -> <<F(1, 128), F(4, 3), Field(3, x.v)>>
    [] x.k = "raw64" -> <<F(1, 129), F(8, 3), Field(3, x.v)>>
    [] x.k = "int8" -> <<F(1, 192), Field(1, x.v)>>
    [] x.k = "int16" -> <<F(1, 193), Field(2, x.v)>>
    [] x.k = "int32" -> <<F(1, 194), Field(4, x.v)>>
    [] x.k = "lzf" -> <<F(1, 195), F(1, Len(x.z)), F(1, Len(x.v.b)), Field(Len(x.z), [b |-> x.z])>>
ZEntry(x, i) ==
  (IF i = 1 THEN <<F(1, 0)>> ELSE IF i = 2 THEN <<F(1, 5)>> ELSE <<F(1, 254), F(4, 300)>>) \o
  CASE x.k = "raw" -> Raw(x.v)
    [] x.k = "raw14" -> <<F(1, 64), F(1, 3), Field(3, x.v)>>
    [] x.k = "raw32" -> <<F(1, 128), F(4, 3), Field(3, x.v)>>
    [] x.k = "int16" -> <<F(1, 192), Field(2, x.v)>>
    [] x.k = "int32" -> <<F(1, 208), Field(4, x.v)>>
    [] x.k = "int64" -> <<F(1, 224), Field(8, x.v)>>
    [] x.k = "int24" -> <<F(1, 240), Field(3, x.v)>>
    [] x.k = "int8" -> <<F(1, 254), Field(1, x.v)>>
    [] x.k = "imm" -> <<F(1, 241 + x.v.n)>>
All(n, f(_)) == FlattenSeq([i \in 1..n |-> f(i)])
ZipOf(xs) == <<F(4, 0), F(4, 0), F(2, Len(xs))>>
           \o All(Len(xs), LAMBDA i : ZEntry(xs[i], i)) \o <<F(1, 255)>>
Blob(fields) == <<F(1, 9), Field(9, [f |-> fields])>>
IntWidth == [int16 |-> 2, int32 |-> 4, int64 |-> 8]

Score(x) == IF x.v = [t |-> "inf"] THEN <<F(1, 254)>> ELSE Raw(x.v)
Body(o) ==
  LET x == o.x
      n == Len(x)
      strings == All(n, LAMBDA i : String(x[i]))
  IN CASE o.t = 0 -> strings
       [] o.t \in {1, 2} -> <<F(1, n)>> \o strings
       [] o.t = 3 -> <<F(1, n \div 2)>> \o All(n, LAMBDA i : IF i % 2 = 1 THEN String(x[i]) ELSE Score(x[i]))
       [] o.t = 4 -> <<F(1, n \div 2)>> \o strings
       [] o.t = 5 -> <<F(1, n \div 2)>> \o All(n, LAMBDA i : IF i % 2 = 1 THEN String(x[i]) ELSE <<Field(8, x[i].v)>>)
       [] o.t = 9 -> Blob(<<F(1, n \div 2)>> \o All(n, LAMBDA i :
                       IF i % 2 = 1 THEN Raw(x[i].v)
                       ELSE <<F(1, 254), F(4, 3), F(1, i - 2), Field(3, x[i].v)>>
                            \o IF i = 2 THEN <<>> ELSE <<F(i - 2, 0)>>) \o <<F(1, 255)>>)
       [] o.t \in {10, 12, 13} -> Blob(ZipOf(x))
       [] o.t = 11 -> Blob(<<F(4, IntWidth[x[1].k]), F(4, n)>>
                           \o [i \in 1..n |-> Field(IntWidth[x[1].k], x[i].v)])
       [] o.t = 14 -> <<F(1, n)>> \o All(n, LAMBDA i : Blob(ZipOf(<<x[i]>>)))
       [] o.t \in {7, 247} -> <<F(1, 129), F(8, 7), F(1, 2), F(1, 1), F(1, 3), F(4, 0), F(1, 4), F(8, 0), F(1, 5)>>
                              \o Text("mod") \o <<F(1, 0)>>
       [] o.t = 15 -> <<F(1, 1)>> \o Text("mid") \o Text("lps")
                      \o <<F(1, 1), F(1, 5), F(1, 0), F(1, 1)>>
                      \o Text("grp") \o <<F(1, 5), F(1, 0), F(1, 1), F(16, 0), F(8, 0), F(1, 1), F(1, 1)>>
                      \o Text("con") \o <<F(8, 0), F(1, 1), F(16, 0)>>
       [] o.t = 250 -> strings
       [] o.t = 251 -> <<F(1, 1), F(1, 0)>>
       [] o.t = 254 -> <<F(1, 0)>>
       [] OTHER -> <<>>
Expiry(o) == CASE o.exp[1] = "ms" -> <<F(1, 252), F(8, o.exp[2])>>
               [] o.exp[1] = "s" -> <<F(1, 253), F(4, o.exp[2])>>
               [] OTHER -> <<>>
Lru(o) == CASE o.lru = "idle" -> <<F(1, 248), F(1, 7)>>
            [] o.lru = "freq" -> <<F(1, 249), F(1, 200)>>
            [] OTHER -> <<>>
Encode(o) == Expiry(o) \o Lru(o) \o <<F(1, o.t)>>
             \o (IF o.t < 247 THEN Text(o.key) ELSE <<>>) \o Body(o)
Dump(os) == All(Len(os), LAMBDA i : Encode(os[i])) \o <<F(1, 255), F(8, 0)>>

(* What an object consists of: the commands that rebuild it, and when it    *)
(* expires, in milliseconds; anzi sends nothing of a stream or a module.    *)
Millis(o) == CASE o.exp[1] = "ms" -> o.exp[2] [] o.exp[1] = "s" -> 1000 * o.exp[2] [] OTHER -> 0
Expires(key, ms) == <<"expires", key, [n |-> ms]>>
Means(o) ==
  LET x == o.x
      key == [t |-> o.key]
      each(cmd) == [i \in 1..Len(x) |-> <<cmd, key, x[i].v>>]
      pairs(cmd) == [i \in 1..Len(x) \div 2 |-> <<cmd, key, x[2 * i - 1].v, x[2 * i].v>>]
      add == CASE o.t = 0 -> each("SET")
               [] o.t \in {1, 10, 14} -> each("RPUSH")
               [] o.t \in {2, 11} -> each("SADD")
               [] o.t \in {3, 5, 12} -> pairs("ZADD")
               [] o.t \in {4, 9, 13} -> pairs("HSET")
               [] OTHER -> <<>>
  IN IF add = <<>> \/ Millis(o) = 0 THEN add ELSE Append(add, Expires(key, Millis(o)))

(* What the target makes of commands on one key: ZADD without a score is    *)
(* refused, EXPIREAT takes seconds, and has no effect on a missing key.     *)
Applied(cmds) ==
  LET done == SelectSeq(cmds, LAMBDA c : c[1] # "ZADD" \/ Len(c) = 4)
  IN IF \A i \in DOMAIN done : done[i][1] = "EXPIREAT" THEN <<>>
     ELSE [i \in DOMAIN done |-> IF done[i][1] # "EXPIREAT" THEN done[i]
                                 ELSE Expires(done[i][2], 1000 * done[i][3].n)]

(* What arrives of an object.  Two things anzi gets wrong for all of them:  *)
(* it sends no scores, so that a sorted set is not there at the target, and *)
(* it sends milliseconds, so that an expiry is a thousand times as late.    *)
Arrives(o) ==
  LET all == Means(o) IN
  IF o.t \in {3, 5, 12} THEN <<>>
  ELSE [i \in DOMAIN all |-> IF all[i][1] = "expires" THEN Expires(all[i][2], 1000 * all[i][3].n)
                             ELSE all[i]]

(* The objects the reader gets wrong: an 8-bit string or a 24-bit ziplist   *)
(* entry below 0, seconds that overflow, a zipmap text that is not how its  *)
(* integer is printed.                                                      *)
Exact(o) ==
  /\ \A i \in 1..Len(o.x) :
       /\ ~(o.t < 6 /\ o.x[i].k = "int8" /\ o.x[i].v.n < 0)
       /\ ~(o.x[i].k = "int24" /\ o.x[i].v.n < 0)
       /\ ~(o.t = 9 /\ i % 2 = 0 /\ o.x[i].v.t \in DOMAIN Parsed /\ Parsed[o.x[i].v.t] # o.x[i].v.t)
  /\ o.exp[1] = "s" => 1000 * o.exp[2] < U32
(* and the one that puts it out of step: a score without text.              *)
Skews(o) == o.t = 3 /\ \E i \in 1..Len(o.x) : o.x[i].k = "score" /\ o.x[i].v = [t |-> "inf"]
=============================================================================
