------------------------------- MODULE MCAnzi -------------------------------
(* Two instances and one token.  The first holds objects of each type and  *)
(* encoding in turn, and then a plain one that tells whether the reader    *)
(* is still in step.                                                       *)
EXTENDS Anzi

X(k, v) == [k |-> k, v |-> v]
Obj(t, x) == [t |-> t, key |-> "key", exp |-> <<"no", 0>>, lru |-> "no", x |-> x]
With(o, exp, lru) == [o EXCEPT !.exp = exp, !.lru = lru]
Plain(key) == [Obj(0, <<X("raw", [t |-> "abc"])>>) EXCEPT !.key = key]
R(t) == X("raw", [t |-> t])
Objects ==
  {<<Obj(0, <<X("raw14", [t |-> "abc"])>>), Obj(0, <<X("raw32", [t |-> "abc"])>>), Obj(0, <<X("raw64", [t |-> "abc"])>>)>>,
   <<Obj(0, <<X("int8", [n |-> 5])>>), Obj(0, <<X("int8", [n |-> -1])>>), Obj(0, <<X("int16", [n |-> -2])>>),
     Obj(0, <<X("int32", [n |-> 70000])>>)>>,
   <<Obj(0, <<[k |-> "lzf", v |-> [b |-> <<1, 2, 1, 2, 1>>], z |-> <<1, 1, 2, 32, 1>>]>>),
     Obj(0, <<[k |-> "lzf", v |-> [b |-> [i \in 1..11 |-> 9]], z |-> <<0, 9, 224, 1, 0>>]>>)>>,
   <<With(Obj(0, <<R("abc")>>), <<"ms", 90000>>, "no")>>,
   <<With(Obj(0, <<R("abc")>>), <<"ms", 5>>, "idle"), With(Obj(0, <<R("abc")>>), <<"s", 7>>, "freq")>>,
   <<With(Obj(1, <<R("abc"), X("int8", [n |-> 3])>>), <<"s", 60>>, "idle"), With(Obj(2, <<R("abc")>>), <<"s", 70>>, "no")>>,
   <<Obj(2, <<R("abc"), R("def")>>), Obj(3, <<R("abc"), X("score", [t |-> "1.5"])>>),
     Obj(4, <<R("abc"), X("int16", [n |-> 300])>>), Obj(5, <<R("abc"), X("score", [n |-> 2])>>)>>,
   <<Obj(3, <<R("abc"), X("score", [t |-> "inf"])>>)>>, <<Obj(6, <<>>)>>, <<Obj(8, <<>>)>>,
   <<Obj(7, <<>>), Obj(15, <<>>)>>,
   <<Obj(9, <<R("abc"), R("012"), R("def"), R("123")>>), Obj(9, <<R("abc"), R("def"), R("def"), R("123")>>)>>,
   <<Obj(10, <<R("abc"), X("raw14", [t |-> "def"]), X("raw32", [t |-> "ghi"])>>),
     With(Obj(10, <<X("int16", [n |-> -7]), X("int32", [n |-> 70000]), X("int64", [n |-> 1])>>), <<"ms", 5>>, "no")>>,
   <<Obj(10, <<X("int24", [n |-> 66000]), X("int8", [n |-> -1]), X("imm", [n |-> 12])>>), Obj(10, <<X("int24", [n |-> -2])>>)>>,
   <<Obj(11, <<X("int16", [n |-> 1]), X("int16", [n |-> -2])>>), Obj(11, <<X("int32", [n |-> 70000])>>),
     Obj(11, <<X("int64", [n |-> 1])>>)>>,
   <<Obj(12, <<R("abc"), X("imm", [n |-> 1])>>), Obj(13, <<R("abc"), X("imm", [n |-> 0])>>),
     With(Obj(14, <<R("abc"), X("imm", [n |-> 0])>>), <<"s", 9>>, "freq")>>}
Keyed(os) == [i \in DOMAIN os |-> [os[i] EXCEPT !.key = <<"key1", "key2", "key3", "key4">>[i]]]
Leading == <<Obj(250, <<R("aux"), X("int8", [n |-> 64])>>), Obj(247, <<>>), Obj(254, <<>>), Obj(251, <<>>)>>
MCDumps == {("a" :> Keyed(os) \o <<Plain("two")>> @@ "b" :> <<>>) : os \in Objects}
           \cup {("a" :> Leading @@ "b" :> <<Plain("b"), Plain("c")>>)}
MCParsed == ("012" :> "12" @@ "123" :> "123")
=============================================================================
