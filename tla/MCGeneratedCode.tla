-------------------------- MODULE MCGeneratedCode --------------------------
(* Pipelines in the manner of the TPC-H queries the engine runs, on small words. *)
EXTENDS GeneratedCode

BitsDef == [i1 |-> 1, i8 |-> 2, i32 |-> 3, i64 |-> 4]
SumHash(keys) == FoldLeft(LAMBDA s, k : (s + k) % 4, 0, keys)
YearDef(d) == d \div 2

IU(n, t) == [n |-> n, t |-> t]
Use(iu) == IUExp(iu.t, iu.n)
Num(v) == ConstExp("Integer", v)
Dbl(v) == ConstExp("Double", v * Unit)
Scan(ius) == [k |-> "scan", ius |-> ius]
Selection(p) == [k |-> "selection", pred |-> p]
Map(iu, e) == [k |-> "map", iu |-> iu, map |-> e]
Probe(l, r, payload, cond) == [k |-> "probe", leftKeys |-> l, rightKeys |-> r, payload |-> payload, cond |-> cond]
Sink(ius) == [k |-> "sink", ius |-> ius]

a == IU("a", "Integer")
b2 == IU("b", "BigInt")
c == IU("c", "Char")
d == IU("d", "Date")
x == IU("x", "Double")
s == IU("s", "String")
v == IU("v", "Double")
w == IU("w", "Integer")
k1 == IU("k", "Integer")
p == IU("p", "Integer")
u == IU("u", "Char")

NoBuild == {<<>>}
Tuple(key, pay) == [keys |-> <<key>>, vals |-> [k |-> key, p |-> pay, u |-> 1]]
Builds == {<<>>, <<Tuple(1, 2)>>, <<Tuple(1, 2), Tuple(3, 0), Tuple(1, 5)>>, <<Tuple(5, 1), Tuple(1, 7), Tuple(3, 2)>>}

And(l, r) == BinOpExp("And", l, r)
Or(l, r) == BinOpExp("Or", l, r)
Bin(op, l, r) == BinOpExp(op, l, r)

QueriesDef == <<
  \* q06: a range of dates and a product of doubles; date constants are integers
  [ops |-> <<Scan(<<a, d, x>>), Selection(And(Bin("CMPGE", Use(d), Num(1)), Bin("CMPLE", Use(d), Num(2)))),
             Map(v, Bin("Mul", Use(x), Bin("Sub", Dbl(1), Use(x)))), Sink(<<v, d>>)>>,
   rows |-> [a : {1}, d : {0, 1, 3}, x : {2, 12}], builds |-> NoBuild],
  \* divisions behind conditions that guard them, nested both ways
  [ops |-> <<Scan(<<a, b2>>),
             Selection(Or(And(Bin("CMPNE", Use(a), Num(0)), Bin("CMPGT", Bin("Div", Num(3), Use(a)), Use(b2))),
                          And(Bin("CMPNE", Use(b2), Num(0)), Bin("CMPEQ", Bin("Div", Use(a), Use(b2)), Num(1))))),
             Sink(<<a, b2>>)>>,
   rows |-> [a : {0, 1, 7}, b : {0, 1, 15}], builds |-> NoBuild],
  \* a division nothing guards
  [ops |-> <<Scan(<<a>>), Map(w, Bin("Div", Num(4), Use(a))), Sink(<<w>>)>>,
   rows |-> [a : {0, 2, 7}], builds |-> NoBuild],
  \* q12, q14: CASE over conditions, values cast to its type, used in arithmetic
  [ops |-> <<Scan(<<a, c>>),
             Map(v, Bin("Add", CaseExp(<<Or(Bin("CMPEQ", Use(a), Num(1)), Bin("CMPEQ", Use(a), Num(2))),
                                         Bin("CMPLT", Use(c), ConstExp("Char", 0))>>,
                                       <<Use(a), Use(c)>>, Dbl(2), "Double"), Use(c))),
             Sink(<<v>>)>>,
   rows |-> [a : {1, 2, 3}, c : {1, 2}], builds |-> NoBuild],
  \* q08: the year of a date, a negation, sums that wrap around
  [ops |-> <<Scan(<<a, d>>),
             Selection(UnaryExp("NOT", Bin("CMPEQ", UnaryExp("EXTRACT_YEAR", Use(d)), Num(1)))),
             Map(w, Bin("Mul", Bin("Add", Use(a), Num(3)), Use(a))), Sink(<<w>>)>>,
   rows |-> [a : {1, 3, 6}, d : {0, 2, 4}], builds |-> NoBuild],
  \* r_name = 'ASIA'
  [ops |-> <<Scan(<<s>>), Selection(Bin("CMPEQ", Use(s), ConstExp("String", "ASIA"))), Sink(<<s>>)>>,
   rows |-> [s : {"ASIA", "AFRICA"}], builds |-> NoBuild],
  \* a join behind a selection, residual condition on both sides (q19)
  [ops |-> <<Scan(<<a, b2, c>>), Selection(Bin("CMPGT", Use(b2), Num(0))),
             Probe(<<k1>>, <<a>>, <<p, u>>, <<Or(Bin("CMPLT", Use(p), Use(b2)), Bin("CMPEQ", Use(p), Num(5)))>>),
             Map(w, Bin("Sub", Use(p), Use(a))), Sink(<<a, p, w>>)>>,
   rows |-> [a : {1, 3, 4}, b : {0, 4}, c : {1}], builds |-> Builds],
  \* two joins in one pipeline
  [ops |-> <<Scan(<<a>>), Probe(<<k1>>, <<a>>, <<p>>, <<>>),
             Probe(<<IU("k", "Integer")>>, <<p>>, <<>>, <<>>), Sink(<<a, p>>)>>,
   rows |-> [a : {1, 3, 5}], builds |-> Builds] >>

\* A CASE whose value is a CASE.
NestedCaseDef == <<
  [ops |-> <<Scan(<<a>>),
             Map(w, CaseExp(<<Bin("CMPLT", Use(a), Num(2))>>,
                            <<CaseExp(<<Bin("CMPEQ", Use(a), Num(1))>>, <<Num(1)>>, Num(2), "Integer")>>,
                            Num(0), "Integer")), Sink(<<w>>)>>,
   rows |-> [a : {1}], builds |-> NoBuild] >>
=============================================================================
