----------------------------- MODULE MCStorage ------------------------------
(* All tables of TPC-H, with files of one or two rows.  A vector compares     *)
(* three bytes, so that fields end in blocks, behind them and at their edges. *)
EXTENDS Storage

F(text, val) == [text |-> text, val |-> val]
D(year, month, day) == [year |-> year, month |-> month, day |-> day]

Numbers == <<F(<<55>>, 7), F(<<45, 49, 50>>, -12), F(<<51, 48, 53>>, 305)>>
Prices == <<F(<<49, 46, 53>>, 150), F(<<45, 48, 46, 50, 53>>, -25), F(<<57, 48, 49, 46, 48, 48>>, 90100)>>
Flags == <<F(<<65>>, 65), F(<<70>>, 70), F(<<78>>, 78)>>
Texts == <<F(<<65>>, <<65>>), F(<<65, 66>>, <<65, 66>>), F(<<66, 65, 66, 65>>, <<66, 65, 66, 65>>)>>
Days ==
  <<F(<<49, 57, 57, 54, 45, 48, 50, 45, 50, 57>>, D(1996, 2, 29)),
    F(<<49, 57, 57, 53, 45, 49, 50, 45, 51, 49>>, D(1995, 12, 31)),
    F(<<49, 57, 57, 54, 45, 48, 51, 45, 48, 49>>, D(1996, 3, 1))>>

FieldsOf == [int32 |-> Numbers, int64 |-> Numbers, double |-> Prices, char |-> Flags, date |-> Days, string |-> Texts]

\* The last column of each table is a comment, which may be empty.
Row(t, v) ==
  [c \in DOMAIN TableDefs[t] |->
    IF v = 2 /\ c = Len(TableDefs[t]) THEN F(<<>>, <<>>) ELSE FieldsOf[TableDefs[t][c]][1 + ((v + c) % 3)]]

MCTables == DOMAIN TableDefs
MCInputs ==
  [t \in MCTables |-> {<<>>, <<<<Row(t, 0), Row(t, 2)>>>>, <<<<Row(t, 2)>>, <<Row(t, 1), Row(t, 0)>>>>}]

\* o_orderstatus, the third column of orders, is left out: what a query reads of it is not its value.
MCQueries ==
  [t \in MCTables |->
    {SelectSeq([c \in DOMAIN TableDefs[t] |-> c], LAMBDA c : t # "orders" \/ c # 3), <<Len(TableDefs[t]), 1>>}]

MCPredicates ==
  {[k |-> "none"], [k |-> "year", arg |-> 1996], [k |-> "like", arg |-> <<65, 37>>],
   [k |-> "like", arg |-> <<37, 66, 65>>], [k |-> "eq", arg |-> <<65, 66>>], [k |-> "lt", arg |-> <<65, 66>>]}

ASSUME ConstantsAssumption == QueriesAgree /\ InputsAreTables /\ PredicatesAreMeant /\ Garbage \notin Nat \X Nat
==============================================================================
