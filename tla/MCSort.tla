------------------------------- MODULE MCSort --------------------------------
(* Rows of a String, a Date and a BigInt, sorted by two of them: by the      *)
(* string ascending, by the date descending; r3 and r4 are equal.  No text   *)
(* is the beginning of another, and each is followed in memory by other      *)
(* bytes.  Buffers start with the room of two rows, so that a thread with    *)
(* three needs a second.                                                     *)
EXTENDS Sort, TLC

CONSTANTS r1, r2, r3, r4, r5, w1, w2, key, day, id

Row(k, d, i) == (key :> k) @@ (day :> d) @@ (id :> i)

MCIUs == <<day, key, id>>
MCTypeOf == (key :> "String") @@ (day :> "Date") @@ (id :> "BigInt")
One(rest) == StringView(<<1>>, rest)
MCValue ==
  (r1 :> Row(One(<<2>>), 5, 1)) @@ (r2 :> Row(StringView(<<2, 1>>, <<>>), 8, 2))
    @@ (r3 :> Row(One(<<1>>), 7, 3)) @@ (r4 :> Row(One(<<1>>), 7, 3))
    @@ (r5 :> Row(One(<<0>>), 5, 5))
MCInputs == {{r2, r3, r4}, {r1, r5}, {r3}}
MCKeys == <<key, day>>
MCcmp == <<FALSE, TRUE>>

\* The texts 1, 1 1, 2 and 1 2
MCPrefixes ==
  (r1 :> Row(StringView(<<1>>, <<2, 1>>), 5, 1)) @@ (r2 :> Row(StringView(<<1, 1>>, <<3>>), 5, 2))
    @@ (r3 :> Row(StringView(<<2>>, <<1, 1>>), 5, 3)) @@ (r4 :> Row(StringView(<<1, 2>>, <<1>>), 5, 4))
MCPrefixInputs == {{r1, r2, r3, r4}}
MCOneKey == <<key>>
MCAscending == <<FALSE>>

ASSUME ConstantsAssumption == RoomForRows /\ (Inputs = MCInputs => ComparableKeys)
==============================================================================
