----------------------------- MODULE TupleLayout -----------------------------
(***************************************************************************)
(* Rows as they are materialised (lib/IR/Tuple.cc, Builder::               *)
(* createPackTuple and createUnpackTuple): where each column lies, and     *)
(* what storing and loading through these places does to the bytes.        *)
(*                                                                         *)
(* A cell is one byte of a stored value, <<value, which byte>>.  A load    *)
(* gives back a value only if it finds all of its bytes.                   *)
(***************************************************************************)
EXTENDS Integers, Sequences

CONSTANTS
  IUs,        \* the columns of a row, in the order of their pointers
  TypeOf,     \* their types
  Garbage     \* a value no row has: what a load of overwritten bytes gives

Columns == {IUs[i] : i \in DOMAIN IUs}

ASSUME ColumnsAssumption ==
  /\ IUs \in Seq(Columns) \ {<<>>}
  /\ \A i, j \in DOMAIN IUs : IUs[i] = IUs[j] => i = j

\* The arrays of BaseTypes.h; struct Date has no members, so it has size 1.
typeSizes ==
  [Integer |-> 4, Double |-> 8, Char |-> 1, String |-> 16, BigInt |-> 8, Bool |-> 0, Date |-> 1]
typeAlignments ==
  [Integer |-> 4, Double |-> 8, Char |-> 1, String |-> 8, BigInt |-> 8, Bool |-> 0, Date |-> 1]

\* The bytes createCopy and createLoad touch: createType of the types.  A Date
\* is an i32.
StoredSize ==
  [Integer |-> 4, Double |-> 8, Char |-> 1, String |-> 16, BigInt |-> 8, Bool |-> 1, Date |-> 4]

ASSUME TypesAssumption == \A iu \in Columns : TypeOf[iu] \in DOMAIN StoredSize

Align(iu) == typeAlignments[TypeOf[iu]]

\* What std::sort may make of the columns: those of one alignment in any order
SortedCols ==
  {cols \in [1 .. Len(IUs) -> Columns] :
     /\ \A i, j \in 1 .. Len(IUs) : cols[i] = cols[j] => i = j
     /\ \A i, j \in 1 .. Len(IUs) : i < j => Align(cols[i]) >= Align(cols[j])}

\* Tuple::createPackedTuple
PackedTuple(cols) ==
  LET end[i \in 0 .. Len(IUs)] ==
        IF i = 0 THEN 0 ELSE end[i - 1] + typeSizes[TypeOf[cols[i]]]
      maxAlign == Align(cols[1])
  IN [offset |-> [iu \in Columns |-> end[(CHOOSE i \in 1 .. Len(IUs) : cols[i] = iu) - 1]],
      size |-> IF maxAlign = 0 THEN 0
               ELSE ((end[Len(IUs)] + maxAlign - 1) \div maxAlign) * maxAlign]

\* The bytes a column's value takes, counted from the tuple's address.
Extent(layout, iu) == layout.offset[iu] .. layout.offset[iu] + StoredSize[TypeOf[iu]] - 1

\* Each column has room of its own within the tuple.  This is so of columns
\* that are stored with the size they are given, and of some others: a Date
\* needs three bytes that no column has behind its own.
Fits(layout) ==
  /\ \A iu \in Columns : Extent(layout, iu) \subseteq 0 .. layout.size - 1
  /\ \A iu, iv \in Columns : iu # iv => Extent(layout, iu) \intersect Extent(layout, iv) = {}

\* Builder::createPackTuple: the columns are stored one after the other, so a
\* byte of two of them holds the later one.
PackTuple(layout, row) ==
  [a \in UNION {Extent(layout, iu) : iu \in Columns} |->
     LET i == CHOOSE i \in DOMAIN IUs :
                /\ a \in Extent(layout, IUs[i])
                /\ \A j \in DOMAIN IUs : a \in Extent(layout, IUs[j]) => j <= i
     IN <<<<IUs[i], row[IUs[i]]>>, a - layout.offset[IUs[i]]>>]

\* createLoad of column iu of the tuple at address addr of mem
Load(layout, mem, addr, iu) ==
  LET at == addr + layout.offset[iu]
      whole(v) == \A k \in 0 .. StoredSize[TypeOf[iu]] - 1 :
                    at + k \in DOMAIN mem /\ mem[at + k] = <<v, k>>
  IN IF at \in DOMAIN mem /\ mem[at][1][1] = iu /\ whole(mem[at][1]) THEN mem[at][1][2] ELSE Garbage

UnpackTuple(layout, mem, addr) == [iu \in Columns |-> Load(layout, mem, addr, iu)]
=============================================================================
