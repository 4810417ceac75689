------------------------------- MODULE Catalog -------------------------------
(***************************************************************************)
(* The tables: the types their columns are imported as                     *)
(* (data-generator/tpch.hpp), mapped as (struct InMemoryTPCH), and scanned *)
(* as (TPCH::tables_indices).  Columns are named by their positions.       *)
(***************************************************************************)
EXTENDS Integers, Sequences

\* TableDef of each table
TableDefs ==
  [part     |-> <<"int32", "string", "string", "string", "string", "int32", "string", "double", "string">>,
   supplier |-> <<"int32", "string", "string", "int32", "string", "double", "string">>,
   partsupp |-> <<"int32", "int32", "int32", "double", "string">>,
   customer |-> <<"int32", "string", "string", "int32", "string", "double", "string", "string">>,
   orders   |-> <<"int64", "int32", "char", "double", "date", "string", "string", "int32", "string">>,
   lineitem |-> <<"int64", "int32", "int32", "int32", "double", "double", "double", "double", "char", "char",
                  "date", "date", "date", "string", "string", "string">>,
   nation   |-> <<"int32", "string", "int32", "string">>,
   region   |-> <<"int32", "string", "string">>]

\* The ColumnMappings of each table
InMemoryTPCH ==
  [part     |-> <<"int32_t", "StringView", "StringView", "StringView", "StringView", "int32_t", "StringView",
                  "double", "StringView">>,
   supplier |-> <<"int32_t", "StringView", "StringView", "int32_t", "StringView", "double", "StringView">>,
   partsupp |-> <<"int32_t", "int32_t", "int32_t", "double", "StringView">>,
   customer |-> <<"int32_t", "StringView", "StringView", "int32_t", "StringView", "double", "StringView",
                  "StringView">>,
   orders   |-> <<"int64_t", "int32_t", "char", "double", "Date", "StringView", "StringView", "int32_t",
                  "StringView">>,
   lineitem |-> <<"int64_t", "int32_t", "int32_t", "int32_t", "double", "double", "double", "double", "char",
                  "char", "Date", "Date", "Date", "StringView", "StringView", "StringView">>,
   nation   |-> <<"int32_t", "StringView", "int32_t", "StringView">>,
   region   |-> <<"int32_t", "StringView", "StringView">>]

\* The type the column of an IU has, and the IU with it.  The only difference:
\* o_orderstatus, a char, is a String.
tables_indices ==
  [part     |-> <<"Integer", "String", "String", "String", "String", "Integer", "String", "Double", "String">>,
   supplier |-> <<"Integer", "String", "String", "Integer", "String", "Double", "String">>,
   partsupp |-> <<"Integer", "Integer", "Integer", "Double", "String">>,
   customer |-> <<"Integer", "String", "String", "Integer", "String", "Double", "String", "String">>,
   orders   |-> <<"BigInt", "Integer", "String", "Double", "Date", "String", "String", "Integer", "String">>,
   lineitem |-> <<"BigInt", "Integer", "Integer", "Integer", "Double", "Double", "Double", "Double", "Char", "Char",
                  "Date", "Date", "Date", "String", "String", "String">>,
   nation   |-> <<"Integer", "String", "Integer", "String">>,
   region   |-> <<"Integer", "String", "String">>]

\* sizeof of the types the generator writes
sizeOf == [int32 |-> 4, int64 |-> 8, double |-> 8, char |-> 1, date |-> 4]

\* The bytes from one element of a fixed-size column to the next: the LLVM type
\* p2c_col_gen<T>::createAccess steps over.
stride == [Integer |-> 4, BigInt |-> 8, Double |-> 8, Char |-> 1, Date |-> 4]

\* sizeof of the types of the ColumnMappings; struct Date has no members.
mappedSizeOf == [int32_t |-> 4, int64_t |-> 8, double |-> 8, char |-> 1, Date |-> 1]
=============================================================================
