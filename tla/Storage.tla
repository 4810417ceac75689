------------------------------- MODULE Storage -------------------------------
(***************************************************************************)
(* A table's way from text to a query: the import (TableReader in          *)
(* data-generator/table-reader.hpp) parses its files into columns and      *)
(* writes each as a file of its own (DataColumn in io.hpp); the engine     *)
(* maps the files (include/internal/File.h) and a query scans some of the  *)
(* columns with a predicate.                                               *)
(***************************************************************************)
EXTENDS Csv, Catalog, Strings, FiniteSets, TLC

CONSTANTS
  Tables,       \* names of the tables that are imported
  Queries,      \* of each, the lists of columns that queries use
  Inputs,       \* of each, what its files may hold: a sequence of files, these
                \* of rows, these of fields [text |-> bytes, val |-> its meaning]
  Predicates,   \* what a query may ask of a row
  Garbage       \* what is read where something else was stored

ASSUME TablesAssumption == Tables \subseteq DOMAIN TableDefs
ASSUME QueriesAssumption ==
  \A t \in Tables : \A q \in Queries[t] : \A i \in DOMAIN q : q[i] \in DOMAIN TableDefs[t]

VARIABLES
  stage,      \* "read", "write", "map", "scan", "done" or "aborted"
  table,
  input,      \* what the files hold
  texts,      \* their bytes
  file,       \* the file that is read
  pos,        \* the next byte
  col,        \* the next column
  rows,       \* the lines that were read
  outputs,    \* the values of each column
  columns,    \* what the files of the columns hold, then what is mapped
  cols,       \* the columns the query uses
  pred,       \* and its predicate
  row,        \* the next row of the scan
  out         \* the rows it passed on

vars == <<stage, table, input, texts, file, pos, col, rows, outputs, columns, cols, pred, row, out>>
fixedVars == <<table, input, texts>>
queryVars == <<cols, pred, row, out>>

Types == TableDefs[table]

\* The text of a file: a delimiter behind each field, the last of a line included
FileText(lines) ==
  FlattenSeq([l \in DOMAIN lines |->
    FlattenSeq([c \in DOMAIN lines[l] |-> Append(lines[l][c].text, delim)]) \o <<eol>>])

Init ==
  /\ stage = "read"
  /\ table \in Tables
  /\ input \in Inputs[table]
  /\ \E texts0 \in {[f \in DOMAIN input |-> FileText(input[f])]} :
       \/ texts = texts0
       \/ \* the last line may lack its end
          texts0 # <<>> /\ texts = [texts0 EXCEPT ![Len(texts0)] = Front(@)]
  /\ file = 1 /\ pos = 1 /\ col = 1 /\ rows = 0
  /\ outputs = [c \in DOMAIN Types |-> <<>>]
  /\ columns = <<>>
  /\ cols = <<>> /\ pred = [k |-> "none"] /\ row = 0 /\ out = <<>>

-----------------------------------------------------------------------------
(* The import *)

\* TableImport's consumer: the column at hand is parsed and appended.
ReadColumn ==
  /\ stage = "read" /\ file <= Len(texts) /\ col <= Len(Types)
  /\ pos < Limit(texts[file])
  /\ \E v \in {parse_value(Types[col], texts[file], FieldAt(texts[file], pos))} :
       /\ outputs' = [outputs EXCEPT ![col] = Append(@, v.val)]
       /\ pos' = Behind(texts[file], v.end)
  /\ col' = col + 1
  /\ UNCHANGED <<fixedVars, queryVars, stage, file, rows, columns>>

\* read_line has all columns and goes to the next line.
EndLine ==
  /\ stage = "read" /\ file <= Len(texts) /\ col > Len(Types)
  /\ pos' = NextLine(texts[file], pos)
  /\ col' = 1
  /\ rows' = rows + 1
  /\ UNCHANGED <<fixedVars, queryVars, stage, file, outputs, columns>>

\* Faulty variant of EndFile: the file is not left.
EndFileStays ==
  /\ stage = "read" /\ file <= Len(texts) /\ col <= Len(Types)
  /\ pos = Limit(texts[file])
  /\ col' = 1
  /\ UNCHANGED <<fixedVars, queryVars, stage, file, pos, rows, outputs, columns>>

\* read_line finds no further column: read_file returns, and the next file follows.
EndFile ==
  /\ stage = "read" /\ file <= Len(texts) /\ col <= Len(Types)
  /\ pos = Limit(texts[file])
  /\ file' = file + 1
  /\ pos' = 1
  /\ col' = 1
  /\ UNCHANGED <<fixedVars, queryVars, stage, rows, outputs, columns>>

EndRead ==
  /\ stage = "read" /\ file > Len(texts)
  /\ stage' = "write"
  /\ UNCHANGED <<fixedVars, queryVars, file, pos, col, rows, outputs, columns>>

\* Memory is a set of stores <<address, bytes, value>>.  A load that is not of
\* one whole value, or of a byte that was stored twice, yields Garbage.
Load(mem, addr, n) ==
  LET here == {s \in mem : s[1] < addr + n /\ addr < s[1] + s[2]}
  IN IF \E s \in here : here = {s} /\ s[1] = addr /\ s[2] = n
     THEN (CHOOSE s \in here : TRUE)[3]
     ELSE Garbage

GLOBAL_OVERHEAD == 8
PER_ITEM_OVERHEAD == 16
SlotAt(idx) == GLOBAL_OVERHEAD + PER_ITEM_OVERHEAD * idx

\* The bytes of the first i strings, for each i
BytesUpTo(items) ==
  LET bytes[i \in 0 .. Len(items)] == IF i = 0 THEN 0 ELSE bytes[i - 1] + Len(items[i]) IN bytes

\* ColumnOutput's output_size
OutputSize(items) == GLOBAL_OVERHEAD + PER_ITEM_OVERHEAD * Len(items) + BytesUpTo(items)[Len(items)]

\* Where the ith string begins: they fill the page from the back.
OffsetOf(items, i) == OutputSize(items) - BytesUpTo(items)[i]

\* make_page of strings
StringPage(items) ==
  {<<0, GLOBAL_OVERHEAD, Len(items)>>}
    \union {<<SlotAt(i - 1), PER_ITEM_OVERHEAD, <<Len(items[i]), OffsetOf(items, i)>>>> : i \in DOMAIN items}
    \union UNION {{<<OffsetOf(items, i) + k - 1, 1, items[i][k]>> : k \in DOMAIN items[i]} : i \in DOMAIN items}

\* make_page of values of n bytes
FixedPage(items, n) == {<<(i - 1) * n, n, items[i]>> : i \in DOMAIN items}

make_page(type, items) ==
  IF type = "string"
  THEN [file_size |-> OutputSize(items), mem |-> StringPage(items)]
  ELSE [file_size |-> Len(items) * sizeOf[type], mem |-> FixedPage(items, sizeOf[type])]

\* ~TableReader.  A file of no bytes cannot be mapped: the exception leaves a
\* destructor and ends the program.
WritePages ==
  /\ stage = "write"
  /\ \E pages \in {[c \in DOMAIN Types |-> make_page(Types[c], outputs[c])]} :
       IF \E c \in DOMAIN Types : pages[c].file_size = 0
       THEN stage' = "aborted" /\ UNCHANGED columns
       ELSE stage' = "map" /\ columns' = pages
  /\ UNCHANGED <<fixedVars, queryVars, file, pos, col, rows, outputs>>

-----------------------------------------------------------------------------
(* The engine *)

\* ColumnMapping: the elements of a fixed-size column, the bytes of another
MappedSize(type, file_size) == IF type = "StringView" THEN file_size ELSE file_size \div mappedSizeOf[type]

\* The database is mapped and a query begins.
MapColumns ==
  /\ stage = "map"
  /\ columns' = [c \in DOMAIN Types |->
                   [data |-> columns[c].mem, size |-> MappedSize(InMemoryTPCH[table][c], columns[c].file_size)]]
  /\ cols' \in Queries[table]
  /\ pred' \in Predicates
  /\ stage' = "scan"
  /\ UNCHANGED <<fixedVars, file, pos, col, rows, outputs, row, out>>

\* tuple_count, which the scheduler gets as the table's size
TupleCount == columns[1].size

\* load_from_slotted_page: the view and what memory holds behind it
load_from_slotted_page(idx, column) ==
  LET slot == Load(column.data, SlotAt(idx), PER_ITEM_OVERHEAD)
      view(length, offset) ==
        [data |-> [k \in 1 .. column.size - offset |-> Load(column.data, offset + k - 1, 1)], length |-> length]
  IN IF slot = Garbage THEN Garbage ELSE view(slot[1], slot[2])

\* createColumnAccess, by the type the catalog gives the column
Access(c, idx) ==
  LET type == tables_indices[table][c] IN
  IF type = "String" THEN load_from_slotted_page(idx, columns[c])
  ELSE Load(columns[c].data, idx * stride[type], stride[type])

\* The first of the query's columns of a type; 0 if there is none
Tested(type) ==
  LET js == {j \in DOMAIN cols : Types[cols[j]] = type} IN IF js = {} THEN 0 ELSE Least(js)

\* What the scan's selection evaluates to for a row
Holds(values) ==
  LET date == Tested("date")
      string == Tested("string")
  IN
  /\ pred.k = "year" /\ date # 0 => extractYear(values[date]) = pred.arg
  /\ pred.k = "like" /\ string # 0 => LikeExp(values[string], pred.arg)
  /\ pred.k = "eq" /\ string # 0 => string_eq(values[string], StringView(pred.arg, <<0>>))
  /\ pred.k = "lt" /\ string # 0 => string_lt(values[string], StringView(pred.arg, <<0>>))

\* How a value is printed: printDate, printStringView and the rest
Shown(j, v) ==
  CASE Types[cols[j]] = "string" -> Text(v)
    [] Types[cols[j]] = "date" -> fromInt(v)
    [] OTHER -> v

ScanRow ==
  /\ stage = "scan"
  /\ row < TupleCount
  /\ \E values \in {[j \in DOMAIN cols |-> Access(cols[j], row)]} :
       out' = IF Holds(values) THEN Append(out, [j \in DOMAIN cols |-> Shown(j, values[j])]) ELSE out
  /\ row' = row + 1
  /\ UNCHANGED <<fixedVars, stage, file, pos, col, rows, outputs, columns, cols, pred>>

EndScan ==
  /\ stage = "scan"
  /\ row >= TupleCount
  /\ stage' = "done"
  /\ UNCHANGED <<fixedVars, queryVars, file, pos, col, rows, outputs, columns>>

Finished == stage \in {"done", "aborted"} /\ UNCHANGED vars

Next ==
  ReadColumn \/ EndLine \/ EndFile \/ EndRead \/ WritePages \/ MapColumns \/ ScanRow \/ EndScan \/ Finished

\* The import runs on one thread until it ends, and the scheduler gives the
\* morsels of a scan to threads that run until there is none left.
Spec == Init /\ [][Next]_vars /\ WF_vars(Next)

-----------------------------------------------------------------------------
(* What the theorems ask of the constants *)

\* The type a column must have in the catalog to be read as it was imported
EngineType ==
  [int32 |-> "Integer", int64 |-> "BigInt", double |-> "Double", char |-> "Char", date |-> "Date", string |-> "String"]

IsList(s) == Len(s) \in Nat /\ s = [i \in 1 .. Len(s) |-> s[i]]

\* Queries use columns that the catalog has right: it takes o_orderstatus, a char, for a string.
QueriesAgree ==
  \A t \in Tables : \A q \in Queries[t] :
    /\ IsList(q)
    /\ \A j \in DOMAIN q : tables_indices[t][q[j]] = EngineType[TableDefs[t][q[j]]]

\* What is stored of a field's value
Stored(type, val) == IF type = "date" THEN toInt(val.year, val.month, val.day) ELSE val

\* Year, month and day in digits, with a '-' between them
IsDateText(text, date) ==
  /\ date = [year |-> date.year, month |-> date.month, day |-> date.day]
  /\ IsDate(date.year, date.month, date.day)
  /\ \E i, j \in 1 .. Len(text) :
       /\ i < j /\ text[i] = minus /\ text[j] = minus
       /\ \A k \in 1 .. Len(text) \ {i, j} : text[k] \in Digits
       /\ Decimal(text, 1, i) = date.year
       /\ Decimal(text, i + 1, j) = date.month
       /\ Decimal(text, j + 1, Len(text) + 1) = date.day

\* Digits, perhaps behind a '-'; of a double, in hundredths, also a point with one
\* or two digits behind it
IsNumberText(type, text, val) ==
  \E first \in {1, 2}, dot \in 1 .. Len(text) + 1 :
    LET whole == Decimal(text, first, dot)
        behind == Decimal(text, dot + 1, Len(text) + 1)
        hundredths == IF dot > Len(text) THEN 0 ELSE IF dot = Len(text) - 1 THEN 10 * behind ELSE behind
    IN
    /\ first < dot
    /\ first = 2 => text[1] = minus
    /\ \A k \in first .. Len(text) \ {dot} : text[k] \in Digits
    /\ dot <= Len(text) => type = "double" /\ text[dot] = point /\ dot \in Len(text) - 2 .. Len(text) - 1
    /\ val = (IF first = 2 THEN -1 ELSE 1) * (IF type = "double" THEN 100 * whole + hundredths ELSE whole)

\* A field has no delimiter in it, and only the last of a line, a string, may be empty.
IsField(t, c, field) ==
  LET type == TableDefs[t][c] IN
  /\ field.text \in Seq(Nat \ {delim, eol})
  /\ field.text = <<>> => c = Len(TableDefs[t]) /\ type = "string"
  /\ type \in {"int32", "int64", "double"} => IsNumberText(type, field.text, field.val)
  /\ type = "char" => field.text = <<field.val>>
  /\ type = "date" => IsDateText(field.text, field.val)
  /\ type = "string" => field.text = field.val

InputsAreTables ==
  \A t \in Tables : \A files \in Inputs[t] :
    /\ IsList(files)
    /\ \A f \in DOMAIN files :
         /\ IsList(files[f])
         /\ \A l \in DOMAIN files[f] :
              /\ IsList(files[f][l]) /\ DOMAIN files[f][l] = DOMAIN TableDefs[t]
              /\ \A c \in DOMAIN TableDefs[t] : IsField(t, c, files[f][l][c])

\* Of the LIKE expressions these mean what SQL means: a text and a '%' behind or before it.
IsLikePattern(pattern) ==
  /\ pattern \in Seq(Nat) /\ Len(pattern) > 1
  /\ \/ pattern[Len(pattern)] = ANY /\ \A i \in 1 .. Len(pattern) - 1 : pattern[i] # ANY
     \/ pattern[1] = ANY /\ \A i \in 2 .. Len(pattern) : pattern[i] # ANY

PredicatesAreMeant ==
  \A p \in Predicates :
    /\ p.k \in {"none", "year", "like", "eq", "lt"}
    /\ p.k = "like" => IsLikePattern(p.arg)
    /\ p.k \in {"eq", "lt"} => p.arg \in Seq(Nat)

-----------------------------------------------------------------------------
(* Properties *)

\* The selection as SQL means it, of a row of fields
Selected(fields) ==
  LET date == Tested("date")
      string == Tested("string")
  IN
  /\ pred.k = "year" /\ date # 0 => fields[cols[date]].val.year = pred.arg
  /\ pred.k = "like" /\ string # 0 => Like(fields[cols[string]].val, pred.arg)
  /\ pred.k = "eq" /\ string # 0 => fields[cols[string]].val = pred.arg
  /\ pred.k = "lt" /\ string # 0 => Precedes(fields[cols[string]].val, pred.arg)

Lines == FlattenSeq(input)

\* Of the first n lines, what the query asks of those it selects
MeantOf ==
  LET meant[n \in 0 .. Len(Lines)] ==
        IF n = 0 THEN <<>>
        ELSE IF Selected(Lines[n]) THEN Append(meant[n - 1], [j \in DOMAIN cols |-> Lines[n][cols[j]].val])
             ELSE meant[n - 1]
  IN meant

Meant == MeantOf[Len(Lines)]

\* The scan gives back the rows the files hold: each column's values in their
\* places whatever is read beside it, every date and number with its meaning,
\* and of the rows those that the predicate means, in their order.
RowsAsWritten ==
  /\ IsPrefix(out, Meant)
  /\ stage = "done" => out = Meant /\ rows = Len(Lines)

\* Reading, writing and scanning come to an end.
StorageEnds == <>(stage \in {"done", "aborted"})
=============================================================================
