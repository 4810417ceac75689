--------------------------------- MODULE Csv ---------------------------------
(***************************************************************************)
(* The reader of delimited text (data-generator/csv.hpp) and the parsers   *)
(* of the TPC-H types (data-generator/tpch.hpp, types.hpp).  A text is a   *)
(* sequence of bytes; a position is where the next byte is read, one       *)
(* behind the text at its limit.                                           *)
(***************************************************************************)
EXTENDS Dates, Sequences, SequencesExt

CONSTANT Width      \* bytes a vector instruction compares at once (32)

ASSUME WidthAssumption == Width \in Nat \ {0}

delim == 124   \* '|'
eol == 10
Digits == 48 .. 57
minus == 45
point == 46
space == 32

Limit(text) == Len(text) + 1
IsAt(text, i, bytes) == i < Limit(text) /\ text[i] \in bytes

\* The matches of a vector comparison with the block at i
Matches(text, i, bytes) == {j \in i .. i + Width - 1 : text[j] \in bytes}

Least(S) == CHOOSE j \in S : \A k \in S : j <= k

\* Faulty variant of find: the last block is left out.
findInBlocks(text, from, bytes) ==
  LET next[i \in 1 .. Limit(text)] ==
        IF i < Limit(text) - Width
        THEN IF Matches(text, i, bytes) # {} THEN Least(Matches(text, i, bytes)) ELSE next[i + Width]
        ELSE Limit(text)
  IN next[from]

\* find and find_either: blocks while a whole one is left, then single bytes
find(text, from, bytes) ==
  LET next[i \in 1 .. Limit(text)] ==
        IF i < Limit(text) - Width
        THEN IF Matches(text, i, bytes) # {} THEN Least(Matches(text, i, bytes)) ELSE next[i + Width]
        ELSE IF i = Limit(text) \/ IsAt(text, i, bytes) THEN i ELSE next[i + 1]
  IN next[from]

-----------------------------------------------------------------------------
(* Values.  A parser returns the value and the position behind it.          *)

\* The first position from i on, up to a limit, that holds none of the bytes
PastAll(text, i, to, bytes) ==
  LET next[j \in 1 .. Limit(text)] == IF j < to /\ text[j] \in bytes THEN next[j + 1] ELSE j IN next[i]

DigitsEnd(text, i) == PastAll(text, i, Limit(text), Digits)

Number(digits) == FoldLeft(LAMBDA v, c : 10 * v + c - 48, 0, digits)
Decimal(text, i, j) == Number(SubSeq(text, i, j - 1))

Sign(text, i) == IF IsAt(text, i, {minus}) THEN [factor |-> -1, at |-> i + 1] ELSE [factor |-> 1, at |-> i]

\* strtol
parse_int(text, i) ==
  LET s == Sign(text, i) IN
  [val |-> s.factor * Decimal(text, s.at, DigitsEnd(text, s.at)), end |-> DigitsEnd(text, s.at)]

\* strtod, of numbers with at most two digits behind the point: in hundredths
parse_double(text, i) ==
  LET s == Sign(text, i)
      whole == DigitsEnd(text, s.at)
      frac == IF IsAt(text, whole, {point}) THEN DigitsEnd(text, whole + 1) ELSE whole
      cents(n) == IF n <= 0 THEN 0
                  ELSE IF n = 1 THEN 10 * Decimal(text, whole + 1, frac) ELSE Decimal(text, whole + 1, frac)
  IN [val |-> s.factor * (100 * Decimal(text, s.at, whole) + cents(frac - whole - 1)), end |-> frac]

parse_char(text, i) == [val |-> text[i], end |-> i + 1]

parse_string(text, i) ==
  LET j == find(text, i, {delim, eol}) IN [val |-> SubSeq(text, i, j - 1), end |-> j]

\* The end of a text without the spaces before it
Trimmed(text, from, to) ==
  LET last[j \in from .. to] == IF j > from /\ text[j - 1] = space THEN last[j - 1] ELSE j IN last[to]

\* stringToType<date>: year, month and day, each up to what is no digit.  The
\* code throws where this returns InvalidDate.
InvalidDate == "invalid date format"
stringToDate(text, from, to) ==
  LET begin == PastAll(text, from, to, {space})
      end == Trimmed(text, begin, to)
      y == PastAll(text, begin, end, Digits)
      m == PastAll(text, y + 1, end, Digits)
      d == PastAll(text, m + 1, end, Digits)
      year == Decimal(text, begin, y)
      month == Decimal(text, y + 1, m)
      day == Decimal(text, m + 1, d)
  IN IF y < end /\ m < end /\ d = end /\ text[y] = minus /\ text[m] = minus /\ InRange(year, month, day)
     THEN toInt(year, month, day)
     ELSE InvalidDate

parse_date(text, i) ==
  LET j == find(text, i, {delim, eol}) IN [val |-> stringToDate(text, i, j), end |-> j]

parse_value(type, text, i) ==
  CASE type \in {"int32", "int64"} -> parse_int(text, i)
    [] type = "double" -> parse_double(text, i)
    [] type = "char" -> parse_char(text, i)
    [] type = "date" -> parse_date(text, i)
    [] type = "string" -> parse_string(text, i)

-----------------------------------------------------------------------------
(* The positions read_line visits when all columns are wanted, in order.    *)

\* The parser starts behind a delimiter.
FieldAt(text, i) == IF text[i] = delim THEN i + 1 ELSE i

\* It may stop at one.
Behind(text, i) == IF i < Limit(text) /\ text[i] # eol THEN i + 1 ELSE i

NextLine(text, i) ==
  LET j == IF i < Limit(text) /\ text[i] # eol THEN find(text, i, {eol}) ELSE i
  IN IF j # Limit(text) THEN j + 1 ELSE j
=============================================================================
