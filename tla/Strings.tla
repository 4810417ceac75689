------------------------------- MODULE Strings -------------------------------
(***************************************************************************)
(* String values and the predicates on them that generated code calls      *)
(* (lib/runtime/Runtime.cc), and the LIKE expression that chooses among    *)
(* them (include/IR/Expression.h).                                         *)
(*                                                                         *)
(* A StringView is a pointer and a length: data is what memory holds from  *)
(* the pointer on, the bytes after the string included.  A pattern and a   *)
(* text are sequences of bytes; ANY is the byte of '%'.                    *)
(***************************************************************************)
EXTENDS Integers, Sequences

ANY == 37

StringView(text, rest) == [data |-> text \o rest, length |-> Len(text)]

\* std::string_view(s->data, n): whatever memory holds there
View(s, n) == SubSeq(s.data, 1, n)

Text(s) == View(s, s.length)

\* operator< of std::string_view
Precedes(a, b) ==
  \E i \in 1 .. Len(b) :
    /\ i <= Len(a) + 1
    /\ SubSeq(a, 1, i - 1) = SubSeq(b, 1, i - 1)
    /\ i <= Len(a) => a[i] < b[i]

string_eq(s1, s2) ==
  s1.length = s2.length /\ View(s1, s1.length) = View(s2, s1.length)

string_lt(s1, s2) == Precedes(Text(s1), Text(s2))

\* The first view is as long as the second string.
string_gt(s1, s2) == Precedes(Text(s2), View(s1, s2.length))

Includes(text, part) ==
  \E i \in 0 .. Len(text) - Len(part) : SubSeq(text, i + 1, i + Len(part)) = part

like_prefix(s, pattern, len) ==
  len <= s.length /\ View(s, len) = SubSeq(pattern, 1, len)

like_suffix(s, pattern, len) ==
  len <= s.length /\ SubSeq(Text(s), s.length - len + 1, s.length) = SubSeq(pattern, 1, len)

\* find(pattern, 0, len - 1): all but the last byte of the pattern.  Of the empty
\* pattern it is 2^64 - 1 bytes, and no text is that long.
like(s, pattern, len) ==
  len > 0 /\ Includes(Text(s), SubSeq(pattern, 1, len - 1))

Unsupported == "Unsupported like-Expression"

\* LikeExp::createEval: which function is called, with which constant and which
\* length.  A pattern of one '%' both begins and ends with it, so its length is
\* -1, which no text is as long as.
LikeExp(s, pattern) ==
  LET begins == Len(pattern) > 0 /\ pattern[1] = ANY
      ends == Len(pattern) > 0 /\ pattern[Len(pattern)] = ANY
      first == IF begins THEN 2 ELSE 1
      constant == SubSeq(pattern, first, Len(pattern))
      len == Len(pattern) - (IF begins THEN 1 ELSE 0) - (IF ends THEN 1 ELSE 0)
  IN CASE begins /\ ends -> like(s, constant, len)
       [] ends /\ ~begins -> like_prefix(s, constant, len)
       [] begins /\ ~ends -> like_suffix(s, constant, len)
       [] OTHER -> Unsupported

-----------------------------------------------------------------------------
(* LIKE as SQL means it: '%' stands for any text, every other byte for      *)
(* itself.                                                                  *)

\* Where the text may be cut so that what is left of it matches the pattern from j on
Like(text, pattern) ==
  LET match[j \in 1 .. Len(pattern) + 1] ==
        IF j > Len(pattern) THEN {Len(text) + 1}
        ELSE IF pattern[j] = ANY
             THEN {i \in 1 .. Len(text) + 1 : \E k \in match[j + 1] : i <= k}
             ELSE {i \in 1 .. Len(text) : text[i] = pattern[j] /\ i + 1 \in match[j + 1]}
  IN 1 \in match[1]
=============================================================================
