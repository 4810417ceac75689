--------------------------- MODULE GeneratedCode ---------------------------
(***************************************************************************)
(* A machine that runs the code of a scan pipeline, instruction by         *)
(* instruction, over the rows of a morsel and a hash table that an earlier *)
(* pipeline has built; beside it what the query means, row by row.         *)
(***************************************************************************)
EXTENDS Codegen, LateMaterialization, TLC

CONSTANTS Queries,      \* sequence of [ops, rows (set of rows), builds (set of sequences of tuples)]
          MaxRows,      \* bound: rows of the table
          HashOf(_),    \* the hash of a sequence of keys, 0 .. 3
          YearOf(_)     \* Date::extractYear, modelled in Dates

VARIABLES q, rows, build, lo,           \* the query, its data, the first row of the morsel
          code,                         \* the blocks the builder wrote for the query, as they are or after the pass
          expected,                     \* what the query means for these rows
          blk, pc, regs, out, status

input == <<q, rows, build, lo, code, expected>>
vars == <<input, blk, pc, regs, out, status>>

---------------------------------------------------------------------------
(* The hash table.  Entry e is the e-th tuple that was inserted; the link   *)
(* to it carries the tags of everything behind it, as JoinHashTable shows. *)

Tagged == 100                                   \* a tagged link to e is the word Tagged + e
KeyOf(e) == HashOf([j \in DOMAIN build[e].keys |-> build[e].keys[j]])
Behind(e) == {f \in 1 .. e : KeyOf(f) % 2 = KeyOf(e) % 2}
LinkTo(S) == IF S = {} THEN 0 ELSE Tagged + (CHOOSE e \in S : \A f \in S : f <= e)
Head0(h) == LinkTo({e \in DOMAIN build : KeyOf(e) % 2 = h % 2})
TagMiss(link, h) == h \div 2 \notin {KeyOf(f) \div 2 : f \in Behind(link - Tagged)}

---------------------------------------------------------------------------
(* Instructions *)

Here == code[blk]
Defined(args) == \A a \in ToSet(args) : a.reg = 0 \/ a.reg \in DOMAIN regs
Value(a) == IF a.reg = 0 THEN a.val ELSE regs[a.reg]

Result(i) ==
    LET x == Value(i.args[1])
        y == Value(i.args[2])
        t == i.args[1].t
    IN CASE i.op \in IntOps \cup {"fadd", "fsub", "fmul", "fdiv"} -> Arithmetic(i.op, t, x, y)
         [] i.op \in CmpOps -> Truth(Compares(i.op, t, x, y))
         [] i.op \in {"sext_or_trunc", "sitofp", "fptosi"} -> Converted(i.op, t, i.sym, x)
         [] i.op = "not" -> Wrap(t, -x - 1)
         [] i.op = "extractYear" -> YearOf(x)
         [] i.op = "string_eq" -> Truth(x = y)
         [] i.op = "column" -> rows[x + 1][i.sym]
         [] i.op = "hash" -> HashOf([j \in DOMAIN i.args |-> Value(i.args[j])])
         [] i.op = "lookup" -> Head0(x)
         [] i.op = "getptr" -> x % Tagged
         [] i.op = "tagmiss" -> Truth(TagMiss(x, y))
         [] i.op = "field" -> build[x].vals[i.sym]
         [] i.op = "next" -> LinkTo(Behind(x) \ {x})

\* Whether the machine can go on after instruction i.
Outcome(i) ==
    IF ~Defined(i.args) THEN "undefined"
    ELSE IF i.op \in {"field", "next"} /\ Value(i.args[1]) \notin DOMAIN build THEN "fault"
    ELSE IF i.op \in IntOps /\ Traps(i.op, i.args[1].t, Value(i.args[1]), Value(i.args[2])) THEN "trap"
    ELSE "run"

Execute ==
    /\ status = "run" /\ pc <= Len(Here.ins)
    /\ LET i == Here.ins[pc] IN
       /\ i.op # "print"
       /\ status' = Outcome(i)
       /\ regs' = IF Outcome(i) = "run" THEN (i.dst :> Result(i)) @@ regs ELSE regs
    /\ pc' = pc + 1
    /\ UNCHANGED <<input, blk, out>>

Output ==
    /\ status = "run" /\ pc <= Len(Here.ins)
    /\ LET i == Here.ins[pc] IN
       /\ i.op = "print"
       /\ status' = Outcome(i)
       /\ out' = IF Outcome(i) = "run" THEN Append(out, [j \in DOMAIN i.args |-> Value(i.args[j])]) ELSE out
    /\ pc' = pc + 1
    /\ UNCHANGED <<input, blk, regs>>

\* Goes to block `to`, whose phi, if it has one, takes the value for the edge that is used.
Jump ==
    /\ status = "run" /\ pc > Len(Here.ins)
    /\ LET term == Here.terms[1]
           to == IF Len(term.to) = 1 \/ Value(term.cond) = 1 THEN term.to[1] ELSE term.to[2]
           ins == code[to].ins
           isPhi == ins # <<>> /\ ins[1].op = "phi"
           arg == ins[1].args[CHOOSE n \in DOMAIN ins[1].from : ins[1].from[n] = blk]
       IN /\ term.to # <<>>
          /\ blk' = to
          /\ pc' = IF isPhi THEN 2 ELSE 1
          /\ status' = IF isPhi /\ (blk \notin ToSet(ins[1].from) \/ ~Defined(<<arg>>)) THEN "undefined" ELSE "run"
          /\ regs' = IF isPhi /\ status' = "run" THEN (ins[1].dst :> Value(arg)) @@ regs ELSE regs
    /\ UNCHANGED <<input, out>>

Return ==
    /\ status = "run" /\ pc > Len(Here.ins) /\ Here.terms[1].to = <<>>
    /\ status' = "returned"
    /\ UNCHANGED <<input, blk, pc, regs, out>>

Stopped == status # "run" /\ UNCHANGED vars

---------------------------------------------------------------------------
(* What a query means: numbers instead of bits, sequences instead of loops. *)

Number(t, n) == IF t \in {"Integer", "BigInt", "Char"} THEN Signed(LLVMType[t], n) ELSE n
Into(t, n) == IF t \in {"Integer", "BigInt", "Char"} THEN Signed(LLVMType[t], Wrap(LLVMType[t], n))
              ELSE IF t = "Date" THEN Wrap("i32", n) ELSE n
Convert(from, to, n) == IF to = "Double" /\ from # "Double" THEN n * Unit ELSE Into(to, n)

\* The type of more values; between types of as many values, the left operand's.
Width(t) == IF t = "Double" THEN 1000 ELSE IF t = "String" THEN 0 ELSE Bits[LLVMType[t]]
Wider(l, r) == IF Width(r) > Width(l) THEN r ELSE l

RECURSIVE MeansType(_)
MeansType(e) ==
    CASE e.k \in {"const", "iu", "case"} -> e.t
      [] e.k \in {"NOT", "EXTRACT_YEAR"} -> MeansType(e.e)
      [] e.k = "bin" -> IF e.op \in Comparisons \cup ShortCircuit THEN "Bool"
                        ELSE Wider(MeansType(e.l), MeansType(e.r))

Apply(op, t, x, y) ==
    CASE op = "Add" -> Into(t, x + y)
      [] op = "Sub" -> Into(t, x - y)
      [] op = "Mul" -> IF t = "Double" THEN Quotient(x * y, Unit) ELSE Into(t, x * y)
      [] op = "Div" -> IF t = "Double" THEN Quotient(x * Unit, y) ELSE Quotient(x, y)
      [] op = "CMPEQ" -> Truth(x = y)
      [] op = "CMPNE" -> Truth(x # y)
      [] op = "CMPLE" -> Truth(x <= y)
      [] op = "CMPGE" -> Truth(x >= y)
      [] op = "CMPLT" -> Truth(x < y)
      [] op = "CMPGT" -> Truth(x > y)

Stop == [ok |-> FALSE, v |-> 0]
Is(v) == [ok |-> TRUE, v |-> v]

RECURSIVE Means(_, _)
MeansBin(e, env) ==
    LET l == Means(e.l, env)
        r == Means(e.r, env)
        t == Wider(MeansType(e.l), MeansType(e.r))
        x == Convert(MeansType(e.l), t, l.v)
        y == Convert(MeansType(e.r), t, r.v)
    IN IF ~l.ok THEN Stop
       ELSE IF e.op \in ShortCircuit /\ l.v = Truth(e.op = "Or") THEN l
       ELSE IF ~r.ok \/ (e.op = "Div" /\ (y = 0 \/ (t # "Double" /\ Into(t, Quotient(x, y)) # Quotient(x, y)))) THEN Stop
       ELSE IF e.op \in ShortCircuit THEN r
       ELSE Is(Apply(e.op, t, x, y))
MeansCase(e, env) ==
    LET tries == {i \in DOMAIN e.conds : Means(e.conds[i], env) # Is(0)}
        first == CHOOSE i \in tries : \A j \in tries : i <= j
        e1 == IF tries = {} THEN e.else ELSE e.thens[first]
        v == Means(e1, env)
    IN IF (tries # {} /\ ~Means(e.conds[first], env).ok) \/ ~v.ok THEN Stop
       ELSE Is(Convert(MeansType(e1), e.t, v.v))
Means(e, env) ==
    CASE e.k = "const" -> Is(Number(e.t, e.v))
      [] e.k = "iu" -> Is(env[e.iu])
      [] e.k = "NOT" -> LET c == Means(e.e, env) IN IF c.ok THEN Is(1 - c.v) ELSE Stop
      [] e.k = "EXTRACT_YEAR" -> LET c == Means(e.e, env) IN IF c.ok THEN Is(YearOf(c.v)) ELSE Stop
      [] e.k = "case" -> MeansCase(e, env)
      [] OTHER -> MeansBin(e, env)

\* The rows operators i, i + 1, ... make of each of a sequence of rows, until an evaluation fails.
RECURSIVE RowsOf(_, _, _)
With(env, ius, vals) == [n \in DOMAIN env \cup {iu.n : iu \in ToSet(ius)} |->
    IF \E iu \in ToSet(ius) : iu.n = n
    THEN LET iu == CHOOSE iu \in ToSet(ius) : iu.n = n IN Number(iu.t, vals[n]) ELSE env[n]]
RowsOfOne(ops, i, env) ==
    LET op == ops[i]
        val == Means(CASE op.k = "selection" -> op.pred [] op.k = "map" -> op.map, env)
        matches == SelectSeq([e \in 1 .. Len(build) |-> Len(build) + 1 - e],
                       LAMBDA e : \A j \in DOMAIN op.leftKeys :
                           Number(op.leftKeys[j].t, build[e].vals[op.leftKeys[j].n]) = env[op.rightKeys[j].n])
        pairs == [j \in DOMAIN matches |-> With(env, op.leftKeys \o op.payload, build[matches[j]].vals)]
        rest == IF op.cond = <<>> THEN ops ELSE [ops EXCEPT ![i] = [k |-> "selection", pred |-> op.cond[1]]]
    IN CASE op.k = "sink" -> [ok |-> TRUE, v |-> <<[j \in DOMAIN op.ius |-> env[op.ius[j].n]]>>]
         [] op.k = "probe" -> RowsOf(rest, IF op.cond = <<>> THEN i + 1 ELSE i, pairs)
         [] ~val.ok -> [ok |-> FALSE, v |-> <<>>]
         [] op.k = "selection" -> IF val.v = 1 THEN RowsOf(ops, i + 1, <<env>>) ELSE [ok |-> TRUE, v |-> <<>>]
         [] op.k = "map" -> RowsOf(ops, i + 1, <<[n \in DOMAIN env \cup {op.iu.n} |-> IF n = op.iu.n THEN val.v ELSE env[n]]>>)
RowsOf(ops, i, envs) ==
    FoldLeft(LAMBDA acc, env : IF ~acc.ok THEN acc
                               ELSE LET r == RowsOfOne(ops, i, env) IN [ok |-> r.ok, v |-> acc.v \o r.v],
             [ok |-> TRUE, v |-> <<>>], envs)

Ops == Queries[q].ops
Meaning == RowsOf(Ops, 2, [j \in 1 .. Len(rows) - lo |-> With(<<>>, Ops[1].ius, rows[lo + j])])
Printed == [j \in DOMAIN out |-> [n \in DOMAIN out[j] |-> Number(Last(Ops).ius[n].t, out[j][n])]]

---------------------------------------------------------------------------
(* The specification *)

Init ==
    /\ q \in DOMAIN Queries
    /\ code \in {produce(Ops), runPass(produce(Ops))}
    /\ rows \in UNION {[1 .. n -> Queries[q].rows] : n \in 0 .. MaxRows}
    /\ build \in Queries[q].builds
    /\ lo \in 0 .. Len(rows)
    /\ expected = Meaning
    /\ blk = 1 /\ pc = 1 /\ out = <<>> /\ status = "run"
    /\ regs = (BeginArg.reg :> lo) @@ (EndArg.reg :> Len(rows))

Next == Execute \/ Output \/ Jump \/ Return \/ Stopped

\* The thread that called the function runs.
Spec == Init /\ [][Next]_vars /\ WF_vars(Execute \/ Output \/ Jump \/ Return)

---------------------------------------------------------------------------
(* Properties *)

\* The code prints the rows the query means, in their order, and a trap is one the query means,
\* after the rows in front of it: conditions guard what they are meant to guard.
PrintsWhatTheQueryMeans ==
    /\ IsPrefix(Printed, expected.v)
    /\ status = "returned" => expected.ok /\ Printed = expected.v
    /\ status = "trap" => ~expected.ok /\ Printed = expected.v

\* No instruction reads a register that is not set on the path taken or a phi without a value
\* for that path, and no link is followed with its tag still in place.
NoWildReads == status \notin {"undefined", "fault"}

\* The verifier's rules: every reachable block ends in one terminator, a phi has a value for
\* each edge into its block and for no other, and the operands of an instruction have one type.
WellFormed == blk = 1 /\ pc = 1 => Terminated(code) /\ PhisMatch(code) /\ OperandsAgree(code)

\* Every call of the function comes back.
CodeReturns == <>(status # "run")
=============================================================================
