------------------------------ MODULE Codegen ------------------------------
(***************************************************************************)
(* How expressions and operators become code: typing and casts             *)
(* (checkSemantics), evaluation (createEval), and the loops and branches   *)
(* that scans, selections, maps and join probes wrap around their          *)
(* consumers.  Expressions are records with a kind k, pipelines sequences  *)
(* of operators from the scan to the sink.                                 *)
(***************************************************************************)
EXTENDS IR

LLVMType == [Integer |-> "i32", BigInt |-> "i64", Double |-> "double", Char |-> "i8",
             Bool |-> "i1", String |-> "ptr", Date |-> "i32"]

decayTypes == [Integer |-> 2, Double |-> 4, Char |-> 1, String |-> 0, BigInt |-> 3, Bool |-> 1, Date |-> 2]

checkPrecedence(t1, t2) == decayTypes[t1] < decayTypes[t2]

---------------------------------------------------------------------------
(* Expressions.  CONST, IU, BIN and so on build the trees that              *)
(* makeCallExp builds in the program.                                      *)

ConstExp(t, v) == [k |-> "const", t |-> t, v |-> v]
IUExp(t, iu) == [k |-> "iu", t |-> t, iu |-> iu]
CastExp(from, to, e) == [k |-> "cast", from |-> from, to |-> to, e |-> e]
UnaryExp(op, e) == [k |-> op, e |-> e]
BinOpExp(op, l, r) == [k |-> "bin", op |-> op, l |-> l, r |-> r]
CaseExp(conds, thens, else, t) == [k |-> "case", conds |-> conds, thens |-> thens, else |-> else, t |-> t]

TypePreserving == {"Add", "Sub", "Mul", "Div"}
ShortCircuit == {"And", "Or"}
Comparisons == {"CMPEQ", "CMPNE", "CMPLE", "CMPGE", "CMPLT", "CMPGT"}

\* The type getType reports, of a tree that was checked.
RECURSIVE TypeOf(_)
TypeOf(e) ==
    CASE e.k \in {"const", "iu", "case"} -> e.t
      [] e.k = "cast" -> e.to
      [] e.k \in {"NOT", "EXTRACT_YEAR"} -> TypeOf(e.e)
      [] e.k = "bin" -> IF e.op \in Comparisons THEN "Bool" ELSE TypeOf(e.l)

CastUp(e, t) == IF checkPrecedence(TypeOf(e), t) THEN CastExp(TypeOf(e), t, e) ELSE e

\* The weaker side is cast to the stronger one's type; on a tie the right side gives way.
Promote(op, l, r) ==
    IF TypeOf(l) = TypeOf(r) THEN BinOpExp(op, l, r)
    ELSE IF checkPrecedence(TypeOf(l), TypeOf(r)) THEN BinOpExp(op, CastExp(TypeOf(l), TypeOf(r), l), r)
    ELSE BinOpExp(op, l, CastExp(TypeOf(r), TypeOf(l), r))

RECURSIVE checkSemantics(_)
CheckCase(e) == [e EXCEPT !.thens = [i \in DOMAIN @ |-> CastUp(checkSemantics(@[i]), e.t)],
                          !.else = CastUp(checkSemantics(@), e.t)]
checkSemantics(e) ==
    CASE e.k = "bin" -> Promote(e.op, checkSemantics(e.l), checkSemantics(e.r))
      [] e.k = "case" -> CheckCase(e)
      [] e.k \in {"NOT", "EXTRACT_YEAR"} -> [e EXCEPT !.e = checkSemantics(@)]
      [] OTHER -> e

\* The instruction an operator of a type becomes.
SignedOp == [Add |-> "add", Sub |-> "sub", Mul |-> "mul", Div |-> "sdiv", CMPEQ |-> "eq", CMPNE |-> "ne",
             CMPLE |-> "sle", CMPGE |-> "sge", CMPLT |-> "slt", CMPGT |-> "sgt"]
UnsignedOp == [SignedOp EXCEPT !.Div = "udiv", !.CMPLE = "ule", !.CMPGE = "uge", !.CMPLT = "ult", !.CMPGT = "ugt"]
FloatingOp == [Add |-> "fadd", Sub |-> "fsub", Mul |-> "fmul", Div |-> "fdiv", CMPEQ |-> "oeq", CMPNE |-> "one",
               CMPLE |-> "ole", CMPGE |-> "oge", CMPLT |-> "olt", CMPGT |-> "ogt"]
StringOp == [CMPEQ |-> "string_eq"]
Instruction(t, op) ==
    CASE t = "Double" -> FloatingOp[op]
      [] t = "Date" -> UnsignedOp[op]
      [] t = "String" -> StringOp[op]
      [] OTHER -> SignedOp[op]

createBinOp(b, t, op, l, r) ==
    Put(b, Instruction(t, op), IF op \in Comparisons THEN "i1" ELSE LLVMType[t], <<l, r>>)

\* Faulty variant of createCast: an integer becomes a double by its bits.
createCastBits(b, from, to, v) == [b |-> b, v |-> [v EXCEPT !.t = LLVMType[to]]]

createCast(b, from, to, v) ==
    CASE from = "String" -> [b |-> b, v |-> v]
      [] from = "Double" -> IF to = "Integer" THEN PutSym(b, "fptosi", "i32", <<v>>, "i32") ELSE [b |-> b, v |-> v]
      [] OTHER -> PutSym(b, IF to = "Double" THEN "sitofp" ELSE "sext_or_trunc", LLVMType[to], <<v>>, LLVMType[to])

\* Values of IUs, by their names.  Of an IU without one the code gets a null pointer,
\* which stands for a register that no instruction sets.
updateValue(b, iu, v) == [b EXCEPT !.vals = [x \in DOMAIN @ \cup {iu.n} |-> IF x = iu.n THEN v ELSE @[x]]]
Null == Reg("ptr", -1)
lookupValue(b, n) == IF n \in DOMAIN b.vals THEN b.vals[n] ELSE Null

RECURSIVE createEval(_, _)

\* Faulty variant of MergeShortCircuit: the right operand's edge is named after the block it began in.
MergeShortCircuitStale(op, l, rhs, r, merge) ==
    Phi(At(CondBr(At(Br(NewBlock(r.b), merge), l.b.cur), l.v, IF op = "And" THEN rhs ELSE merge,
                                                              IF op = "And" THEN merge ELSE rhs), merge),
        l.v.t, <<l.v, r.v>>, <<l.b.cur, rhs>>)

\* The right operand is in a block that runs only if the left one leaves the result open.
MergeShortCircuit(op, l, rhs, r, merge) ==
    Phi(At(CondBr(At(Br(NewBlock(r.b), merge), l.b.cur), l.v, IF op = "And" THEN rhs ELSE merge,
                                                              IF op = "And" THEN merge ELSE rhs), merge),
        l.v.t, <<l.v, r.v>>, <<l.b.cur, r.b.cur>>)
EvalShortCircuit(e, b) ==
    LET merge(l, r) == MergeShortCircuit(e.op, l, Newest(l.b) + 1, r, Newest(r.b) + 1)
        right(l) == merge(l, createEval(e.r, AtNew(l.b)))
    IN right(createEval(e.l, b))

\* One WHEN of a CASE: a block for the condition, one for the value.
EvalWhen(e, s, i) ==
    LET linked(cond) == SetSuccessor(NewBlock(cond.b), s.branch, 0, Newest(s.b) + 1)
        chosen(cond, body, value) ==
            [b |-> Br(value.b, body), branch |-> cond.b.cur,
             vals |-> Append(s.vals, value.v), from |-> Append(s.from, body)]
        value(cond, body) ==
            chosen(cond, body, createEval(e.thens[i], At(CondBr(linked(cond), cond.v, body, NoBlock), body)))
        when(cond) == value(cond, Newest(cond.b) + 1)
    IN when(createEval(e.conds[i], AtNew(s.b)))

EvalCase(e, b) ==
    LET start == [b |-> Br(b, b.cur), branch |-> b.cur, vals |-> <<>>, from |-> <<>>]
        leave(phi, from, merge) ==
            [phi EXCEPT !.b = FoldLeft(LAMBDA acc, k : SetSuccessor(acc, k, 1, merge), @, from)]
        join(vals, from, else, false, merge) ==
            leave(Phi(At(Br(NewBlock(else.b), false), merge), else.v.t, Append(vals, else.v), from), from, merge)
        merge(s, else, false) == join(s.vals, Append(s.from, false), else, false, Newest(else.b) + 1)
        otherwise(s, false) ==
            merge(s, createEval(e.else, At(SetSuccessor(NewBlock(s.b), s.branch, 0, false), false)), false)
        whens(s) == otherwise(s, Newest(s.b) + 1)
    IN whens(FoldLeft(LAMBDA acc, i : EvalWhen(e, acc, i), start, [i \in DOMAIN e.conds |-> i]))

EvalUnary(e, c) ==
    CASE e.k = "cast" -> createCast(c.b, e.from, e.to, c.v)
      [] e.k = "NOT" -> Put(c.b, "not", c.v.t, <<c.v>>)
      [] e.k = "EXTRACT_YEAR" -> Put(c.b, "extractYear", "i32", <<c.v>>)

EvalBinOp(e, l) ==
    LET both(r) == createBinOp(r.b, TypeOf(e.l), e.op, l.v, r.v) IN both(createEval(e.r, l.b))

createEval(e, b) ==
    CASE e.k = "const" -> [b |-> b, v |-> Const(LLVMType[e.t], e.v)]
      [] e.k = "iu" -> [b |-> b, v |-> lookupValue(b, e.iu)]
      [] e.k \in {"cast", "NOT", "EXTRACT_YEAR"} -> EvalUnary(e, createEval(e.e, b))
      [] e.k = "case" -> EvalCase(e, b)
      [] e.k = "bin" /\ e.op \in ShortCircuit -> EvalShortCircuit(e, b)
      [] OTHER -> EvalBinOp(e, createEval(e.l, b))

compile(e, b) == createEval(checkSemantics(e), b)

---------------------------------------------------------------------------
(* Operators.  An IU is [n |-> name, t |-> type].                          *)

\* The IUs whose values createEval looks up, as the expression tells them: of a CASE
\* only its first condition and value and the value behind ELSE.
RECURSIVE getIUs(_)
getIUs(e) ==
    CASE e.k = "const" -> {}
      [] e.k = "iu" -> {e.iu}
      [] e.k \in {"cast", "NOT", "EXTRACT_YEAR"} -> getIUs(e.e)
      [] e.k = "case" -> getIUs(e.conds[1]) \cup getIUs(e.thens[1]) \cup getIUs(e.else)
      [] e.k = "bin" -> getIUs(e.l) \cup getIUs(e.r)

Names(ius) == {iu.n : iu \in ToSet(ius)}
condIUs(op) == UNION {getIUs(c) : c \in ToSet(op.cond)}

\* What the operators up to the ith can give, and what the ith asks of the ones below.
RECURSIVE availableIUs(_, _)
availableIUs(ops, i) ==
    CASE ops[i].k = "scan" -> Names(ops[i].ius)
      [] ops[i].k = "map" -> availableIUs(ops, i - 1) \cup {ops[i].iu.n}
      [] ops[i].k = "probe" -> availableIUs(ops, i - 1) \cup Names(ops[i].leftKeys) \cup Names(ops[i].payload)
      [] OTHER -> availableIUs(ops, i - 1)

RECURSIVE required(_, _)
required(ops, i) ==
    CASE ops[i].k = "sink" -> Names(ops[i].ius)
      [] ops[i].k = "selection" -> required(ops, i + 1) \cup getIUs(ops[i].pred)
      [] ops[i].k = "map" -> (required(ops, i + 1) \cup getIUs(ops[i].map)) \ {ops[i].iu.n}
      [] ops[i].k = "probe" ->
           ((required(ops, i + 1) \cup condIUs(ops[i])) \cap availableIUs(ops, i - 1)) \cup Names(ops[i].rightKeys)

OnlyOf(ius, names) == SelectSeq(ius, LAMBDA iu : iu.n \in names)
leftPayloadIUs(ops, i) == OnlyOf(ops[i].payload, required(ops, i + 1) \cup condIUs(ops[i]))

\* Loads of the IUs ius, in order, from what ptr points to (column, field of a tuple).
LoadIUs(b, op, ptr, ius) ==
    LET loaded(iu, l) == updateValue(l.b, iu, l.v)
    IN FoldLeft(LAMBDA acc, iu : loaded(iu, PutSym(acc, op, LLVMType[iu.t], <<ptr>>, iu.n)), b, ius)

createColumnAccess(b, row, ius) == LoadIUs(b, "column", row, ius)
createUnpackTuple(b, ptr, ius) == LoadIUs(b, "field", ptr, ius)

\* One comparison per key; the way on is the block of the last one. Returns the open branches.
createCmpKeys(b, left, right, types) ==
    LET goOn(acc, c, go) ==
            [b |-> At(CondBr(NewBlock(c.b), c.v, go, NoBlock), go), open |-> Append(acc.open, c.b.cur)]
        compared(acc, c) == goOn(acc, c, Newest(c.b) + 1)
    IN FoldLeft(LAMBDA acc, i : compared(acc, createBinOp(acc.b, types[i], "CMPEQ", left[i], right[i])),
                [b |-> b, open |-> <<>>], [i \in DOMAIN left |-> i])

createEndCmpKeys(b, open) ==
    FoldLeft(LAMBDA acc, k : SetSuccessor(acc, k, 2, Newest(acc)), NewBlock(b), open)

\* If the tag does not fit, MissingBranch leaves the loop from the block this one ends.
createCmpTag(b, ptr, hash) == AtNew(Put(b, "tagmiss", "i1", <<ptr, hash>>).b)

RECURSIVE consume(_, _, _)

consumeSelection(ops, i, b) ==
    LET leave(pred, used, body, cnt) ==
            At(CondBr(At(Br(NewBlock(used), cnt), pred.b.cur), pred.v, body, cnt), cnt)
        select(pred, used) == leave(pred, used, Newest(pred.b) + 1, Newest(used) + 1)
        filter(pred) == select(pred, consume(ops, i + 1, AtNew(pred.b)))
    IN filter(compile(ops[i].pred, b))

consumeMap(ops, i, b) ==
    LET same(val) == createCast(val.b, ops[i].iu.t, ops[i].iu.t, val.v)
        bind(val) == consume(ops, i + 1, updateValue(val.b, ops[i].iu, val.v))
    IN bind(same(compile(ops[i].map, b)))

\* What follows a match of all keys: the residual condition, if there is one.
consumeMatch(ops, i, b) ==
    LET filter(val, yes, cnt) ==
            At(Br(consume(ops, i + 1, At(CondBr(NewBlock(NewBlock(val.b)), val.v, yes, cnt), yes)), cnt), cnt)
        residual(val) == filter(val, Newest(val.b) + 1, Newest(val.b) + 2)
    IN IF ops[i].cond = <<>> THEN consume(ops, i + 1, b) ELSE residual(compile(ops[i].cond[1], b))

\* The body of the loop over a bucket: entry is the pointer without its tag, tagged the block of the test.
consumeEntry(ops, i, right, entry, tagged) ==
    LET op == ops[i]
        leave(b) == EndForwardIter(At(Br(b, Newest(b)), Newest(b)), TRUE)
        miss(done) == MissingBranch(done, entry.b.cur, done.cur, tagged.cur)
        match(cmp) == createEndCmpKeys(consumeMatch(ops, i, createUnpackTuple(cmp.b, entry.v, leftPayloadIUs(ops, i))), cmp.open)
        compare(keys) == createCmpKeys(keys, [j \in DOMAIN right |-> lookupValue(keys, op.leftKeys[j].n)],
                                       [j \in DOMAIN right |-> lookupValue(keys, op.rightKeys[j].n)],
                                       [j \in DOMAIN right |-> op.leftKeys[j].t])
    IN miss(leave(match(compare(createUnpackTuple(tagged, entry.v, op.leftKeys)))))

consumeProbe(ops, i, b) ==
    LET right == [j \in DOMAIN ops[i].rightKeys |-> lookupValue(b, ops[i].rightKeys[j].n)]
        entry(link, hash, ptr) == consumeEntry(ops, i, right, ptr, createCmpTag(ptr.b, link, hash))
        body(hash, loop) == entry(loop.v, hash, Put(loop.b, "getptr", "ptr", <<loop.v>>))
        chain(hash, bucket) == body(hash, BeginForwardIter(bucket.b, bucket.v))
        probe(hash) == chain(hash.v, Put(hash.b, "lookup", "ptr", <<hash.v>>))
    IN probe(Put(b, "hash", "i64", right))

consumeSink(ops, i, b) == Put(b, "print", "void", [j \in DOMAIN ops[i].ius |-> lookupValue(b, ops[i].ius[j].n)]).b

consume(ops, i, b) ==
    CASE ops[i].k = "selection" -> consumeSelection(ops, i, b)
      [] ops[i].k = "map" -> consumeMap(ops, i, b)
      [] ops[i].k = "probe" -> consumeProbe(ops, i, b)
      [] ops[i].k = "sink" -> consumeSink(ops, i, b)

\* A scan pipeline: the loop over its rows around the code of the operators behind the scan.
produce(ops) ==
    LET body(loop) == consume(ops, 2, createColumnAccess(loop.b, loop.v, OnlyOf(ops[1].ius, required(ops, 2))))
    IN RetVoid(EndIndexIter(body(BeginIndexIter(NewPipeline, BeginArg, EndArg)), 1)).blocks
=============================================================================
