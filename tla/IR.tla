--------------------------------- MODULE IR ---------------------------------
(***************************************************************************)
(* Functions of the intermediate representation while the query builder    *)
(* writes them, and what an instruction computes.  A builder is a record:  *)
(* the basic blocks written so far, the block that is appended to, the     *)
(* last register, the open loops, and the value of each IU in scope.       *)
(* Operators that append code and also yield a value return both, as       *)
(* [b |-> builder, v |-> value].                                           *)
(***************************************************************************)
EXTENDS Integers, Sequences, SequencesExt

CONSTANTS Bits,   \* width of each integer type
          Unit    \* doubles are the multiples of 1 / Unit, kept as integers

ASSUME BitsAssumption == Bits \in [{"i1", "i8", "i32", "i64"} -> Nat \ {0}] /\ Bits["i1"] = 1
ASSUME UnitAssumption == Unit \in Nat \ {0}

NoBlock == 0                                  \* nullptr, a successor still open
EmptyBlock == [ins |-> <<>>, terms |-> <<>>]

Const(t, v) == [t |-> t, reg |-> 0, val |-> v]
Reg(t, n) == [t |-> t, reg |-> n, val |-> 0]

\* The arguments of a scan pipeline: the rows begin .. end - 1 are its share.
BeginArg == Reg("i64", 1)
EndArg == Reg("i64", 2)

\* A new function with its entry block and an empty scope.
NewPipeline == [blocks |-> <<EmptyBlock>>, cur |-> 1, last |-> 2, loops |-> <<>>, vals |-> <<>>]

NewBlock(b) == [b EXCEPT !.blocks = Append(@, EmptyBlock)]
Newest(b) == Len(b.blocks)
At(b, k) == [b EXCEPT !.cur = k]
AtNew(b) == At(NewBlock(b), Newest(b) + 1)

Emit(b, op, t, args, sym, from) ==
    [b |-> [b EXCEPT !.last = @ + 1,
                     !.blocks[b.cur].ins =
                        Append(@, [op |-> op, dst |-> b.last + 1, t |-> t, args |-> args,
                                   sym |-> sym, from |-> from])],
     v |-> Reg(t, b.last + 1)]
Put(b, op, t, args) == Emit(b, op, t, args, "", <<>>)
PutSym(b, op, t, args, sym) == Emit(b, op, t, args, sym, <<>>)
Phi(b, t, args, from) == Emit(b, "phi", t, args, "", from)

Terminate(b, cond, to) ==
    [b EXCEPT !.blocks[b.cur].terms = Append(@, [cond |-> cond, to |-> to])]
Br(b, to) == Terminate(b, Const("i1", 1), <<to>>)
CondBr(b, cond, ifTrue, ifFalse) == Terminate(b, cond, <<ifTrue, ifFalse>>)
RetVoid(b) == Terminate(b, Const("i1", 1), <<>>)

\* Redirects successor i of the last branch of block k; 0 stands for its last successor.
SetSuccessor(b, k, i, to) ==
    LET n == Len(b.blocks[k].terms)
        j == IF i = 0 THEN Len(b.blocks[k].terms[n].to) ELSE i
    IN [b EXCEPT !.blocks[k].terms[n].to[j] = to]

\* One more incoming edge of the phi of register v.reg, which is the first instruction of block k.
AddIncoming(b, k, v, arg, from) ==
    [b EXCEPT !.blocks[k].ins[1].args = Append(@, arg), !.blocks[k].ins[1].from = Append(@, from)]

---------------------------------------------------------------------------
(* Loops *)

\* What both kinds of loop begin with: a header with the loop variable and the test.
EnterBody(iter, begin, cmp) ==
    [b |-> [At(CondBr(cmp.b, cmp.v, begin + 1, NoBlock), begin + 1) EXCEPT
              !.loops = Append(@, [begin |-> begin, iter |-> iter.v])],
     v |-> iter.v]
TestLoop(iter, begin, op, bound) == EnterBody(iter, begin, Put(iter.b, op, "i1", <<iter.v, bound>>))
LoopHeader(b, begin, first, t, op, bound) ==
    TestLoop(Phi(At(Br(NewBlock(NewBlock(b)), begin), begin), t, <<first>>, <<b.cur>>), begin, op, bound)
BeginLoop(b, first, t, op, bound) == LoopHeader(b, Newest(b) + 1, first, t, op, bound)

\* What both end with: the next value, the jump back, and a block to go on in.
LeaveLoop(b, begin, cnt) == [At(SetSuccessor(b, begin, 2, cnt), cnt) EXCEPT !.loops = Front(@)]
JumpBack(b, loop, next) ==
    LeaveLoop(NewBlock(AddIncoming(Br(b, loop.begin), loop.begin, loop.iter, next, b.cur)), loop.begin, Newest(b) + 1)
EndLoop(next) == JumpBack(next.b, Last(next.b.loops), next.v)

BeginIndexIter(b, start, end) == BeginLoop(b, start, "i64", "ult", end)

\* Faulty variant of EndIndexIter: the loop variable is not advanced.
EndIndexIterStuck(b, diff) == EndLoop(Put(b, "add", "i64", <<Last(b.loops).iter, Const("i64", 0)>>))

EndIndexIter(b, diff) == EndLoop(Put(b, "add", "i64", <<Last(b.loops).iter, Const("i64", diff)>>))

BeginForwardIter(b, ptr) == BeginLoop(b, ptr, "ptr", "ne", Const("ptr", 0))

\* tagged: the links carry tags, which are shifted out before a link is followed.
EndForwardIter(b, tagged) ==
    LET iter == Last(b.loops).iter
        follow(ptr) == Put(ptr.b, "next", "ptr", <<ptr.v>>)
    IN EndLoop(follow(IF tagged THEN Put(b, "getptr", "ptr", <<iter>>) ELSE [b |-> b, v |-> iter]))

\* Ends block k with a branch on its last instruction and comes back.
MissingBranch(b, k, ifTrue, ifFalse) ==
    At(CondBr(At(b, k), Reg("i1", Last(b.blocks[k].ins).dst), ifTrue, ifFalse), b.cur)

---------------------------------------------------------------------------
(* Instructions, and the shape the verifier asks of a function *)

Wrap(t, n) == n % 2 ^ Bits[t]
Signed(t, n) == IF n >= 2 ^ (Bits[t] - 1) THEN n - 2 ^ Bits[t] ELSE n
IsInteger(t) == t \in DOMAIN Bits
Quotient(x, y) == LET q == (IF x < 0 THEN -x ELSE x) \div (IF y < 0 THEN -y ELSE y)
                  IN IF (x < 0) = (y < 0) THEN q ELSE -q
Truth(p) == IF p THEN 1 ELSE 0

IntOps == {"add", "sub", "mul", "sdiv", "udiv"}
CmpOps == {"eq", "ne", "sge", "sgt", "sle", "slt", "uge", "ugt", "ule", "ult",
           "oeq", "one", "oge", "ogt", "ole", "olt"}

Arithmetic(op, t, x, y) ==
    CASE op = "add" -> Wrap(t, x + y)
      [] op = "sub" -> Wrap(t, x - y)
      [] op = "mul" -> Wrap(t, x * y)
      [] op = "udiv" -> x \div y
      [] op = "sdiv" -> Wrap(t, Quotient(Signed(t, x), Signed(t, y)))
      [] op = "fadd" -> x + y
      [] op = "fsub" -> x - y
      [] op = "fmul" -> Quotient(x * y, Unit)
      [] op = "fdiv" -> Quotient(x * Unit, y)

Compares(op, t, x, y) ==
    LET key(v) == IF op \in {"sge", "sgt", "sle", "slt"} THEN Signed(t, v) ELSE v
    IN CASE op \in {"eq", "oeq"} -> x = y
         [] op \in {"ne", "one"} -> x # y
         [] op \in {"sge", "uge", "oge"} -> key(x) >= key(y)
         [] op \in {"sgt", "ugt", "ogt"} -> key(x) > key(y)
         [] op \in {"sle", "ule", "ole"} -> key(x) <= key(y)
         [] op \in {"slt", "ult", "olt"} -> key(x) < key(y)

\* Integer divisions by zero, and the quotient that does not fit, stop the processor.
Traps(op, t, x, y) ==
    \/ op \in {"sdiv", "udiv"} /\ y = 0
    \/ op = "sdiv" /\ Signed(t, x) = -(2 ^ (Bits[t] - 1)) /\ Signed(t, y) = -1

Converted(op, from, to, x) ==
    CASE op = "sext_or_trunc" -> Wrap(to, Signed(from, x))
      [] op = "sitofp" -> Signed(from, x) * Unit
      [] op = "fptosi" -> Wrap(to, Quotient(x, Unit))

\* The blocks that may jump to k.
Preds(blocks, k) == {j \in DOMAIN blocks : \E t \in ToSet(blocks[j].terms) : k \in ToSet(t.to)}

RECURSIVE ReachFrom(_, _)
ReachFrom(blocks, S) ==
    LET next == S \cup UNION {UNION {ToSet(t.to) : t \in ToSet(blocks[k].terms)} : k \in S \ {NoBlock}}
    IN IF next = S THEN S ELSE ReachFrom(blocks, next)

\* Every block that can be reached ends in one terminator, whose successors are blocks.
Terminated(blocks) ==
    LET reached == ReachFrom(blocks, {1})
    IN NoBlock \notin reached /\ \A k \in reached : Len(blocks[k].terms) = 1

\* A phi has an incoming value for each predecessor of its block and for no other block.
PhisMatch(blocks) ==
    \A k \in DOMAIN blocks : \A i \in ToSet(blocks[k].ins) :
        i.op = "phi" => ToSet(i.from) = Preds(blocks, k) /\ Len(i.from) = Len(i.args)

\* The operands of arithmetic and comparisons have one type.
OperandsAgree(blocks) ==
    \A k \in DOMAIN blocks : \A i \in ToSet(blocks[k].ins) :
        i.op \in IntOps \cup CmpOps \cup {"fadd", "fsub", "fmul", "fdiv", "phi"}
            => \A x, y \in ToSet(i.args) : x.t = y.t
=============================================================================
