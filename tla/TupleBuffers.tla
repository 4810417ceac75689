----------------------------- MODULE TupleBuffers ----------------------------
(***************************************************************************)
(* Tuple buffers (include/runtime/Tuplebuffer.h): a list of memory areas,  *)
(* each twice as large as the last, filled from their start.  An area's    *)
(* memory is a function of the addresses something was stored at.          *)
(***************************************************************************)
EXTENDS Integers, Sequences

Zero == <<<<"zero">>, 0>>     \* a byte of a fresh mapping
NoBytes == [a \in {} |-> Zero]

Buffer(size) == [ptr |-> 0, size |-> size, mem |-> NoBytes]

TupleBuffer(base) == [base |-> base, buffers |-> <<>>]

\* Storing an image, a function of offsets, at the place addr.
Store(mem, addr, image) ==
  [a \in DOMAIN mem \union {addr + o : o \in DOMAIN image} |->
     IF a - addr \in DOMAIN image THEN image[a - addr] ELSE mem[a]]

\* n bytes of mem from addr on
Bytes(mem, addr, n) ==
  [o \in 0 .. n - 1 |-> IF addr + o \in DOMAIN mem THEN mem[addr + o] ELSE Zero]

\* Buffer::insertUnchecked, and the store of image at the place it returns.
InsertUnchecked(buffer, elemSize, image) ==
  [buffer EXCEPT !.ptr = @ + elemSize, !.mem = Store(@, buffer.ptr, image)]

Back(tb) == tb.buffers[Len(tb.buffers)]

\* Faulty variant of Grown: the last area is used until it is full.
GrownWhenFull(tb, elemSize) ==
  IF tb.buffers = <<>> \/ Back(tb).ptr >= Back(tb).size
  THEN [base |-> 2 * tb.base, buffers |-> Append(tb.buffers, Buffer(2 * tb.base))]
  ELSE tb

\* The first half of TupleBuffer::alloc: a new area unless the last has room.
\* Nothing asks whether the new area has.
Grown(tb, elemSize) ==
  IF tb.buffers = <<>> \/ Back(tb).size - Back(tb).ptr < elemSize
  THEN [base |-> 2 * tb.base, buffers |-> Append(tb.buffers, Buffer(2 * tb.base))]
  ELSE tb

\* TupleBuffer::alloc, and the store of image at the place it returns.
Insert(tb, elemSize, image) ==
  LET grown == Grown(tb, elemSize) IN
  [grown EXCEPT !.buffers[Len(grown.buffers)] = InsertUnchecked(@, elemSize, image)]

\* The elements of owner's buffer in the order of the loops over areas and
\* addresses (insertSortBuffer, createBeginTupleBufferIter)
Places(owner, tb, elemSize) ==
  LET count(b) == (tb.buffers[b].ptr + elemSize - 1) \div elemSize
      upTo[b \in 0 .. Len(tb.buffers)] ==
        IF b = 0 THEN <<>>
        ELSE upTo[b - 1] \o [k \in 1 .. count(b) |-> <<owner, b, (k - 1) * elemSize>>]
  IN upTo[Len(tb.buffers)]
=============================================================================
