---------------------------- MODULE CompiledRead ----------------------------
(***************************************************************************)
(* compiler.py: the reader the Compiler generates for a structure, and     *)
(* what the generated code does when it runs.  The generator goes over the *)
(* fields once and gathers the fields of known length into blocks that are *)
(* read and unpacked in one go.  The code it generates does not seek.      *)
(*                                                                         *)
(* A generated statement is a record: its kind, the fields it reads, the   *)
(* offset of each in the bytes of the statement, and their size.           *)
(***************************************************************************)
EXTENDS StructRead

VARIABLES
    gen,        \* the loop variables of gen_struct_class
    ip,         \* the statement to run next
    cpos,       \* stream.tell(), in the compiled reader
    cbb,        \* bitreader
    cvals,      \* r
    csizes,     \* sizes
    coutcome    \* how the compiled read stands, or ended

compiledVars == <<gen, ip, cpos, cbb, cvals, csizes, coutcome>>

Slots == [field : Nat, at : Nat]

Statements ==
    [op : {"block", "bits", "reset", "nested", "dynamic"}, slots : Seq(Slots), size : Nat]

GenStates == [blocks : Seq(Statements), cur_block : Seq(Slots), read_size : Nat,
              prev_was_bits : BOOLEAN, field : Nat, finished : BOOLEAN]

COutcomes == {"reading", "done", "EOFError", "ValueError"}

\* The generator's and the generated reader's variables keep their types.
CompiledTypeOK ==
    /\ gen \in GenStates
    /\ gen.field \in 1 .. Len(def) + 1
    /\ gen.finished => gen.cur_block = <<>>
    /\ ip \in 1 .. Len(gen.blocks) + 1
    /\ cpos \in Nat
    /\ cbb \in BitBuffers
    /\ cvals \in Seq(Values)
    /\ csizes \in Seq(Nat \cup {None})
    /\ Len(cvals) = Len(csizes)
    /\ coutcome \in COutcomes

CompiledInit ==
    /\ gen = [blocks |-> <<>>, cur_block |-> <<>>, read_size |-> 0,
              prev_was_bits |-> FALSE, field |-> 1, finished |-> FALSE]
    /\ ip = 1
    /\ cpos = start
    /\ cbb = Empty
    /\ cvals = <<>>
    /\ csizes = <<>>
    /\ coutcome = "reading"

-----------------------------------------------------------------------------
(* gen_struct_class: one action for a field of each kind, and the end *)

\* blocks.append(self.gen_read_block(read_size, cur_block)), empty or not
ClosedBlock == <<[op |-> "block", slots |-> gen.cur_block, size |-> gen.read_size]>>

Single(op, k) ==
    <<[op |-> op, slots |-> <<[field |-> k, at |-> 0]>>, size |-> Size[def[k].type]]>>

\* ResetIfBits, if the generator did not keep prev_was_bits
NoReset == <<>>

ResetIfBits ==
    IF gen.prev_was_bits THEN <<[op |-> "reset", slots |-> <<>>, size |-> 0]>> ELSE <<>>

Generating == Laid /\ ~gen.finished /\ gen.field <= Len(def)

GenField == def[gen.field]

Generated(statements) ==
    [gen EXCEPT !.blocks = @ \o statements, !.cur_block = <<>>, !.read_size = 0,
                !.field = @ + 1]

\* prev_was_bits is left as it is, and no reset generated.
GenNested ==
    /\ Generating
    /\ GenField.type \in Nested
    /\ gen' = Generated(ClosedBlock \o Single("nested", gen.field))

GenBits ==
    /\ Generating
    /\ IsBits(GenField)
    /\ gen' = [Generated(ClosedBlock \o Single("bits", gen.field))
                 EXCEPT !.prev_was_bits = TRUE]

GenStatic ==
    /\ Generating
    /\ GenField.type \notin Nested \cup Dynamic
    /\ ~IsBits(GenField)
    /\ gen' = [gen EXCEPT !.blocks = @ \o ResetIfBits,
                          !.prev_was_bits = FALSE,
                          !.cur_block = Append(@, [field |-> gen.field, at |-> gen.read_size]),
                          !.read_size = @ + Size[GenField.type],
                          !.field = @ + 1]

\* Arrays only: a structure without a length is left to GenNested.
GenDynamic ==
    /\ Generating
    /\ GenField.type \in Dynamic \ Nested
    /\ LET closed == IF gen.cur_block = <<>> THEN <<>> ELSE ClosedBlock IN
       gen' = [Generated(ResetIfBits \o closed \o Single("dynamic", gen.field))
                 EXCEPT !.prev_was_bits = FALSE]

\* GenEnd, without the block of the last fields
GenEndUnclosed ==
    /\ Laid
    /\ ~gen.finished
    /\ gen.field = Len(def) + 1
    /\ gen' = [gen EXCEPT !.finished = TRUE]

GenEnd ==
    /\ Laid
    /\ ~gen.finished
    /\ gen.field = Len(def) + 1
    /\ gen' = [gen EXCEPT !.blocks = IF gen.cur_block = <<>> THEN @ ELSE @ \o ClosedBlock,
                          !.cur_block = <<>>, !.read_size = 0, !.finished = TRUE]

Generate ==
    /\ GenNested \/ GenBits \/ GenStatic \/ GenDynamic \/ GenEnd
    /\ UNCHANGED <<ip, cpos, cbb, cvals, csizes, coutcome>>

-----------------------------------------------------------------------------
(* The generated _read *)

Running == gen.finished /\ coutcome = "reading" /\ ip <= Len(gen.blocks)

Stmt == gen.blocks[ip]
StmtBytes == Available(stream, cpos, Stmt.size)

\* The value of a slot, cut out of the bytes of its statement
SlotValue(s) ==
    LET t == def[s.field].type IN
    Value(SubSeq(StmtBytes, s.at + 1, s.at + Size[t]), t)

SlotValues == [i \in DOMAIN Stmt.slots |-> SlotValue(Stmt.slots[i])]
SlotSizes == [i \in DOMAIN Stmt.slots |-> Size[def[Stmt.slots[i].field].type]]

\* `if len(buf) != size: raise EOFError()`: for every type, char included
RunBytes ==
    /\ Running
    /\ Stmt.op \in {"block", "nested", "dynamic"}
    /\ Len(StmtBytes) = Stmt.size
    /\ cvals' = cvals \o SlotValues
    /\ csizes' = csizes \o SlotSizes
    /\ cpos' = cpos + Stmt.size
    /\ ip' = ip + 1
    /\ UNCHANGED <<gen, cbb, coutcome>>

RunReset ==
    /\ Running
    /\ Stmt.op = "reset"
    /\ cbb' = Empty
    /\ ip' = ip + 1
    /\ UNCHANGED <<gen, cpos, cvals, csizes, coutcome>>

\* The BitBuffer is that of the interpreted reader, and so is the type's _read.
RunBits ==
    /\ Running
    /\ Stmt.op = "bits"
    /\ LET f == def[Stmt.slots[1].field]
           fresh == NeedsUnit(cbb, f.type)
           unit == IF fresh THEN Loaded(f.type, StmtBytes) ELSE cbb
       IN /\ fresh => Accepts(f.type, StmtBytes)
          /\ CanTake(unit, f.bits)
          /\ cvals' = Append(cvals, Taken(unit, f.bits))
          /\ cbb' = AfterTake(unit, f.bits)
          /\ cpos' = IF fresh THEN cpos + Len(StmtBytes) ELSE cpos
    /\ csizes' = Append(csizes, None)
    /\ ip' = ip + 1
    /\ UNCHANGED <<gen, coutcome>>

RunShort ==
    /\ Running
    /\ IF Stmt.op = "bits"
       THEN LET t == def[Stmt.slots[1].field].type IN
            NeedsUnit(cbb, t) /\ ~Accepts(t, StmtBytes)
       ELSE Len(StmtBytes) # Stmt.size
    /\ cpos' = cpos + Len(StmtBytes)
    /\ coutcome' = "EOFError"
    /\ UNCHANGED <<gen, ip, cbb, cvals, csizes>>

RunBitsBeyondUnit ==
    /\ Running
    /\ Stmt.op = "bits"
    /\ LET f == def[Stmt.slots[1].field]
           fresh == NeedsUnit(cbb, f.type)
           unit == IF fresh THEN Loaded(f.type, StmtBytes) ELSE cbb
       IN /\ fresh => Accepts(f.type, StmtBytes)
          /\ ~CanTake(unit, f.bits)
          /\ cbb' = unit
          /\ cpos' = IF fresh THEN cpos + Len(StmtBytes) ELSE cpos
    /\ coutcome' = "ValueError"
    /\ UNCHANGED <<gen, ip, cvals, csizes>>

RunEnd ==
    /\ gen.finished
    /\ coutcome = "reading"
    /\ ip = Len(gen.blocks) + 1
    /\ coutcome' = "done"
    /\ UNCHANGED <<gen, ip, cpos, cbb, cvals, csizes>>

Run == RunBytes \/ RunReset \/ RunBits \/ RunShort \/ RunBitsBeyondUnit \/ RunEnd

=============================================================================
