----------------------------- MODULE ILRewriter -----------------------------
(***************************************************************************)
(* The IL rewriter of the native profiler (il_rewriter.cpp): a method body *)
(* is imported into a list of instructions that name each other, edited,   *)
(* and exported again with the branches encoded as distances.              *)
(*                                                                         *)
(* An encoded body, as the CLR keeps it, has its instructions in order:    *)
(* the offset they are at, how many bytes they take, their operation, an   *)
(* operand and, for the branches, a distance; and exception clauses with   *)
(* byte offsets.                                                           *)
(* In the rewriter an instruction is named by the number of its creation   *)
(* and a branch by its target.  Operations are named, not numbered; a      *)
(* "block" stands for a run of instructions that neither branch nor touch  *)
(* the stack they find.                                                    *)
(***************************************************************************)
EXTENDS Integers, Sequences, FiniteSets, SequencesExt

\* The end of the list: the rewriter's m_IL.
Sentinel == 0

Short == {"br.s", "brtrue.s", "leave.s"}
Long(op) == CASE op = "br.s" -> "br" [] op = "brtrue.s" -> "brtrue" [] op = "leave.s" -> "leave"
LongBytes == 5
Branch == Short \cup {"br", "brtrue", "leave", "switch_arg"}

\* The operations the model tells apart.
Opcode == Branch \cup
    {"block", "ldc", "ldnull", "ldarg", "ldloc", "ldloca", "stloc", "dup", "pop", "box",
     "newarr", "stelem", "call", "switch", "ret", "throw", "rethrow", "endfinally"}

\* An operand is a name of the body, or one of those that an insertion uses.
Name == STRING \cup {"", "int", "default value", "default return", "BeginMethod",
                     "EndMethod", "GetReturnValue", "LogException", "Exception"}

\* An instruction of an encoded body, and a clause with its offsets.
EncodedInstr == [at : Nat, op : Opcode, bytes : Nat \ {0}, n : Int, name : Name, delta : Int]
EncodedClause == [kind : {"catch", "finally"}, class : Name,
                  try : Nat, tryEnd : Nat, handler : Nat, handlerEnd : Nat]

\* What an instruction adds to the stack, as its opcode definition says.
Pushes(op) ==
    CASE op \in {"ldc", "ldnull", "ldarg", "ldloc", "ldloca", "newarr", "box", "call"} -> 1
      [] op = "dup" -> 2
      [] OTHER -> 0

SumPushes(code) == FoldLeft(LAMBDA sum, s : sum + Pushes(s.op), 0, code)

----------------------------------------------------------------------------
(* Offsets in an encoded body                                               *)

\* The offset of the i-th instruction, or of the end.
OffsetAt(code, i) ==
    IF i <= Len(code) THEN code[i].at
    ELSE IF code = <<>> THEN 0 ELSE Last(code).at + Last(code).bytes

\* The targets of a switch do not start an instruction.
StartsAt(code, offset) ==
    {i \in DOMAIN code : code[i].op # "switch_arg" /\ code[i].at = offset}
    \cup (IF OffsetAt(code, Len(code) + 1) = offset THEN {Sentinel} ELSE {})

IsStart(code, offset) == StartsAt(code, offset) # {}

\* GetInstrFromOffset
InstrFromOffset(code, offset) == CHOOSE i \in StartsAt(code, offset) : TRUE

\* A distance counts from the end of the instruction, for the targets of a
\* switch from the end of them all.
BranchBase(code, i) ==
    LET j == IF code[i].op = "switch_arg"
             THEN CHOOSE k \in i + 1 .. Len(code) + 1 :
                     /\ k = Len(code) + 1 \/ code[k].op # "switch_arg"
                     /\ \A l \in i .. k - 1 : code[l].op = "switch_arg"
             ELSE i + 1
    IN  OffsetAt(code, j)

TargetOffset(code, i) == BranchBase(code, i) + code[i].delta

----------------------------------------------------------------------------
(* Import                                                                   *)

\* What the CLR accepts as a body.  Instructions follow each other; every
\* branch and every clause leads to one, and a clause has its try before its
\* handler.  Of two clauses the earlier is inside the other or apart from it.
InOrder(code) ==
    /\ code # <<>> /\ code[1].op # "switch_arg"
    /\ \A i, j \in DOMAIN code : i < j => code[i].at + code[i].bytes <= code[j].at

Importable(body) ==
    LET code == body.code IN
    /\ \A i \in DOMAIN code : code[i].op \in Branch => IsStart(code, TargetOffset(code, i))
    /\ \A k \in DOMAIN body.clauses :
          LET c == body.clauses[k] IN
          /\ \A o \in {c.try, c.tryEnd, c.handler, c.handlerEnd} : IsStart(code, o)
          /\ c.try < c.tryEnd /\ c.tryEnd <= c.handler /\ c.handler < c.handlerEnd

Within(c, d) ==
    \/ d.try <= c.try /\ c.handlerEnd <= d.tryEnd
    \/ d.handler <= c.try /\ c.handlerEnd <= d.handlerEnd
    \/ c.try = d.try /\ c.tryEnd = d.tryEnd /\ c.handlerEnd <= d.handler
Apart(c, d) == c.handlerEnd <= d.try \/ d.handlerEnd <= c.try

Nested(clauses) ==
    \A i, j \in DOMAIN clauses :
        i < j => Within(clauses[i], clauses[j]) \/ Apart(clauses[i], clauses[j])

WellFormed(body) == InOrder(body.code) /\ Importable(body) /\ Nested(body.clauses)

ImportIL(code) ==
    [i \in DOMAIN code |->
        [op |-> code[i].op, bytes |-> code[i].bytes, n |-> code[i].n, name |-> code[i].name,
         target |-> IF code[i].op \in Branch
                    THEN InstrFromOffset(code, TargetOffset(code, i))
                    ELSE Sentinel]]

\* A handler ends with the instruction before its end.
ImportEH(body) ==
    [k \in DOMAIN body.clauses |->
        LET c == body.clauses[k]
            At(o) == InstrFromOffset(body.code, o) IN
        [kind |-> c.kind, class |-> c.class,
         tryBegin |-> At(c.try), tryEnd |-> At(c.tryEnd), handlerBegin |-> At(c.handler),
         handlerEnd |-> IF At(c.handlerEnd) = Sentinel
                        THEN Len(body.code) ELSE At(c.handlerEnd) - 1]]

\* The whole rewriter: the list, the instructions, the clauses and the stack
\* that the header asks for, to which every instruction is added.
Import(body) ==
    [il |-> [i \in DOMAIN body.code |-> i],
     instr |-> ImportIL(body.code),
     eh |-> ImportEH(body),
     maxStack |-> body.maxStack + SumPushes(body.code)]

----------------------------------------------------------------------------
(* Editing                                                                  *)

\* The place of an instruction in the list; the sentinel is behind the last.
Place(r, id) == IF id = Sentinel THEN Len(r.il) + 1 ELSE SelectInSeq(r.il, LAMBDA x : x = id)

NextInstr(r, id) == IF Place(r, id) = Len(r.il) THEN Sentinel ELSE r.il[Place(r, id) + 1]

\* The name the next new instruction gets.
NewInstr(r) == Len(r.instr) + 1

\* Instructions inserted before another, in their order (InsertBefore for each).
\* Whatever branched to `where' still does.
InsertAllBefore(r, where, news) ==
    LET p == Place(r, where) IN
    [r EXCEPT !.il = SubSeq(@, 1, p - 1) \o [i \in DOMAIN news |-> Len(r.instr) + i]
                         \o SubSeq(@, p, Len(@)),
              !.instr = @ \o news,
              !.maxStack = @ + SumPushes(news)]

InsertBefore(r, where, new) == InsertAllBefore(r, where, <<new>>)

----------------------------------------------------------------------------
(* Export                                                                   *)

\* The offsets of one pass over the list.
Offsets(r) ==
    LET at[i \in DOMAIN r.il] ==
            IF i = 1 THEN 0 ELSE at[i-1] + r.instr[r.il[i-1]].bytes
    IN  at

\* The instructions in the order of the list, each at its offset.
Layout(r) ==
    LET at == Offsets(r) IN
    [i \in DOMAIN r.il |->
        [op |-> r.instr[r.il[i]].op, bytes |-> r.instr[r.il[i]].bytes, at |-> at[i]]]

OffsetOf(r, id) == OffsetAt(Layout(r), Place(r, id))

Delta(r, id) == OffsetOf(r, r.instr[id].target) - BranchBase(Layout(r), Place(r, id))

\* Variant: off by one.
FitsAlmost(d) == d \in -128 .. 128

FitsInt8(d) == d \in -128 .. 127

\* The low byte of a distance, read as a signed one.
AsInt8(d) == ((d + 128) % 256) - 128

\* Short branches that do not reach their target, with the offsets of one pass.
TooFar(r) ==
    {id \in DOMAIN r.instr : r.instr[id].op \in Short /\ ~FitsInt8(Delta(r, id))}

LongForm(s) == [s EXCEPT !.op = Long(@), !.bytes = LongBytes]

\* All of them get their long form; the offsets are then computed again.
Widen(r) ==
    [r EXCEPT !.instr = [id \in DOMAIN @ |->
        IF id \in TooFar(r) THEN LongForm(@[id]) ELSE @[id]]]

\* The output buffer and the exception section.
Encode(r) ==
    [code |-> [i \in DOMAIN r.il |->
        LET s == r.instr[r.il[i]] IN
        [at |-> OffsetOf(r, r.il[i]), op |-> s.op, bytes |-> s.bytes, n |-> s.n, name |-> s.name,
         delta |-> IF s.op \in Short THEN AsInt8(Delta(r, r.il[i]))
                   ELSE IF s.op \in Branch THEN Delta(r, r.il[i]) ELSE 0]],
     clauses |-> [k \in DOMAIN r.eh |->
        LET c == r.eh[k] IN
        [kind |-> c.kind, class |-> c.class,
         try |-> OffsetOf(r, c.tryBegin), tryEnd |-> OffsetOf(r, c.tryEnd),
         handler |-> OffsetOf(r, c.handlerBegin),
         handlerEnd |-> OffsetOf(r, NextInstr(r, c.handlerEnd))]],
     maxStack |-> r.maxStack]
=============================================================================
