-------------------------- MODULE CallTargetRewriter --------------------------
(***************************************************************************)
(* What CallTarget_RewriterCallback (cor_profiler.cpp) makes of the body   *)
(* of an instrumented method: the original instructions run between a call *)
(* of BeginMethod and, in a finally, a call of EndMethod, each of which    *)
(* has a catch of its own.                                                 *)
(*                                                                         *)
(* A method is its encoded body and what its signature says: the number of *)
(* its locals and arguments, whether it is static, whether it is void, and *)
(* whether it can be instrumented at all (no argument by reference, no     *)
(* static method of a value type, no generic value type).                  *)
(***************************************************************************)
EXTENDS ILRewriter

CONSTANT FastPathCount  \* FASTPATH_COUNT: from here on the arguments go in an array

\* A method as the CLR has it.
MethodBody ==
    [code : Seq(EncodedInstr), clauses : Seq(EncodedClause), maxStack : Nat, locals : Nat,
     isVoid : BOOLEAN, isStatic : BOOLEAN, args : Nat, supported : BOOLEAN]

\* An instruction without an operand.
Plain(op, bytes) == [op |-> op, bytes |-> bytes, n |-> 0, name |-> "", target |-> Sentinel]

----------------------------------------------------------------------------
(* ILRewriterWrapper: what it inserts                                       *)

\* Operands up to 3 (locals, arguments) or 8 (numbers) are part of the operation.
StLocal(i) == [Plain("stloc", IF i <= 3 THEN 1 ELSE IF i <= 255 THEN 2 ELSE 4) EXCEPT !.n = i]
LoadLocal(i) == [Plain("ldloc", IF i <= 3 THEN 1 ELSE IF i <= 255 THEN 2 ELSE 4) EXCEPT !.n = i]
LoadLocalAddress(i) == [Plain("ldloca", IF i <= 255 THEN 2 ELSE 4) EXCEPT !.n = i]
LoadArgument(i) == [Plain("ldarg", IF i <= 3 THEN 1 ELSE IF i <= 255 THEN 2 ELSE 4) EXCEPT !.n = i]
LoadInt32(i) == [Plain("ldc", IF i <= 8 THEN 1 ELSE IF i <= 127 THEN 2 ELSE 5) EXCEPT !.name = "int"]
LoadNull == Plain("ldnull", 1)
CallMember(m) == [Plain("call", 5) EXCEPT !.name = m]
LeaveTo(id) == [Plain("leave.s", 2) EXCEPT !.target = id]
Rethrow == Plain("rethrow", 2)
EndFinally == Plain("endfinally", 1)

CreateArray(size) == <<LoadInt32(size), Plain("newarr", 5)>>
LoadValueIntoArray(i, arg) ==
    <<Plain("dup", 1), LoadInt32(i), arg, Plain("box", 5), Plain("stelem", 1)>>

----------------------------------------------------------------------------
(* The four locals behind those of the method (ModifyLocalSig)              *)

NewLocalsCount(m) == m.locals + IF m.isVoid THEN 3 ELSE 4

ReturnValueIndex(m)      == NewLocalsCount(m) - 4
ExceptionIndex(m)        == NewLocalsCount(m) - 3
CallTargetReturnIndex(m) == NewLocalsCount(m) - 2
CallTargetStateIndex(m)  == NewLocalsCount(m) - 1

OnlyIf(b, seq) == IF b THEN seq ELSE <<>>

\* ModifyLocalSigAndInitialize; the state is left for BeginMethod to set.
InitializeLocals(m) ==
    (IF m.isVoid
     THEN <<CallMember("default return"), StLocal(CallTargetReturnIndex(m))>>
     ELSE <<CallMember("default value"), StLocal(ReturnValueIndex(m)),
            CallMember("default return"), StLocal(CallTargetReturnIndex(m))>>)
    \o <<LoadNull, StLocal(ExceptionIndex(m))>>

----------------------------------------------------------------------------
(* The begin part                                                           *)

LoadInstance(m) == IF m.isStatic THEN LoadNull ELSE LoadArgument(0)

ArgumentOf(m, i) == LoadArgument(IF m.isStatic THEN i - 1 ELSE i)

\* Directly, or inside an object array; every one is boxed here.
LoadArguments(m) ==
    IF m.args < FastPathCount
    THEN [i \in 1 .. m.args |-> ArgumentOf(m, i)]
    ELSE CreateArray(m.args) \o
         FlattenSeq([i \in 1 .. m.args |-> LoadValueIntoArray(i - 1, ArgumentOf(m, i))])

\* Both leaves go to the first original instruction.
BeginPart(m, original) ==
    InitializeLocals(m) \o <<LoadInstance(m)>> \o LoadArguments(m)
    \o <<CallMember("BeginMethod"), StLocal(CallTargetStateIndex(m)), LeaveTo(original),
         CallMember("LogException"), LeaveTo(original)>>

\* The name of the i-th of the instructions about to be inserted.
NameOf(r, i) == NewInstr(r) + i - 1

\* The instructions that the clauses will name; in the begin part the catch is
\* the last two.
BeginMarks(m, r) ==
    LET size == Len(BeginPart(m, Sentinel)) IN
    [first |-> NameOf(r, 1), beginCatch |-> NameOf(r, size - 1),
     beginCatchLeave |-> NameOf(r, size)]

InsertBegin(m, r) == InsertAllBefore(r, r.il[1], BeginPart(m, r.il[1]))

----------------------------------------------------------------------------
(* The end part, in front of a new return at the end of the method          *)

\* The catch of the original method, and the finally with EndMethod in a try.
EndPart(m, endFinally) ==
    <<StLocal(ExceptionIndex(m)), Rethrow, LoadInstance(m)>>
    \o OnlyIf(~m.isVoid, <<LoadLocal(ReturnValueIndex(m))>>)
    \o <<LoadLocal(ExceptionIndex(m)), LoadLocal(CallTargetStateIndex(m)),
         CallMember("EndMethod"), StLocal(CallTargetReturnIndex(m))>>
    \o OnlyIf(~m.isVoid, <<LoadLocalAddress(CallTargetReturnIndex(m)),
                           CallMember("GetReturnValue"), StLocal(ReturnValueIndex(m))>>)
    \o <<LeaveTo(endFinally), CallMember("LogException"), LeaveTo(endFinally), EndFinally>>
    \o OnlyIf(~m.isVoid, <<LoadLocal(ReturnValueIndex(m))>>)

\* Of the end part; the return is created before it.
MethodReturn(r) == NewInstr(r)
EndFinallyInstr(m, r) ==
    NameOf(r, 1 + SelectLastInSeq(EndPart(m, Sentinel), LAMBDA s : s.op = "endfinally"))

EndMarks(m, r) ==
    [methodReturn |-> MethodReturn(r), startCatch |-> NameOf(r, 2), rethrow |-> NameOf(r, 3),
     endTry |-> NameOf(r, 4), endCatch |-> EndFinallyInstr(m, r) - 2,
     endCatchLeave |-> EndFinallyInstr(m, r) - 1, endFinally |-> EndFinallyInstr(m, r)]

InsertEnd(m, r) ==
    InsertAllBefore(InsertBefore(r, Sentinel, Plain("ret", 1)), MethodReturn(r),
                    EndPart(m, EndFinallyInstr(m, r)))

----------------------------------------------------------------------------
(* The returns of the original method                                       *)

\* Variant: a return becomes a leave where it stands, and nothing is stored.
ReturnToLeaveOnly(m, r, id, after) ==
    [r EXCEPT !.instr[id].op = "leave.s", !.instr[id].bytes = 2, !.instr[id].target = after]

\* The value is stored in front of the return, which then leaves; whatever
\* branches to the return still branches to that instruction.
ReturnToLeave(m, r, id, after) ==
    LET s == IF m.isVoid THEN r ELSE InsertBefore(r, id, StLocal(ReturnValueIndex(m)))
    IN  [s EXCEPT !.instr[id].op = "leave.s", !.instr[id].bytes = 2, !.instr[id].target = after]

\* The places of the returns but the new one.
Returns(r, methodReturn) ==
    {i \in DOMAIN r.il : r.instr[r.il[i]].op = "ret" /\ r.il[i] # methodReturn}

----------------------------------------------------------------------------
(* The exception clauses, behind those of the method                        *)

Clause(kind, tryBegin, tryEnd, handlerBegin, handlerEnd) ==
    [kind |-> kind, class |-> "Exception", tryBegin |-> tryBegin, tryEnd |-> tryEnd,
     handlerBegin |-> handlerBegin, handlerEnd |-> handlerEnd]

\* Variant: the finally covers the original instructions, but not their catch.
NewClausesShort(b, k) ==
    <<Clause("catch", b.first, b.beginCatch, b.beginCatch, b.beginCatchLeave),
      Clause("catch", k.endTry, k.endCatch, k.endCatch, k.endCatchLeave),
      Clause("catch", b.first, k.startCatch, k.startCatch, k.rethrow),
      Clause("finally", b.first, k.startCatch, k.endTry, k.endFinally)>>

\* From the marks of the two parts.
NewClauses(b, k) ==
    <<Clause("catch", b.first, b.beginCatch, b.beginCatch, b.beginCatchLeave),
      Clause("catch", k.endTry, k.endCatch, k.endCatch, k.endCatchLeave),
      Clause("catch", b.first, k.startCatch, k.startCatch, k.rethrow),
      Clause("finally", b.first, k.endTry, k.endTry, k.endFinally)>>

AddClauses(r, b, k) == [r EXCEPT !.eh = @ \o NewClauses(b, k)]
=============================================================================
