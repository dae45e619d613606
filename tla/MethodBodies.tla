---------------------------- MODULE MethodBodies ----------------------------
(***************************************************************************)
(* Small method bodies, of the shapes a C# compiler emits, for the model   *)
(* checking of RewrittenMethod.                                            *)
(***************************************************************************)
EXTENDS ILRewriter

\* An instruction; `to' is the place of what it branches to.
I(op, bytes) == [op |-> op, bytes |-> bytes, n |-> 0, name |-> "", to |-> 0]
Block(name, bytes) == [I("block", bytes) EXCEPT !.name = name]
Ldc(v) == [I("ldc", 2) EXCEPT !.name = v]
To(op, to) == [I(op, IF op \in Short THEN 2 ELSE IF op = "switch_arg" THEN 4 ELSE 5) EXCEPT !.to = to]
Switch(n) == [I("switch", 5) EXCEPT !.n = n]
Ldloc(i) == [I("ldloc", 1) EXCEPT !.n = i]
Stloc(i) == [I("stloc", 1) EXCEPT !.n = i]
Ret == I("ret", 1)
Pop == I("pop", 1)
Arg == I("ldarg", 1)

\* A body whose branches are given by place, encoded.
Assemble(is) ==
    LET at[i \in DOMAIN is] == IF i = 1 THEN 0 ELSE at[i-1] + is[i-1].bytes
        plain == [i \in DOMAIN is |-> [at |-> at[i], op |-> is[i].op, bytes |-> is[i].bytes,
                                       n |-> is[i].n, name |-> is[i].name, delta |-> 0]]
    IN  [i \in DOMAIN is |->
            [plain[i] EXCEPT !.delta = IF is[i].op \in Branch
                                       THEN at[is[i].to] - BranchBase(plain, i) ELSE 0]]

\* A clause over the places [try, tryEnd) and [tryEnd, handlerEnd).
Eh(is, kind, class, try, tryEnd, handlerEnd) ==
    LET At(i) == OffsetAt(Assemble(is), i) IN
    [kind |-> kind, class |-> class, try |-> At(try), tryEnd |-> At(tryEnd),
     handler |-> At(tryEnd), handlerEnd |-> At(handlerEnd)]

M(is, clauses, locals, isVoid, isStatic, args) ==
    [code |-> Assemble(is), clauses |-> clauses, maxStack |-> 2, locals |-> locals,
     isVoid |-> isVoid, isStatic |-> isStatic, args |-> args, supported |-> TRUE]

\* void: if (c) { a } b
If == <<Arg, To("brtrue.s", 4), Block("a", 3), Block("b", 3), Ret>>

\* void, branching to its return: if (c) { a }
IfAtEnd == <<Arg, To("brtrue.s", 4), Block("a", 3), Ret>>

\* return c ? (a, "one") : "two", with two returns
Choose == <<Arg, To("brtrue.s", 5), Ldc("two"), Ret, Block("a", 3), Ldc("one"), Ret>>

\* x = "one"; a; return x
Local == <<Ldc("one"), Stloc(0), Block("a", 3), Ldloc(0), Ret>>

\* do { a } while (c)
Loop == <<Block("a", 4), Arg, To("brtrue.s", 1), Ret>>

\* switch (c) { case 0: a; return "zero"; case 1: return "one"; } return "other"
Cases == <<Arg, Switch(2), To("switch_arg", 7), To("switch_arg", 10), Ldc("other"), Ret,
           Block("a", 3), Ldc("zero"), Ret, Ldc("one"), Ret>>

\* try { a; x = "one" } catch (class) { b; x = "two" } return x
TryCatch == <<Block("a", 3), Ldc("one"), Stloc(0), To("leave.s", 10),
                  Pop, Block("b", 3), Ldc("two"), Stloc(0), To("leave.s", 10),
                  Ldloc(0), Ret>>

\* try { a } catch { b; throw; } finally { c } d
TryFinally == <<Block("a", 3), To("leave.s", 6), Pop, Block("b", 3), I("rethrow", 2),
                To("leave.s", 9), Block("c", 3), I("endfinally", 1), Block("d", 3), Ret>>

\* if (c) return "one"; a; return "two": the branch spans 127 bytes at first.
Far(bytes) == <<Arg, To("brtrue.s", 6), Block("a", bytes), Ldc("one"), Ret,
                Ldc("two"), Ret>>

\* while (c) { if (d) return; a }: backwards
FarBack(bytes) == <<Block("a", 3), Arg, To("brtrue.s", 7), Block("b", bytes), Arg,
                    To("brtrue.s", 1), Ret>>

\* throw
Throws == <<Block("a", 3), Ldc("x"), I("throw", 1)>>

\* return x ?? y: the value is on the stack where the branches meet
Coalesce == <<Ldc("x"), I("dup", 1), To("brtrue.s", 6), Pop, Ldc("y"), Ret>>

\* None of them branches to a return that has a value on the stack.
Compiled ==
    <<M(If, <<>>, 0, TRUE, FALSE, 0), M(IfAtEnd, <<>>, 1, TRUE, TRUE, 1),
      M(Choose, <<>>, 0, FALSE, TRUE, 2), M(Local, <<>>, 2, FALSE, FALSE, 1),
      M(Loop, <<>>, 1, TRUE, FALSE, 3), M(Cases, <<>>, 0, FALSE, FALSE, 1),
      M(TryCatch, <<Eh(TryCatch, "catch", "Exception", 1, 5, 10)>>, 1, FALSE, FALSE, 0),
      M(TryCatch, <<Eh(TryCatch, "catch", "Other", 1, 5, 10)>>, 1, FALSE, TRUE, 0),
      M(TryFinally, <<Eh(TryFinally, "catch", "Exception", 1, 3, 6),
                      Eh(TryFinally, "finally", "", 1, 7, 9)>>, 0, TRUE, FALSE, 0),
      M(Far(123), <<>>, 0, FALSE, TRUE, 0), M(Far(122), <<>>, 0, FALSE, TRUE, 0),
      M(FarBack(121), <<>>, 0, TRUE, TRUE, 0),
      M(Throws, <<>>, 0, TRUE, FALSE, 0),
      [M(Local, <<>>, 1, FALSE, FALSE, 1) EXCEPT !.supported = FALSE]>>

Coalescing == <<M(Coalesce, <<>>, 0, FALSE, TRUE, 0)>>

ASSUME BodyAssumption ==
    \A i \in DOMAIN (Compiled \o Coalescing) : WellFormed((Compiled \o Coalescing)[i])
=============================================================================
