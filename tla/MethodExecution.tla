--------------------------- MODULE MethodExecution ---------------------------
(***************************************************************************)
(* How the CLR runs an encoded method body: external, as the rewriter      *)
(* relies on it.  Exceptions look for the first catch among the clauses    *)
(* that cover the instruction, in the order of the table; the finally      *)
(* handlers in between run first, and also on the way of a leave.          *)
(*                                                                         *)
(* Values are names: "null", "default", the literals of the body, and a    *)
(* block that throws is the name of its exception.  Where a body has a     *)
(* choice (a block may throw, a branch may be taken) the caller makes it,  *)
(* so that two bodies can be given the same ones.                          *)
(***************************************************************************)
EXTENDS CallTargetRewriter

Covers(m, from, to, pc) == from <= m.code[pc].at /\ m.code[pc].at < to
InTry(m, k, pc) == Covers(m, m.clauses[k].try, m.clauses[k].tryEnd, pc)
InHandler(m, k, pc) == Covers(m, m.clauses[k].handler, m.clauses[k].handlerEnd, pc)
HandlerOf(m, k) == InstrFromOffset(m.code, m.clauses[k].handler)

\* Where control goes when no more finally is due.
Catch(k, x) == [kind |-> "catch", pc |-> 0, clause |-> k, value |-> x]
Jump(pc) == [kind |-> "jump", pc |-> pc, clause |-> 0, value |-> ""]
Propagate(x) == [kind |-> "propagate", pc |-> 0, clause |-> 0, value |-> x]

\* A running handler: what comes after it, if it is a finally.
Handler(k, rest, dest) == [clause |-> k, rest |-> rest, dest |-> dest]

Running == [kind |-> "running", value |-> ""]
Returned(v) == [kind |-> "returned", value |-> v]
Thrown(x) == [kind |-> "thrown", value |-> x]
Invalid == [kind |-> "invalid", value |-> ""]

\* An activation of a method: events are the blocks it ran, hooks the calls of
\* BeginMethod and EndMethod with what EndMethod was given.
Start(m) ==
    [pc |-> 1, stack |-> <<>>, locals |-> [i \in 0 .. m.locals - 1 |-> "null"],
     handlers |-> <<>>, events |-> <<>>, hooks |-> <<>>, outcome |-> Running]

\* The handlers that control is still in at pc.
StillIn(m, handlers, pc) == SelectSeq(handlers, LAMBDA h : InHandler(m, h.clause, pc))

\* The next of the finally handlers that are due, or the destination.
Proceed(m, e, due, dest) ==
    IF due # <<>>
    THEN LET pc == HandlerOf(m, Head(due)) IN
         [e EXCEPT !.pc = pc, !.stack = <<>>,
                   !.handlers = Append(StillIn(m, @, pc), Handler(Head(due), Tail(due), dest))]
    ELSE IF dest.kind = "catch"
    THEN LET pc == HandlerOf(m, dest.clause) IN
         [e EXCEPT !.pc = pc, !.stack = <<dest.value>>,
                   !.handlers = Append(StillIn(m, @, pc), Handler(dest.clause, <<>>, dest))]
    ELSE IF dest.kind = "jump"
    THEN [e EXCEPT !.pc = dest.pc, !.stack = <<>>, !.handlers = StillIn(m, @, dest.pc)]
    ELSE [e EXCEPT !.outcome = Thrown(dest.value)]

IsFinally(m, k) == m.clauses[k].kind = "finally"

\* The clauses whose try holds pc, inner ones first.
Enclosing(m, pc) ==
    SelectSeq([k \in DOMAIN m.clauses |-> k], LAMBDA k : InTry(m, k, pc))

Throw(m, e, x) ==
    LET around == Enclosing(m, e.pc)
        catches == {i \in DOMAIN around : /\ m.clauses[around[i]].kind = "catch"
                                          /\ m.clauses[around[i]].class = "Exception"}
        first == CHOOSE i \in catches : \A j \in catches : i <= j
        before == IF catches = {} THEN around ELSE SubSeq(around, 1, first - 1)
    IN  Proceed(m, e, SelectSeq(before, LAMBDA k : IsFinally(m, k)),
                IF catches = {} THEN Propagate(x) ELSE Catch(around[first], x))

Leave(m, e, target) ==
    Proceed(m, e, SelectSeq(Enclosing(m, e.pc),
                            LAMBDA k : IsFinally(m, k) /\ ~InTry(m, k, target)),
            Jump(target))

----------------------------------------------------------------------------

\* How many values an instruction takes.
Pops(m, s) ==
    CASE s.op \in {"stloc", "pop", "dup", "brtrue.s", "brtrue", "switch", "throw",
                   "newarr", "box"} -> 1
      [] s.op = "stelem" -> 3
      [] s.op = "ret" -> IF m.isVoid THEN 0 ELSE 1
      [] s.op = "call" ->
            CASE s.name = "BeginMethod" -> 1 + IF m.args < FastPathCount THEN m.args ELSE 1
              [] s.name = "EndMethod" -> IF m.isVoid THEN 3 ELSE 4
              [] s.name \in {"LogException", "GetReturnValue"} -> 1
              [] OTHER -> 0
      [] OTHER -> 0

\* The choices of the method's own code, and those of the integration.
IsBranching(s) == s.op \in {"block", "brtrue.s", "brtrue", "switch"}
IsHook(s) == s.op = "call" /\ s.name \in {"BeginMethod", "EndMethod"}

\* 0: runs, falls through, returns its value; 1: throws, branches; EndMethod
\* may also answer with another value (2).
ChoicesOf(s) ==
    CASE s.op \in {"block", "brtrue.s", "brtrue"} -> 0 .. 1
      [] s.op = "switch" -> 0 .. s.n
      [] IsHook(s) -> IF s.name = "EndMethod" THEN 0 .. 2 ELSE 0 .. 1
      [] OTHER -> {0}

Invoke(m, e, s, choice, args) ==
    LET On(v) == [e EXCEPT !.pc = @ + 1, !.stack = SubSeq(@, 1, Len(@) - Len(args)) \o v]
    IN  CASE s.name = "BeginMethod" ->
               LET f == [On(<<"state">>) EXCEPT !.hooks = Append(@,
                            [name |-> "BeginMethod", after |-> Len(e.events),
                             value |-> "", exception |-> "null"])]
               IN  IF choice = 0 THEN f
                   ELSE Throw(m, [f EXCEPT !.pc = e.pc], "BeginMethod failed")
          [] s.name = "EndMethod" ->
               LET value == IF m.isVoid THEN "" ELSE args[2]
                   f == [On(<<IF choice = 2 /\ ~m.isVoid THEN "changed" ELSE value>>)
                          EXCEPT !.hooks = Append(@,
                            [name |-> "EndMethod", after |-> Len(e.events),
                             value |-> value, exception |-> args[Len(args) - 1]])]
               IN  IF choice # 1 THEN f
                   ELSE Throw(m, [f EXCEPT !.pc = e.pc], "EndMethod failed")
          [] s.name = "LogException" -> On(<<>>)
          [] s.name = "GetReturnValue" -> On(args)
          [] OTHER -> On(<<"default">>)

\* One instruction of a body that has enough on its stack for it.
Execute(m, e, s, choice) ==
    LET depth == Len(e.stack) - Pops(m, s)
        args == SubSeq(e.stack, depth + 1, Len(e.stack))
        On(v) == [e EXCEPT !.pc = @ + 1, !.stack = SubSeq(@, 1, depth) \o v]
        Target(i) == InstrFromOffset(m.code, TargetOffset(m.code, i))
        GoTo(i) == [On(<<>>) EXCEPT !.pc = Target(i)]
    IN  CASE s.op = "block" ->
               LET f == [e EXCEPT !.events = Append(@, s.name)]
               IN  IF choice = 0 THEN [f EXCEPT !.pc = @ + 1] ELSE Throw(m, f, s.name)
          [] s.op = "ldc" -> On(<<s.name>>)
          [] s.op = "ldnull" -> On(<<"null">>)
          [] s.op \in {"ldarg", "newarr", "box"} -> On(<<"argument">>)
          [] s.op \in {"ldloc", "ldloca"} -> On(<<e.locals[s.n]>>)
          [] s.op = "stloc" -> [On(<<>>) EXCEPT !.locals[s.n] = args[1]]
          [] s.op = "dup" -> On(args \o args)
          [] s.op \in {"pop", "stelem"} -> On(<<>>)
          [] s.op \in {"br.s", "br"} -> GoTo(e.pc)
          [] s.op \in {"brtrue.s", "brtrue"} -> IF choice = 1 THEN GoTo(e.pc) ELSE On(<<>>)
          [] s.op = "switch" ->
               IF choice = 0 THEN [On(<<>>) EXCEPT !.pc = e.pc + s.n + 1]
               ELSE GoTo(e.pc + choice)
          [] s.op \in {"leave.s", "leave"} -> Leave(m, e, Target(e.pc))
          [] s.op = "throw" -> Throw(m, e, args[1])
          [] s.op = "rethrow" -> Throw(m, e, Last(e.handlers).dest.value)
          [] s.op = "endfinally" ->
               LET h == Last(e.handlers)
               IN  Proceed(m, [e EXCEPT !.handlers = Front(@)], h.rest, h.dest)
          [] s.op = "ret" -> [e EXCEPT !.outcome = Returned(IF m.isVoid THEN "" ELSE args[1])]
          [] s.op = "call" -> Invoke(m, e, s, choice, args)

\* Running off the end, out of stack, or to a local or a place there is not:
\* the CLR refuses such a body.
TakeStep(m, e, choice) ==
    IF \/ e.pc \notin DOMAIN m.code
       \/ Len(e.stack) < Pops(m, m.code[e.pc])
       \/ m.code[e.pc].op \in {"ldloc", "ldloca", "stloc"} /\ m.code[e.pc].n \notin DOMAIN e.locals
       \/ m.code[e.pc].op \in Branch /\ ~IsStart(m.code, TargetOffset(m.code, e.pc))
    THEN [e EXCEPT !.outcome = Invalid]
    ELSE Execute(m, e, m.code[e.pc], choice)
=============================================================================
