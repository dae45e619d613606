-------------------------- MODULE CallTargetProofs --------------------------
(***************************************************************************)
(* Theorems about CallTarget, for any number of flows, calls and blocks:   *)
(* types, the application finds its context as it left it, callers see what *)
(* the methods did, and spans are finished by then.  IInv is inductive.    *)
(***************************************************************************)
EXTENDS CallTargetProperties, TLAPS, SequenceTheorems

TaskTypeOK ==
    /\ task \in [Call -> {"none", "pending", "ok", "fault", "cancelled"}]
    /\ awaited \in [Call -> {"none", "ok", "fault", "cancelled"}]
    /\ continuation \subseteq Call

HistoryTypeOK ==
    /\ inherited \in [Flow -> Scope \cup {NoScope}]
    /\ threw \subseteq Call
    /\ upset \subseteq Flow

FrameTypeOK ==
    /\ started \subseteq Flow
    /\ stack \in [Flow -> Seq(Scope)]
    /\ kind \in [Scope -> Kind \cup {"block", "new"}]
    /\ state \in [Call -> [previous : Scope \cup {NoScope}, scope : Scope \cup {NoScope}]]
    /\ disabled \in BOOLEAN

LEMMA TypeParts ==
    /\ TypeOK <=> ScopeTypeOK /\ FrameTypeOK /\ TaskTypeOK /\ HistoryTypeOK
    /\ TypeOK' <=> ScopeTypeOK' /\ FrameTypeOK' /\ TaskTypeOK' /\ HistoryTypeOK'
BY DEF TypeOK, FrameTypeOK, TaskTypeOK, HistoryTypeOK

(* Activate, Close and CopyContext keep the types of the scopes.           *)
LEMMA ScopesTyped ==
    ASSUME ScopeTypeOK, NEW f \in Flow, NEW g \in Flow, NEW s \in Scope,
           Activate(f, s) \/ Close(f, s) \/ CopyContext(f, g)
    PROVE  ScopeTypeOK'
<1>1. CASE Activate(f, s)
  BY <1>1 DEF ScopeTypeOK, Activate
<1>2. CASE Close(f, s)
  BY <1>2 DEF ScopeTypeOK, Close, AfterTraceEnded
<1>3. CASE CopyContext(f, g)
  BY <1>3 DEF ScopeTypeOK, CopyContext
<1> QED BY <1>1, <1>2, <1>3

(* What Push and Pop do to a stack.                                        *)
LEMMA PushStack ==
    ASSUME FrameTypeOK, NEW f \in Flow, NEW x \in Scope, NEW k \in Kind \cup {"block"},
           Push(f, x, k)
    PROVE  /\ stack' \in [Flow -> Seq(Scope)]
           /\ kind' \in [Scope -> Kind \cup {"block", "new"}]
           /\ Len(stack'[f]) = Len(stack[f]) + 1
           /\ stack'[f][Len(stack[f]) + 1] = x
           /\ \A i \in 1..Len(stack[f]) : stack'[f][i] = stack[f][i]
           /\ \A g \in Flow \ {f} : stack'[g] = stack[g]
           /\ kind'[x] = k
           /\ \A y \in Scope \ {x} : kind'[y] = kind[y]
<1>1. stack[f] \in Seq(Scope)
  BY DEF FrameTypeOK
<1>2. Append(stack[f], x) \in Seq(Scope)
  BY <1>1
<1>3. stack'[f] = Append(stack[f], x) /\ \A g \in Flow \ {f} : stack'[g] = stack[g]
  BY DEF FrameTypeOK, Push
<1>4. stack' \in [Flow -> Seq(Scope)]
  BY <1>2 DEF FrameTypeOK, Push
<1>5. /\ Len(stack'[f]) = Len(stack[f]) + 1
      /\ stack'[f][Len(stack[f]) + 1] = x
      /\ \A i \in 1..Len(stack[f]) : stack'[f][i] = stack[f][i]
  BY <1>1, <1>3, AppendProperties
<1>6. /\ kind' \in [Scope -> Kind \cup {"block", "new"}]
      /\ kind'[x] = k
      /\ \A y \in Scope \ {x} : kind'[y] = kind[y]
  BY DEF FrameTypeOK, Push
<1> QED BY <1>3, <1>4, <1>5, <1>6

LEMMA PopStack ==
    ASSUME FrameTypeOK, NEW f \in Flow, NEW x, Pop(f, x)
    PROVE  /\ stack' \in [Flow -> Seq(Scope)]
           /\ Len(stack[f]) \in Nat \ {0}
           /\ Len(stack'[f]) = Len(stack[f]) - 1
           /\ stack[f][Len(stack[f])] = x
           /\ x \in Scope
           /\ \A i \in 1..(Len(stack[f]) - 1) : stack'[f][i] = stack[f][i]
           /\ \A g \in Flow \ {f} : stack'[g] = stack[g]
<1>1. stack[f] \in Seq(Scope) /\ stack[f] # <<>>
  BY DEF FrameTypeOK, Pop
<1>2. Len(stack[f]) \in Nat /\ Len(stack[f]) # 0
  BY <1>1, EmptySeq, LenProperties
<1> DEFINE n == Len(stack[f]) - 1
           rest == SubSeq(stack[f], 1, n)
<1>3. n \in Nat /\ 1 \in 1..Len(stack[f])
  BY <1>2
<1>4. /\ rest \in Seq(Scope) /\ Len(rest) = n
      /\ \A i \in 1..n : rest[i] = stack[f][i]
  <2>1. \A i \in 1..n : stack[f][i] \in Scope
    BY <1>1, <1>2, ElementOfSeq
  <2>2. rest = [i \in 1..n |-> stack[f][i]]
    BY <1>1, <1>3
  <2> QED BY <1>3, <2>1, <2>2
<1>5. stack'[f] = rest /\ \A g \in Flow \ {f} : stack'[g] = stack[g]
  BY DEF FrameTypeOK, Pop
<1>6. stack' \in [Flow -> Seq(Scope)]
  BY <1>4 DEF FrameTypeOK, Pop
<1>7. stack[f][Len(stack[f])] = x
  BY DEF Pop
<1>8. x \in Scope
  BY <1>1, <1>2, <1>7, ElementOfSeq
<1> QED BY <1>2, <1>4, <1>5, <1>6, <1>7, <1>8

-----------------------------------------------------------------------------
(* Types                                                                   *)

LEMMA InitTyped == Init => TypeOK
<1> SUFFICES ASSUME Init PROVE TypeOK
  OBVIOUS
<1>1. ScopeTypeOK
  BY DEF Init, ScopeInit, ScopeTypeOK
<1>2. stack \in [Flow -> Seq(Scope)]
  BY EmptySeq DEF Init
<1>3. FrameTypeOK
  BY <1>2 DEF Init, FrameTypeOK, DefaultState
<1>4. TaskTypeOK
  BY DEF Init, TaskTypeOK
<1>5. HistoryTypeOK
  BY DEF Init, HistoryTypeOK
<1> QED BY <1>1, <1>3, <1>4, <1>5, TypeParts

LEMMA ApplicationTyped == TypeOK /\ Application => TypeOK'
<1> SUFFICES ASSUME TypeOK, Application PROVE TypeOK'
  OBVIOUS
<1> USE TypeParts
<1>1. ASSUME NEW f \in Flow, StartFlow(f) PROVE TypeOK'
  BY <1>1 DEF StartFlow, scopeVars, history, TypeOK, ScopeTypeOK
<1>2. ASSUME NEW f \in Flow, CloseInherited(f) PROVE TypeOK'
  <2>1. active[f] \in Scope
    BY <1>2, CallAssumption DEF CloseInherited
  <2>2. ScopeTypeOK'
    BY <1>2, <2>1, ScopesTyped DEF CloseInherited
  <2>3. HistoryTypeOK'
    BY <1>2, <2>1 DEF CloseInherited, HistoryTypeOK, ScopeTypeOK
  <2>4. FrameTypeOK' /\ TaskTypeOK'
    BY <1>2 DEF CloseInherited, callVars, FrameTypeOK, TaskTypeOK
  <2> QED BY <2>2, <2>3, <2>4
<1>3. ASSUME NEW f \in Flow, NEW g \in Flow, Fork(f, g) PROVE TypeOK'
  <2>1. ScopeTypeOK'
    BY <1>3 DEF Fork, CopyContext, ScopeTypeOK
  <2>2. HistoryTypeOK'
    BY <1>3 DEF Fork, HistoryTypeOK, ScopeTypeOK
  <2>3. FrameTypeOK' /\ TaskTypeOK'
    BY <1>3 DEF Fork, FrameTypeOK, TaskTypeOK
  <2> QED BY <2>1, <2>2, <2>3
<1>4. ASSUME NEW f \in Flow, NEW b \in Block, EnterBlock(f, b) PROVE TypeOK'
  <2>1. b \in Scope
    BY CallAssumption
  <2>2. ScopeTypeOK'
    BY <1>4, <2>1, ScopesTyped DEF EnterBlock
  <2>3. FrameTypeOK'
    BY <1>4, <2>1, PushStack DEF EnterBlock, FrameTypeOK
  <2>4. TaskTypeOK' /\ HistoryTypeOK'
    BY <1>4 DEF EnterBlock, history, TaskTypeOK, HistoryTypeOK
  <2> QED BY <2>2, <2>3, <2>4
<1>5. ASSUME NEW f \in Flow, NEW b \in Block, LeaveBlock(f, b) PROVE TypeOK'
  <2>1. b \in Scope
    BY CallAssumption
  <2>2. ScopeTypeOK'
    BY <1>5, <2>1, ScopesTyped DEF LeaveBlock
  <2>3. FrameTypeOK'
    BY <1>5, PopStack DEF LeaveBlock, FrameTypeOK
  <2>4. TaskTypeOK' /\ HistoryTypeOK'
    BY <1>5 DEF LeaveBlock, history, TaskTypeOK, HistoryTypeOK
  <2> QED BY <2>2, <2>3, <2>4
<1>6. ASSUME NEW c \in Call, TaskEnds(c) PROVE TypeOK'
  <2>1. TaskTypeOK'
    BY <1>6 DEF TaskEnds, TaskTypeOK
  <2>2. ScopeTypeOK' /\ FrameTypeOK' /\ HistoryTypeOK'
    BY <1>6 DEF TaskEnds, scopeVars, history, ScopeTypeOK, FrameTypeOK, HistoryTypeOK
  <2> QED BY <2>1, <2>2
<1> QED BY <1>1, <1>2, <1>3, <1>4, <1>5, <1>6 DEF Application

LEMMA BeginTyped ==
    ASSUME TypeOK, NEW f \in Flow, NEW c \in Call, BeginMethod(f, c)
    PROVE  TypeOK'
<1> USE TypeParts
<1>1. c \in Scope
  BY CallAssumption
<1>2. PICK k \in Kind : Push(f, c, k)
  BY DEF BeginMethod
<1>3. stack' \in [Flow -> Seq(Scope)] /\ kind' \in [Scope -> Kind \cup {"block", "new"}]
  BY <1>1, <1>2, PushStack
<1>4. ScopeTypeOK'
  <2>1. UNCHANGED scopeVars \/ Activate(f, c)
    BY DEF BeginMethod, BeginSkipped, BeginOpens, BeginOpensNothing, BeginThrows
  <2>2. CASE UNCHANGED scopeVars
    BY <2>2 DEF scopeVars, ScopeTypeOK
  <2> QED BY <1>1, <2>1, <2>2, ScopesTyped
<1>5. /\ state' \in [Call -> [previous : Scope \cup {NoScope}, scope : Scope \cup {NoScope}]]
      /\ disabled' \in BOOLEAN
      /\ threw' \subseteq Call
      /\ upset' \subseteq Flow
  <2>1. CASE BeginSkipped(f, c)
    BY <2>1 DEF BeginSkipped, FrameTypeOK, HistoryTypeOK
  <2>2. CASE BeginOpens(f, c)
    BY <1>1, <2>2 DEF BeginOpens, FrameTypeOK, HistoryTypeOK, ScopeTypeOK
  <2>3. CASE BeginOpensNothing(f, c)
    BY <1>1, <2>3 DEF BeginOpensNothing, FrameTypeOK, HistoryTypeOK, ScopeTypeOK
  <2>4. CASE BeginThrows(f, c)
    BY <2>4 DEF BeginThrows, scopeVars, FrameTypeOK, HistoryTypeOK
  <2> QED BY <2>1, <2>2, <2>3, <2>4 DEF BeginMethod
<1>6. UNCHANGED <<started, continuation, task, awaited, inherited>>
  BY DEF BeginMethod
<1> QED BY <1>3, <1>4, <1>5, <1>6 DEF FrameTypeOK, TaskTypeOK, HistoryTypeOK

LEMMA EndTyped ==
    ASSUME TypeOK, NEW f \in Flow, NEW c \in Call, EndMethod(f, c)
    PROVE  TypeOK'
<1> USE TypeParts
<1>1. c \in Scope
  BY CallAssumption
<1>2. stack' \in [Flow -> Seq(Scope)]
  BY PopStack DEF EndMethod
<1>3. PICK r \in Result(c) :
          \/ EndSkipped(f, c, r) \/ EndValue(f, c, r) \/ EndInPlace(f, c, r)
          \/ EndContinued(f, c, r) \/ EndThrows(f, c, r)
  BY DEF EndMethod
<1>4. r \in {"ok", "fault", "pending"}
  BY DEF Result
<1>5. EndHook(f, c) => ScopeTypeOK'
  <2>1. CASE UNCHANGED scopeVars
    BY <2>1 DEF scopeVars, ScopeTypeOK
  <2> QED BY <1>1, <2>1, ScopesTyped DEF EndHook
<1>6. ResultKept(c, r) =>
          /\ task' \in [Call -> {"none", "pending", "ok", "fault", "cancelled"}]
          /\ awaited' \in [Call -> {"none", "ok", "fault", "cancelled"}]
  BY <1>4 DEF ResultKept, TaskTypeOK
<1>7. /\ ScopeTypeOK' /\ TaskTypeOK' /\ disabled' \in BOOLEAN
      /\ threw' \subseteq Call /\ upset' \subseteq Flow
  <2>1. CASE EndSkipped(f, c, r)
    BY <1>6, <2>1 DEF EndSkipped, scopeVars, ScopeTypeOK, TaskTypeOK, FrameTypeOK, HistoryTypeOK
  <2>2. CASE EndValue(f, c, r)
    BY <1>5, <1>6, <2>2 DEF EndValue, TaskTypeOK, FrameTypeOK, HistoryTypeOK
  <2>3. CASE EndInPlace(f, c, r)
    <3>1. ScopeTypeOK'
      BY <1>1, <2>3 DEF EndInPlace, Restored, AfterTraceEnded, ScopeTypeOK, FrameTypeOK
    <3> QED BY <1>6, <2>3, <3>1 DEF EndInPlace, Misled, TaskTypeOK, FrameTypeOK, HistoryTypeOK
  <2>4. CASE EndContinued(f, c, r)
    <3>1. ScopeTypeOK'
      BY <2>4 DEF EndContinued, Restored, ScopeTypeOK, FrameTypeOK
    <3> QED BY <1>4, <2>4, <3>1 DEF EndContinued, Misled, TaskTypeOK, FrameTypeOK, HistoryTypeOK
  <2>5. CASE EndThrows(f, c, r)
    <3>1. ScopeTypeOK'
      BY <1>5, <2>5 DEF EndThrows, scopeVars, ScopeTypeOK
    <3>2. disabled' \in BOOLEAN /\ threw' \subseteq Call /\ upset' \subseteq Flow
      BY <2>5 DEF EndThrows, HistoryTypeOK
    <3>3. TaskTypeOK'
      BY <1>6, <2>5 DEF EndThrows, TaskTypeOK
    <3> QED BY <3>1, <3>2, <3>3
  <2> QED BY <1>3, <2>1, <2>2, <2>3, <2>4, <2>5
<1>8. UNCHANGED <<started, kind, state, inherited>>
  BY DEF EndMethod
<1> QED BY <1>2, <1>7, <1>8 DEF FrameTypeOK, HistoryTypeOK

LEMMA ContinueTyped ==
    ASSUME TypeOK, NEW c \in Call, Continue(c)
    PROVE  TypeOK'
<1> USE TypeParts
<1>1. /\ finished' \subseteq Scope
      /\ disabled' \in BOOLEAN
      /\ threw' \subseteq Call
  <2>1. AsyncHook(c) => /\ finished' \subseteq Scope
                        /\ disabled' \in BOOLEAN
                        /\ threw' \subseteq Call
    BY DEF AsyncHook, ScopeTypeOK, FrameTypeOK, HistoryTypeOK
  <2>2. NoHook => /\ finished' \subseteq Scope
                  /\ disabled' \in BOOLEAN
                  /\ threw' \subseteq Call
    BY DEF NoHook, ScopeTypeOK, FrameTypeOK, HistoryTypeOK
  <2> QED BY <2>1, <2>2 DEF Continue, TaskContinues, TaskOfResultContinues, ValueTaskContinues
<1>2. awaited' \in [Call -> {"none", "ok", "fault", "cancelled"}]
  <2>1. PICK o \in {"none", "ok", "fault", "cancelled"} : Sees(c, o)
    BY DEF Continue, TaskContinues, TaskOfResultContinues, ValueTaskContinues, TaskTypeOK
  <2> QED BY <2>1 DEF Sees, TaskTypeOK
<1>3. /\ continuation' = continuation \ {c}
      /\ UNCHANGED <<active, enricher, parent, started, stack, kind, state, task,
                     inherited, upset>>
  BY DEF Continue
<1> QED BY <1>1, <1>2, <1>3 DEF ScopeTypeOK, FrameTypeOK, TaskTypeOK, HistoryTypeOK

LEMMA StutterTyped == TypeOK /\ UNCHANGED vars => TypeOK'
BY DEF TypeOK, ScopeTypeOK, vars, scopeVars, callVars, history

LEMMA StepTyped == TypeOK /\ [Next]_vars => TypeOK'
BY ApplicationTyped, BeginTyped, EndTyped, ContinueTyped, StutterTyped DEF Next

(* The scopes, frames, tasks and histories keep their types, for any       *)
(* flows, calls and blocks.                                                *)
THEOREM TypeCorrect == Spec => []TypeOK
BY InitTyped, StepTyped, PTL DEF Spec

-----------------------------------------------------------------------------
(* One flow's frames                                                       *)

LEMMA StackLen ==
    ASSUME FrameTypeOK, NEW f \in Flow
    PROVE  /\ Len(stack[f]) \in Nat
           /\ \A i \in 1..Len(stack[f]) : stack[f][i] \in Scope
<1>1. stack[f] \in Seq(Scope)
  BY DEF FrameTypeOK
<1> QED BY <1>1, LenProperties, ElementOfSeq

(* There is one innermost scope.                                           *)
LEMMA UnderUnique ==
    ASSUME NEW f, NEW n \in Nat, NEW s, NEW t, Under(f, n, s), Under(f, n, t)
    PROVE  s = t
<1>1. CASE \A i \in 1..n : ~HasScope(stack[f][i])
  BY <1>1 DEF Under
<1>2. CASE ~ \A i \in 1..n : ~HasScope(stack[f][i])
  <2>1. PICK i \in 1..n : /\ stack[f][i] = s /\ HasScope(s)
                          /\ \A j \in (i + 1)..n : ~HasScope(stack[f][j])
    BY <1>2 DEF Under
  <2>2. PICK k \in 1..n : /\ stack[f][k] = t /\ HasScope(t)
                          /\ \A j \in (k + 1)..n : ~HasScope(stack[f][j])
    BY <1>2 DEF Under
  <2>3. ~(i < k) /\ ~(k < i)
    BY <2>1, <2>2
  <2> QED BY <2>1, <2>2, <2>3
<1> QED BY <1>1, <1>2

(* One frame more, or less.                                                *)
LEMMA UnderFrame ==
    ASSUME NEW f, NEW n \in Nat \ {0}, NEW s
    PROVE  /\ HasScope(stack[f][n]) => Under(f, n, stack[f][n])
           /\ ~HasScope(stack[f][n]) => (Under(f, n, s) <=> Under(f, n - 1, s))
<1>1. n \in 1..n /\ (n + 1)..n = {} /\ 1..(n - 1) \subseteq 1..n
  OBVIOUS
<1>2. HasScope(stack[f][n]) => Under(f, n, stack[f][n])
  BY <1>1 DEF Under
<1>3. ASSUME ~HasScope(stack[f][n]), Under(f, n, s) PROVE Under(f, n - 1, s)
  <2>1. CASE s = inherited[f] /\ \A i \in 1..n : ~HasScope(stack[f][i])
    BY <1>1, <2>1 DEF Under
  <2>2. ASSUME NEW i \in 1..n, stack[f][i] = s, HasScope(s),
               \A j \in (i + 1)..n : ~HasScope(stack[f][j])
        PROVE  Under(f, n - 1, s)
    <3>1. i \in 1..(n - 1)
      BY <1>3, <2>2
    <3>2. \A j \in (i + 1)..(n - 1) : ~HasScope(stack[f][j])
      BY <2>2
    <3> QED BY <2>2, <3>1, <3>2 DEF Under
  <2> QED BY <1>3, <2>1, <2>2 DEF Under
<1>4. ASSUME ~HasScope(stack[f][n]), Under(f, n - 1, s) PROVE Under(f, n, s)
  <2>0. \A j \in 1..n : j # n => j \in 1..(n - 1)
    OBVIOUS
  <2>1. CASE s = inherited[f] /\ \A i \in 1..(n - 1) : ~HasScope(stack[f][i])
    BY <1>4, <2>0, <2>1 DEF Under
  <2>2. ASSUME NEW i \in 1..(n - 1), stack[f][i] = s, HasScope(s),
               \A j \in (i + 1)..(n - 1) : ~HasScope(stack[f][j])
        PROVE  Under(f, n, s)
    <3>1. \A j \in (i + 1)..n : ~HasScope(stack[f][j])
      <4>1. \A j \in (i + 1)..n : j # n => j \in (i + 1)..(n - 1)
        OBVIOUS
      <4> QED BY <1>4, <2>2, <4>1
    <3> QED BY <1>1, <2>2, <3>1 DEF Under
  <2> QED BY <1>4, <2>1, <2>2 DEF Under
<1> QED BY <1>2, <1>3, <1>4

(* The scope under n frames depends on these frames only.                  *)
LEMMA UnderStable ==
    ASSUME NEW f, NEW n \in Nat, NEW s,
           \A i \in 1..n : stack'[f][i] = stack[f][i],
           \A i \in 1..n : /\ kind'[stack[f][i]] = kind[stack[f][i]]
                           /\ stack[f][i] \in Call => state'[stack[f][i]] = state[stack[f][i]],
           inherited'[f] = inherited[f]
    PROVE  Under(f, n, s) => Under(f, n, s)'
<1> DEFINE Has(i) == HasScope(stack[f][i])
<1>1. \A i \in 1..n : Has(i)' <=> Has(i)
  BY DEF HasScope
<1>2. ASSUME NEW i \in 1..n, stack[f][i] = s, HasScope(s),
             \A j \in (i + 1)..n : ~HasScope(stack[f][j])
      PROVE  Under(f, n, s)'
  <2>1. stack'[f][i] = s /\ HasScope(s)'
    BY <1>2 DEF HasScope
  <2>2. \A j \in (i + 1)..n : j \in 1..n
    OBVIOUS
  <2>3. \A j \in (i + 1)..n : ~Has(j)'
    BY <1>1, <1>2, <2>2
  <2> QED BY <2>1, <2>3 DEF Under
<1>3. ASSUME s = inherited[f], \A i \in 1..n : ~HasScope(stack[f][i])
      PROVE  Under(f, n, s)'
  <2>1. \A i \in 1..n : ~Has(i)'
    BY <1>1, <1>3
  <2> QED BY <1>3, <2>1 DEF Under
<1> QED BY <1>2, <1>3 DEF Under

(* A step leaves the first n frames of f as they are.                      *)
FramesKept(f, n) ==
    /\ \A i \in 1..n :
          /\ stack'[f][i] = stack[f][i]
          /\ kind'[stack[f][i]] = kind[stack[f][i]]
          /\ parent'[stack[f][i]] = parent[stack[f][i]]
          /\ stack[f][i] \in Call => state'[stack[f][i]] = state[stack[f][i]]
    /\ inherited'[f] = inherited[f]
    /\ threw \subseteq threw'
    /\ disabled => disabled'

LEMMA FrameStable ==
    ASSUME NEW f, NEW n \in Nat, FramesKept(f, n), NEW i \in 1..n, FrameKept(f, i)
    PROVE  FrameKept(f, i)'
<1> DEFINE x == stack[f][i]
<1>1. x' = x /\ kind'[x] = kind[x] /\ parent'[x] = parent[x]
  BY DEF FramesKept
<1>2. x \in Call => state'[x] = state[x]
  BY DEF FramesKept
<1>3. i - 1 \in Nat /\ \A j \in 1..(i - 1) : j \in 1..n
  OBVIOUS
<1>4. ASSUME NEW s, Under(f, i - 1, s) PROVE Under(f, i - 1, s)'
  <2>1. \A j \in 1..(i - 1) :
            /\ stack'[f][j] = stack[f][j]
            /\ kind'[stack[f][j]] = kind[stack[f][j]]
            /\ stack[f][j] \in Call => state'[stack[f][j]] = state[stack[f][j]]
    BY <1>3 DEF FramesKept
  <2>2. inherited'[f] = inherited[f]
    BY DEF FramesKept
  <2> QED BY <1>3, <1>4, <2>1, <2>2, UnderStable
<1>5. ASSUME HasScope(x)' PROVE Under(f, i - 1, parent[x])'
  <2>1. HasScope(x)
    BY <1>1, <1>2, <1>5 DEF HasScope
  <2>2. PICK s : s = parent[x]
    OBVIOUS
  <2>3. Under(f, i - 1, s)
    BY <2>1, <2>2 DEF FrameKept
  <2>4. Under(f, i - 1, s)' /\ parent'[x'] = s
    BY <1>1, <1>4, <2>2, <2>3
  <2> QED BY <2>4
<1>6. ASSUME x \in Call PROVE disabled' \/ x \in threw' \/ Under(f, i - 1, state[x].previous)'
  <2>1. PICK s : s = state[x].previous
    OBVIOUS
  <2>2. CASE Under(f, i - 1, s)
    <3>1. Under(f, i - 1, s)' /\ state'[x'].previous = s
      BY <1>1, <1>2, <1>4, <1>6, <2>1, <2>2
    <3> QED BY <3>1
  <2>3. CASE disabled \/ x \in threw
    BY <2>3 DEF FramesKept
  <2> QED BY <1>6, <2>1, <2>2, <2>3 DEF FrameKept
<1> QED BY <1>1, <1>5, <1>6 DEF FrameKept

LEMMA UnderKept ==
    ASSUME NEW f, NEW n \in Nat, FramesKept(f, n), NEW s, Under(f, n, s)
    PROVE  Under(f, n, s)'
BY UnderStable DEF FramesKept

(* A flow that the step is not about.                                      *)
LEMMA FlowStable ==
    ASSUME FrameTypeOK, NEW f \in Flow, FlowKept(f), FramesKept(f, Len(stack[f])),
           stack'[f] = stack[f], active'[f] = active[f],
           f \in enricher => f \in enricher'
    PROVE  FlowKept(f)'
<1>1. PICK n : n = Len(stack[f])
  OBVIOUS
<1>2. n \in Nat /\ Len(stack'[f]) = n
  BY <1>1, StackLen
<1>3. \A i \in 1..n : FrameKept(f, i)'
  BY <1>1, <1>2, FrameStable DEF FlowKept
<1>4. PICK s : s = active[f]
  OBVIOUS
<1>5. Under(f, n, s)
  BY <1>1, <1>4 DEF FlowKept
<1>6. Under(f, n, s)'
  BY <1>1, <1>2, <1>5, UnderKept
<1> QED BY <1>2, <1>3, <1>4, <1>6 DEF FlowKept

(* What the innermost frame of a flow holds.                               *)
LEMMA TopFrame ==
    ASSUME FrameTypeOK, NEW f \in Flow, FlowKept(f),
           NEW n \in Nat \ {0}, n = Len(stack[f]), NEW x, x = stack[f][n]
    PROVE  /\ HasScope(x) => /\ active[f] = x /\ x # NoScope /\ f \in enricher
                             /\ Under(f, n - 1, parent[x])
           /\ ~HasScope(x) => Under(f, n - 1, active[f])
           /\ x \in Call => disabled \/ x \in threw \/ Under(f, n - 1, state[x].previous)
<1>1. FrameKept(f, n) /\ x \in Scope
  BY StackLen DEF FlowKept
<1>2. PICK s : s = active[f]
  OBVIOUS
<1>3. Under(f, n, s)
  BY <1>2 DEF FlowKept
<1>4. ASSUME HasScope(x) PROVE s = x
  BY <1>3, <1>4, UnderFrame, UnderUnique
<1>5. ASSUME HasScope(x) PROVE x # NoScope /\ f \in enricher
  BY <1>1, <1>2, <1>4, <1>5, ScopeAssumption DEF FlowKept
<1>6. ASSUME ~HasScope(x) PROVE Under(f, n - 1, s)
  BY <1>3, <1>6, UnderFrame
<1> QED BY <1>1, <1>2, <1>4, <1>5, <1>6 DEF FrameKept

LEMMA FlowPop ==
    ASSUME FrameTypeOK, NEW f \in Flow, FlowKept(f),
           NEW n \in Nat \ {0}, n = Len(stack[f]), Len(stack'[f]) = n - 1,
           FramesKept(f, n - 1),
           NEW s, s = active'[f], Under(f, n - 1, s),
           s # NoScope => f \in enricher'
    PROVE  FlowKept(f)'
<1>1. n - 1 \in Nat /\ \A i \in 1..(n - 1) : i \in 1..n
  OBVIOUS
<1>2. \A i \in 1..(n - 1) : FrameKept(f, i)'
  BY <1>1, FrameStable DEF FlowKept
<1>3. Under(f, n - 1, s)'
  BY <1>1, UnderKept
<1> QED BY <1>2, <1>3 DEF FlowKept

LEMMA FlowPush ==
    ASSUME FrameTypeOK, NEW f \in Flow, FlowKept(f),
           NEW n \in Nat, n = Len(stack[f]), Len(stack'[f]) = n + 1,
           FramesKept(f, n),
           NEW x, x = stack'[f][n + 1],
           \/ HasScope(x)' /\ active'[f] = x /\ parent'[x] = active[f] /\ f \in enricher'
           \/ ~HasScope(x)' /\ active'[f] = active[f] /\ (f \in enricher => f \in enricher'),
           x \in Call => disabled' \/ x \in threw' \/ state'[x].previous = active[f]
    PROVE  FlowKept(f)'
<1>1. \A i \in 1..n : FrameKept(f, i)'
  BY FrameStable DEF FlowKept
<1>2. PICK s : s = active[f]
  OBVIOUS
<1>3. Under(f, n, s)'
  BY <1>2, UnderKept DEF FlowKept
<1>4. n + 1 \in Nat \ {0} /\ (n + 1) - 1 = n
  OBVIOUS
<1>5. FrameKept(f, n + 1)'
  <2>1. HasScope(x)' => Under(f, n, parent[x])'
    BY <1>2, <1>3
  <2>2. x \in Call => disabled' \/ x \in threw' \/ Under(f, n, state[x].previous)'
    BY <1>2, <1>3
  <2> QED BY <1>4, <2>1, <2>2 DEF FrameKept
<1>6. PICK t : t = active'[f]
  OBVIOUS
<1>7. Under(f, n + 1, t)'
  <2>1. n + 1 \in 1..(n + 1) /\ (n + 2)..(n + 1) = {}
    OBVIOUS
  <2>2. \A j \in 1..(n + 1) : j # n + 1 => j \in 1..n
    OBVIOUS
  <2>3. CASE HasScope(x)' /\ t = x
    BY <2>1, <2>3 DEF Under
  <2>4. CASE ~HasScope(x)' /\ t = s
    <3>1. CASE s = inherited'[f] /\ \A i \in 1..n : ~HasScope(stack[f][i])'
      BY <2>2, <2>4, <3>1 DEF Under
    <3>2. ASSUME NEW i \in 1..n, stack'[f][i] = s, HasScope(s)',
                 \A j \in (i + 1)..n : ~HasScope(stack[f][j])'
          PROVE  Under(f, n + 1, s)'
      <4>1. \A j \in (i + 1)..(n + 1) : j # n + 1 => j \in (i + 1)..n
        OBVIOUS
      <4>2. \A j \in (i + 1)..(n + 1) : ~HasScope(stack[f][j])'
        BY <2>4, <3>2, <4>1
      <4>3. i \in 1..(n + 1)
        OBVIOUS
      <4> QED BY <3>2, <4>2, <4>3 DEF Under
    <3> QED BY <1>3, <2>4, <3>1, <3>2 DEF Under
  <2> QED BY <1>2, <1>6, <2>3, <2>4
<1>8. \A i \in 1..(n + 1) : i # n + 1 => i \in 1..n
  OBVIOUS
<1> QED BY <1>1, <1>5, <1>6, <1>7, <1>8 DEF FlowKept

-----------------------------------------------------------------------------
(* Steps that push or pop a frame                                          *)

LEMMA PushOnce ==
    ASSUME FrameTypeOK, OncePushed, NEW f \in Flow, NEW x \in Scope,
           NEW k \in Kind \cup {"block"}, Push(f, x, k), started' = started
    PROVE  /\ OncePushed'
           /\ ~OnStack(x)
           /\ \A y : OnStack(y)' => OnStack(y) \/ y = x
<1> DEFINE n == Len(stack[f])
<1>1. n \in Nat /\ \A g \in Flow : Len(stack[g]) \in Nat
  BY StackLen
<1>2. /\ Len(stack'[f]) = n + 1
      /\ stack'[f][n + 1] = x
      /\ \A i \in 1..n : stack'[f][i] = stack[f][i]
      /\ \A g \in Flow \ {f} : stack'[g] = stack[g]
      /\ kind'[x] = k
      /\ \A y \in Scope \ {x} : kind'[y] = kind[y]
  BY PushStack
<1>3. ~OnStack(x) /\ f \in started
  BY DEF OncePushed, Push
<1>4. k # "new"
  BY DEF Kind
<1>5. \A i \in 1..(n + 1) : i = n + 1 \/ i \in 1..n
  BY <1>1
<1>6. \A g \in Flow : \A i \in 1..Len(stack'[g]) :
          \/ i \in 1..Len(stack[g]) /\ stack'[g][i] = stack[g][i] /\ stack[g][i] # x
          \/ g = f /\ i = n + 1 /\ stack'[g][i] = x
  BY <1>2, <1>3, <1>5 DEF OnStack
<1>7. \A y : OnStack(y)' => OnStack(y) \/ y = x
  BY <1>6 DEF OnStack
<1>8. \A g, h \in Flow : \A i \in 1..Len(stack'[g]), j \in 1..Len(stack'[h]) :
          stack'[g][i] = stack'[h][j] => g = h /\ i = j
  <2> SUFFICES ASSUME NEW g \in Flow, NEW h \in Flow, NEW i \in 1..Len(stack'[g]),
                      NEW j \in 1..Len(stack'[h]), stack'[g][i] = stack'[h][j]
               PROVE  g = h /\ i = j
    OBVIOUS
  <2>1. \/ /\ i \in 1..Len(stack[g]) /\ j \in 1..Len(stack[h])
           /\ stack[g][i] = stack[h][j]
        \/ g = f /\ i = n + 1 /\ h = f /\ j = n + 1
    BY <1>6
  <2> QED
    BY <2>1 DEF OncePushed
<1>9. \A y \in Scope : kind'[y] = "new" => ~OnStack(y)'
  BY <1>2, <1>4, <1>7 DEF OncePushed
<1>10. \A g \in Flow \ started : stack'[g] = <<>>
  BY <1>2, <1>3 DEF OncePushed
<1> QED BY <1>3, <1>7, <1>8, <1>9, <1>10 DEF OncePushed

LEMMA PopOnce ==
    ASSUME FrameTypeOK, OncePushed, NEW f \in Flow, NEW x, Pop(f, x),
           kind' = kind, started' = started
    PROVE  /\ OncePushed'
           /\ OnStack(x)
           /\ \A y : OnStack(y)' => OnStack(y) /\ y # x
<1> DEFINE n == Len(stack[f])
<1>1. n \in Nat \ {0} /\ \A g \in Flow : Len(stack[g]) \in Nat
  BY StackLen, PopStack
<1>2. /\ Len(stack'[f]) = n - 1
      /\ stack[f][n] = x
      /\ \A i \in 1..(n - 1) : stack'[f][i] = stack[f][i]
      /\ \A g \in Flow \ {f} : stack'[g] = stack[g]
  BY PopStack
<1>3. n \in 1..n /\ \A i \in 1..(n - 1) : i \in 1..n /\ i # n
  BY <1>1
<1>4. \A g \in Flow : \A i \in 1..Len(stack'[g]) :
          /\ i \in 1..Len(stack[g])
          /\ stack'[g][i] = stack[g][i]
          /\ ~(g = f /\ i = n)
  BY <1>2, <1>3
<1>5. OnStack(x)
  BY <1>2, <1>3 DEF OnStack
<1>6. \A g, h \in Flow : \A i \in 1..Len(stack'[g]), j \in 1..Len(stack'[h]) :
          stack'[g][i] = stack'[h][j] => g = h /\ i = j
  BY <1>4 DEF OncePushed
<1>7. \A g \in Flow : \A i \in 1..Len(stack'[g]) : stack'[g][i] # x
  <2> SUFFICES ASSUME NEW g \in Flow, NEW i \in 1..Len(stack'[g])
               PROVE  stack[g][i] # stack[f][n]
    BY <1>2, <1>4
  <2>1. i \in 1..Len(stack[g]) /\ ~(g = f /\ i = n)
    BY <1>4
  <2>2. \A j \in 1..Len(stack[f]) : stack[g][i] = stack[f][j] => g = f /\ i = j
    BY <2>1 DEF OncePushed
  <2> QED BY <1>3, <2>1, <2>2
<1>8. \A y : OnStack(y)' => OnStack(y) /\ y # x
  BY <1>4, <1>7 DEF OnStack
<1>9. \A g \in Flow \ started : stack'[g] = <<>>
  <2>1. stack[f] # <<>>
    BY DEF Pop
  <2> QED BY <1>2, <2>1 DEF OncePushed
<1> QED BY <1>5, <1>6, <1>8, <1>9 DEF OncePushed

(* What changes of kind, parent and state is of a frame that is pushed.    *)
LEMMA FramesKeptBesides ==
    ASSUME FrameTypeOK, NEW g \in Flow, NEW n \in Nat, n <= Len(stack[g]),
           NEW x, ~OnStack(x),
           \A i \in 1..n : stack'[g][i] = stack[g][i],
           \A y \in Scope \ {x} : kind'[y] = kind[y] /\ parent'[y] = parent[y],
           \A y \in Call \ {x} : state'[y] = state[y],
           inherited'[g] = inherited[g],
           threw \subseteq threw', disabled => disabled'
    PROVE  FramesKept(g, n)
<1> SUFFICES ASSUME NEW i \in 1..n
             PROVE  /\ stack[g][i] \in Scope
                    /\ stack[g][i] # x
  BY DEF FramesKept
<1>1. i \in 1..Len(stack[g])
  BY StackLen
<1> QED BY <1>1, StackLen DEF OnStack

LEMMA FramesKeptAll ==
    ASSUME NEW g \in Flow, NEW n \in Nat,
           \A i \in 1..n : stack'[g][i] = stack[g][i],
           kind' = kind, parent' = parent, state' = state,
           inherited'[g] = inherited[g],
           threw \subseteq threw', disabled => disabled'
    PROVE  FramesKept(g, n)
BY DEF FramesKept

Context == \A f \in started \ upset : FlowKept(f)

LEMMA BeginContext ==
    ASSUME TypeOK, OncePushed, Context, NEW f \in Flow, NEW c \in Call,
           CallLife(c), BeginMethod(f, c)
    PROVE  Context'
<1> USE TypeParts
<1>1. c \in Scope
  BY CallAssumption
<1>2. PICK k \in Kind : Push(f, c, k)
  BY DEF BeginMethod
<1>3. /\ UNCHANGED <<started, inherited>>
      /\ upset \subseteq upset' /\ threw \subseteq threw'
      /\ disabled => disabled'
      /\ \A y \in Call \ {c} : state'[y] = state[y]
  <2>1. UNCHANGED <<started, inherited>>
    BY DEF BeginMethod
  <2>2. CASE BeginSkipped(f, c)
    BY <2>1, <2>2 DEF BeginSkipped
  <2>3. CASE BeginOpens(f, c)
    BY <2>1, <2>3 DEF BeginOpens, FrameTypeOK
  <2>4. CASE BeginOpensNothing(f, c)
    BY <2>1, <2>4 DEF BeginOpensNothing, FrameTypeOK
  <2>5. CASE BeginThrows(f, c)
    BY <2>1, <2>5 DEF BeginThrows
  <2> QED BY <2>2, <2>3, <2>4, <2>5 DEF BeginMethod
<1>4. UNCHANGED scopeVars \/ Activate(f, c)
  BY DEF BeginMethod, BeginSkipped, BeginOpens, BeginOpensNothing, BeginThrows
<1>5. /\ \A y \in Scope \ {c} : parent'[y] = parent[y]
      /\ \A g \in Flow \ {f} : active'[g] = active[g]
      /\ enricher \subseteq enricher'
  BY <1>4 DEF scopeVars, Activate, ScopeTypeOK
<1>6. ~OnStack(c)
  BY <1>1, <1>2, <1>3, PushOnce
<1>7. /\ Len(stack'[f]) = Len(stack[f]) + 1
      /\ stack'[f][Len(stack[f]) + 1] = c
      /\ \A i \in 1..Len(stack[f]) : stack'[f][i] = stack[f][i]
      /\ \A g \in Flow \ {f} : stack'[g] = stack[g]
      /\ kind'[c] = k
      /\ \A y \in Scope \ {c} : kind'[y] = kind[y]
  BY <1>1, <1>2, PushStack
<1>8. ASSUME NEW g \in Flow PROVE FramesKept(g, Len(stack[g]))
  <2>1. \A i \in 1..Len(stack[g]) : stack'[g][i] = stack[g][i]
    BY <1>7
  <2>2. Len(stack[g]) \in Nat
    BY StackLen
  <2> QED BY <1>3, <1>5, <1>6, <1>7, <2>1, <2>2, FramesKeptBesides
<1>9. ASSUME NEW g \in started \ upset, g # f PROVE FlowKept(g)'
  <2>1. g \in Flow /\ FlowKept(g)
    BY <1>9 DEF Context, FrameTypeOK
  <2> QED BY <1>5, <1>7, <1>8, <1>9, <2>1, FlowStable
<1>10. ASSUME f \in started \ upset, f \notin upset' PROVE FlowKept(f)'
  <2>1. FlowKept(f) /\ Len(stack[f]) \in Nat
    BY <1>10, StackLen DEF Context
  <2>2. k # "block"
    BY DEF Kind
  <2>3. kind[c] = "new" /\ state[c].scope = NoScope
    BY <1>2 DEF Push, CallLife
  <2>4. c # NoScope
    BY <1>1, ScopeAssumption
  <2>5. \/ HasScope(c)' /\ active'[f] = c /\ parent'[c] = active[f] /\ f \in enricher'
        \/ ~HasScope(c)' /\ active'[f] = active[f] /\ (f \in enricher => f \in enricher')
    <3>1. CASE BeginOpens(f, c)
      <4>1. state'[c].scope = c
        BY <3>1 DEF BeginOpens, FrameTypeOK
      <4>2. active'[f] = c /\ parent'[c] = active[f] /\ f \in enricher'
        BY <1>1, <2>1, <3>1 DEF BeginOpens, Activate, ScopeTypeOK, FlowKept
      <4> QED BY <4>1, <4>2 DEF HasScope
    <3>2. CASE ~BeginOpens(f, c)
      <4>1. UNCHANGED scopeVars /\ state'[c].scope = NoScope
        BY <1>10, <2>3, <3>2 DEF BeginMethod, BeginSkipped, BeginOpensNothing, BeginThrows,
           FrameTypeOK
      <4> QED BY <1>7, <2>2, <2>4, <4>1 DEF HasScope, scopeVars
    <3> QED BY <3>1, <3>2
  <2>6. disabled' \/ c \in threw' \/ state'[c].previous = active[f]
    <3>1. CASE BeginSkipped(f, c)
      BY <3>1 DEF BeginSkipped
    <3>2. CASE BeginOpens(f, c)
      BY <3>2 DEF BeginOpens, FrameTypeOK
    <3>3. CASE BeginOpensNothing(f, c)
      BY <3>3 DEF BeginOpensNothing, FrameTypeOK
    <3>4. CASE BeginThrows(f, c)
      BY <3>4 DEF BeginThrows
    <3> QED BY <3>1, <3>2, <3>3, <3>4 DEF BeginMethod
  <2> QED BY <1>7, <1>8, <2>1, <2>5, <2>6, FlowPush
<1> QED BY <1>3, <1>9, <1>10 DEF Context

(* A flow leaves its innermost frame x, with a scope that was under it.    *)
LEMMA PopContext ==
    ASSUME TypeOK, OncePushed, Context, NEW f \in Flow, NEW x, Pop(f, x),
           UNCHANGED <<started, kind, parent, state, inherited>>,
           upset \subseteq upset', threw \subseteq threw', disabled => disabled',
           \A g \in Flow \ {f} : active'[g] = active[g] /\ (g \in enricher => g \in enricher'),
           f \in started \ upset /\ f \notin upset' =>
               /\ Under(f, Len(stack[f]) - 1, active'[f])
               /\ active'[f] # NoScope => f \in enricher'
    PROVE  Context'
<1> USE TypeParts
<1>1. /\ Len(stack[f]) \in Nat \ {0}
      /\ Len(stack'[f]) = Len(stack[f]) - 1
      /\ \A i \in 1..(Len(stack[f]) - 1) : stack'[f][i] = stack[f][i]
      /\ \A g \in Flow \ {f} : stack'[g] = stack[g]
  BY PopStack
<1>2. ASSUME NEW g \in started \ upset, g # f PROVE FlowKept(g)'
  <2>1. g \in Flow /\ FlowKept(g) /\ Len(stack[g]) \in Nat
    BY <1>2, StackLen DEF Context, FrameTypeOK
  <2>2. FramesKept(g, Len(stack[g]))
    BY <1>1, <1>2, <2>1, FramesKeptAll
  <2> QED BY <1>1, <1>2, <2>1, <2>2, FlowStable
<1>3. ASSUME f \in started \ upset, f \notin upset' PROVE FlowKept(f)'
  <2>1. FlowKept(f)
    BY <1>3 DEF Context
  <2>2. PICK n \in Nat \ {0} : n = Len(stack[f])
    BY <1>1
  <2>3. FramesKept(f, n - 1)
    BY <1>1, <2>2, FramesKeptAll
  <2>4. PICK s : s = active'[f]
    OBVIOUS
  <2> QED BY <1>1, <1>3, <2>1, <2>2, <2>3, <2>4, FlowPop
<1> QED BY <1>2, <1>3 DEF Context

(* Closing the scope of the innermost frame uncovers what is under it.     *)
LEMMA CloseUncovers ==
    ASSUME TypeOK, NEW f \in Flow, FlowKept(f), NEW x \in Scope, Pop(f, x),
           HasScope(x), Close(f, x)
    PROVE  /\ Under(f, Len(stack[f]) - 1, active'[f])
           /\ active'[f] # NoScope => f \in enricher'
<1> USE TypeParts
<1>1. Len(stack[f]) \in Nat \ {0} /\ x = stack[f][Len(stack[f])]
  BY PopStack
<1>2. PICK n \in Nat \ {0} : n = Len(stack[f])
  BY <1>1
<1>3. active[f] = x /\ f \in enricher /\ Under(f, n - 1, parent[x])
  BY <1>1, <1>2, TopFrame
<1>4. active'[f] = parent[x]
  BY <1>3 DEF Close, ScopeTypeOK
<1>5. active'[f] # NoScope => f \in enricher'
  BY <1>3, <1>4 DEF Close, AfterTraceEnded, EndsTrace
<1> QED BY <1>2, <1>3, <1>4, <1>5

LEMMA CloseElsewhere ==
    ASSUME ScopeTypeOK, NEW f \in Flow, NEW x, Close(f, x), NEW g \in Flow \ {f}
    PROVE  active'[g] = active[g] /\ (g \in enricher => g \in enricher')
BY DEF ScopeTypeOK, Close, AfterTraceEnded

LEMMA EndContext ==
    ASSUME TypeOK, OncePushed, Context, NEW f \in Flow, NEW c \in Call,
           CallLife(c), EndMethod(f, c)
    PROVE  Context'
<1> USE TypeParts
<1>1. c \in Scope /\ c # NoScope
  BY CallAssumption, ScopeAssumption
<1>2. Pop(f, c) /\ UNCHANGED <<started, kind, state, inherited>>
  BY DEF EndMethod
<1>3. PICK r \in Result(c) :
          \/ EndSkipped(f, c, r) \/ EndValue(f, c, r) \/ EndInPlace(f, c, r)
          \/ EndContinued(f, c, r) \/ EndThrows(f, c, r)
  BY DEF EndMethod
<1>4. /\ parent' = parent
      /\ upset \subseteq upset' /\ threw \subseteq threw' /\ (disabled => disabled')
  <2>1. CASE EndSkipped(f, c, r)
    BY <2>1 DEF EndSkipped, scopeVars
  <2>2. CASE EndValue(f, c, r)
    BY <2>2 DEF EndValue, EndHook, Close, scopeVars
  <2>3. CASE EndInPlace(f, c, r)
    BY <2>3 DEF EndInPlace, Misled
  <2>4. CASE EndContinued(f, c, r)
    BY <2>4 DEF EndContinued, Misled
  <2>5. CASE EndThrows(f, c, r)
    BY <2>5 DEF EndThrows, EndHook, Close, scopeVars
  <2> QED BY <1>3, <2>1, <2>2, <2>3, <2>4, <2>5
<1>5. ASSUME NEW g \in Flow \ {f}
      PROVE  active'[g] = active[g] /\ (g \in enricher => g \in enricher')
  <2>1. EndHook(f, c) => active'[g] = active[g] /\ (g \in enricher => g \in enricher')
    BY CloseElsewhere DEF EndHook, scopeVars
  <2>2. CASE EndSkipped(f, c, r)
    BY <2>2 DEF EndSkipped, scopeVars
  <2>3. CASE EndValue(f, c, r)
    BY <2>1, <2>3 DEF EndValue
  <2>4. CASE EndInPlace(f, c, r)
    BY <2>4 DEF EndInPlace, AfterTraceEnded, ScopeTypeOK
  <2>5. CASE EndContinued(f, c, r)
    BY <2>5 DEF EndContinued, ScopeTypeOK
  <2>6. CASE EndThrows(f, c, r)
    BY <2>1, <2>6 DEF EndThrows, scopeVars
  <2> QED BY <1>3, <2>2, <2>3, <2>4, <2>5, <2>6
<1>6. ASSUME f \in started \ upset, f \notin upset'
      PROVE  /\ Under(f, Len(stack[f]) - 1, active'[f])
             /\ active'[f] # NoScope => f \in enricher'
  <2>1. FlowKept(f)
    BY <1>6 DEF Context
  <2>2. Len(stack[f]) \in Nat \ {0} /\ c = stack[f][Len(stack[f])]
    BY <1>2, PopStack
  <2>3. PICK n \in Nat \ {0} : n = Len(stack[f])
    BY <2>2
  <2>4. HasScope(c) <=> state[c].scope # NoScope
    BY <1>1 DEF HasScope, CallLife
  <2>5. /\ HasScope(c) => active[f] = c /\ f \in enricher /\ Under(f, n - 1, parent[c])
        /\ ~HasScope(c) => Under(f, n - 1, active[f])
        /\ disabled \/ c \in threw \/ Under(f, n - 1, state[c].previous)
    BY <2>1, <2>2, <2>3, TopFrame
  <2>6. active[f] # NoScope => f \in enricher
    BY <2>1 DEF FlowKept
  <2>7. ASSUME UNCHANGED scopeVars, state[c].scope = NoScope
        PROVE  /\ Under(f, Len(stack[f]) - 1, active'[f])
               /\ active'[f] # NoScope => f \in enricher'
    BY <2>3, <2>4, <2>5, <2>6, <2>7 DEF scopeVars
  <2>8. ASSUME EndHook(f, c)
        PROVE  /\ Under(f, Len(stack[f]) - 1, active'[f])
               /\ active'[f] # NoScope => f \in enricher'
    <3>1. CASE state[c].scope = NoScope
      BY <2>7, <2>8, <3>1 DEF EndHook
    <3>2. CASE state[c].scope # NoScope
      BY <1>1, <1>2, <2>1, <2>4, <2>8, <3>2, CloseUncovers DEF EndHook
    <3> QED BY <3>1, <3>2
  <2>9. ASSUME ~disabled, c \notin threw, active'[f] = state[c].previous,
               \/ enricher' = enricher
               \/ enricher' = AfterTraceEnded(f, c) /\ state[c].scope # NoScope
        PROVE  /\ Under(f, Len(stack[f]) - 1, active'[f])
               /\ active'[f] # NoScope => f \in enricher'
    <3>1. PICK s : s = state[c].previous
      OBVIOUS
    <3>2. Under(f, n - 1, s) /\ n - 1 \in Nat
      BY <2>5, <2>9, <3>1
    <3>3. CASE HasScope(c)
      <4>1. parent[c] = s
        BY <2>5, <3>2, <3>3, UnderUnique
      <4> QED BY <2>3, <2>5, <2>9, <3>1, <3>2, <3>3, <4>1 DEF AfterTraceEnded, EndsTrace
    <3>4. CASE ~HasScope(c)
      <4>1. active[f] = s
        BY <2>5, <3>2, <3>4, UnderUnique
      <4> QED BY <2>3, <2>4, <2>6, <2>9, <3>1, <3>2, <3>4, <4>1
    <3> QED BY <3>3, <3>4
  <2>10. active \in [Flow -> Scope \cup {NoScope}]
    BY DEF ScopeTypeOK
  <2>11. CASE EndSkipped(f, c, r)
    BY <1>6, <2>7, <2>11 DEF EndSkipped
  <2>12. CASE EndValue(f, c, r)
    BY <2>8, <2>12 DEF EndValue
  <2>13. CASE EndInPlace(f, c, r)
    BY <1>6, <2>9, <2>10, <2>13 DEF EndInPlace, Misled, Restored
  <2>14. CASE EndContinued(f, c, r)
    BY <1>6, <2>9, <2>10, <2>14 DEF EndContinued, Misled, Restored
  <2>15. CASE EndThrows(f, c, r)
    BY <1>6, <2>7, <2>8, <2>15 DEF EndThrows
  <2> QED BY <1>3, <2>11, <2>12, <2>13, <2>14, <2>15
<1> QED BY <1>2, <1>4, <1>5, <1>6, PopContext

LEMMA BlockContext ==
    ASSUME TypeOK, OncePushed, Context, NEW f \in Flow, NEW b \in Block,
           EnterBlock(f, b) \/ (kind[b] = "block" /\ LeaveBlock(f, b))
    PROVE  Context'
<1> USE TypeParts
<1>1. b \in Scope /\ b \notin Call
  BY CallAssumption
<1>2. CASE kind[b] = "block" /\ LeaveBlock(f, b)
  <2>1. /\ Pop(f, b) /\ Close(f, b)
        /\ UNCHANGED <<started, kind, parent, state, inherited, upset, threw, disabled>>
    BY <1>2 DEF LeaveBlock, Close, history
  <2>2. \A g \in Flow \ {f} : active'[g] = active[g] /\ (g \in enricher => g \in enricher')
    BY <2>1, CloseElsewhere
  <2>3. f \in started \ upset =>
            /\ Under(f, Len(stack[f]) - 1, active'[f])
            /\ active'[f] # NoScope => f \in enricher'
    BY <1>1, <1>2, <2>1, CloseUncovers DEF HasScope, Context
  <2> QED BY <2>1, <2>2, <2>3, PopContext
<1>3. CASE EnterBlock(f, b)
  <2>1. /\ Push(f, b, "block") /\ Activate(f, b)
        /\ UNCHANGED <<started, state, inherited, upset, threw, disabled>>
    BY <1>3 DEF EnterBlock, history
  <2>2. /\ \A y \in Scope \ {b} : parent'[y] = parent[y]
        /\ \A g \in Flow \ {f} : active'[g] = active[g]
        /\ enricher \subseteq enricher'
        /\ active'[f] = b /\ parent'[b] = active[f]
        /\ f \in enricher' \/ active[f] # NoScope
    BY <1>1, <2>1 DEF Activate, ScopeTypeOK
  <2>3. ~OnStack(b)
    BY <1>1, <2>1, PushOnce
  <2>4. /\ Len(stack'[f]) = Len(stack[f]) + 1
        /\ stack'[f][Len(stack[f]) + 1] = b
        /\ \A i \in 1..Len(stack[f]) : stack'[f][i] = stack[f][i]
        /\ \A g \in Flow \ {f} : stack'[g] = stack[g]
        /\ kind'[b] = "block"
        /\ \A y \in Scope \ {b} : kind'[y] = kind[y]
    BY <1>1, <2>1, PushStack
  <2>5. ASSUME NEW g \in Flow PROVE FramesKept(g, Len(stack[g]))
    <3>1. \A i \in 1..Len(stack[g]) : stack'[g][i] = stack[g][i]
      BY <2>4
    <3>2. Len(stack[g]) \in Nat
      BY StackLen
    <3> QED BY <2>1, <2>2, <2>3, <2>4, <3>1, <3>2, FramesKeptBesides
  <2>6. ASSUME NEW g \in started \ upset, g # f PROVE FlowKept(g)'
    <3>1. g \in Flow /\ FlowKept(g)
      BY <2>6 DEF Context, FrameTypeOK
    <3> QED BY <2>2, <2>4, <2>5, <2>6, <3>1, FlowStable
  <2>7. ASSUME f \in started \ upset PROVE FlowKept(f)'
    <3>1. FlowKept(f) /\ Len(stack[f]) \in Nat
      BY <2>7, StackLen DEF Context
    <3>2. f \in enricher'
      BY <2>2, <3>1 DEF FlowKept
    <3>3. HasScope(b)'
      BY <2>4 DEF HasScope
    <3> QED BY <1>1, <2>2, <2>4, <2>5, <3>1, <3>2, <3>3, FlowPush
  <2> QED BY <2>1, <2>6, <2>7 DEF Context
<1> QED BY <1>2, <1>3

(* A flow without frames is in the scope it was started in.                *)
LEMMA EmptyFlow ==
    ASSUME NEW g
    PROVE  /\ stack[g] = <<>> =>
                 (FlowKept(g) <=> active[g] = inherited[g] /\ (active[g] # NoScope => g \in enricher))
           /\ stack'[g] = <<>> =>
                 (FlowKept(g)' <=>
                    active'[g] = inherited'[g] /\ (active'[g] # NoScope => g \in enricher'))
<1>1. Len(<<>>) = 0 /\ 1..0 = {}
  OBVIOUS
<1>2. stack[g] = <<>> => (FlowKept(g) <=> active[g] = inherited[g]
                                         /\ (active[g] # NoScope => g \in enricher))
  BY <1>1 DEF FlowKept, Under
<1>3. stack'[g] = <<>> => (FlowKept(g)' <=> active'[g] = inherited'[g]
                                           /\ (active'[g] # NoScope => g \in enricher'))
  BY <1>1 DEF FlowKept, Under
<1> QED BY <1>2, <1>3

(* A flow that keeps its frames and its scope.                             *)
LEMMA FlowUntouched ==
    ASSUME TypeOK, Context, NEW g \in started \ upset,
           UNCHANGED <<stack, kind, parent, state>>,
           threw \subseteq threw', disabled => disabled',
           inherited'[g] = inherited[g], active'[g] = active[g],
           g \in enricher => g \in enricher'
    PROVE  FlowKept(g)'
<1> USE TypeParts
<1>1. g \in Flow /\ FlowKept(g) /\ Len(stack[g]) \in Nat
  BY StackLen DEF Context, FrameTypeOK
<1>2. FramesKept(g, Len(stack[g]))
  BY <1>1, FramesKeptAll
<1> QED BY <1>1, <1>2, FlowStable

LEMMA FlowsContext ==
    ASSUME TypeOK, OncePushed, Context, NEW f \in Flow, NEW g \in Flow,
           FlowsIdle, StartFlow(f) \/ CloseInherited(f) \/ Fork(f, g)
    PROVE  Context'
<1> USE TypeParts
<1>1. CASE StartFlow(f)
  <2>1. UNCHANGED <<active, enricher, parent, stack, kind, state, inherited, upset, threw,
                    disabled>>
    BY <1>1 DEF StartFlow, scopeVars, history
  <2>2. FlowKept(f)'
    BY <1>1, <2>1, EmptyFlow DEF OncePushed, FlowsIdle, StartFlow
  <2> QED BY <1>1, <2>1, <2>2, FlowUntouched DEF Context, StartFlow
<1>2. CASE CloseInherited(f)
  <2>1. UNCHANGED <<started, parent, stack, kind, state, upset, threw, disabled>>
    BY <1>2 DEF CloseInherited, callVars, Close
  <2>2. \A h \in Flow \ {f} : /\ active'[h] = active[h]
                              /\ h \in enricher => h \in enricher'
                              /\ inherited'[h] = inherited[h]
    BY <1>2, CloseElsewhere DEF CloseInherited, HistoryTypeOK
  <2>3. ASSUME f \in started \ upset PROVE FlowKept(f)'
    <3>1. active[f] = inherited[f] /\ f \in enricher
      BY <1>2, <2>3, EmptyFlow, CallAssumption, ScopeAssumption DEF CloseInherited, Context
    <3>2. active'[f] = parent[active[f]] /\ inherited'[f] = parent[active[f]]
      BY <1>2 DEF CloseInherited, Close, ScopeTypeOK, HistoryTypeOK
    <3>3. active'[f] # NoScope => f \in enricher'
      BY <1>2, <3>1, <3>2 DEF CloseInherited, Close, AfterTraceEnded, EndsTrace
    <3> QED BY <1>2, <2>1, <3>2, <3>3, EmptyFlow DEF CloseInherited
  <2>4. \A h \in started : h \in Flow
    BY DEF FrameTypeOK
  <2> QED BY <2>1, <2>2, <2>3, <2>4, FlowUntouched DEF Context
<1>3. CASE Fork(f, g)
  <2>1. /\ UNCHANGED <<parent, stack, kind, state, threw, disabled>>
        /\ started' = started \cup {g} /\ upset \subseteq upset' /\ enricher \subseteq enricher'
        /\ g \notin started /\ f \in started /\ (f \in upset => g \in upset')
    BY <1>3 DEF Fork, CopyContext
  <2>2. /\ \A h \in Flow \ {g} : active'[h] = active[h] /\ inherited'[h] = inherited[h]
        /\ active'[g] = active[f] /\ inherited'[g] = active[f]
        /\ f \in enricher => g \in enricher'
    BY <1>3 DEF Fork, CopyContext, ScopeTypeOK, HistoryTypeOK
  <2>3. ASSUME g \notin upset' PROVE FlowKept(g)'
    <3>1. active[f] # NoScope => f \in enricher
      BY <2>1, <2>3 DEF Context, FlowKept
    <3>2. stack'[g] = <<>>
      BY <2>1 DEF OncePushed
    <3> QED BY <2>2, <3>1, <3>2, EmptyFlow
  <2>4. ASSUME NEW h \in started \ upset PROVE FlowKept(h)'
    <3>1. h \in Flow /\ h # g
      BY <2>1, <2>4 DEF FrameTypeOK
    <3> QED BY <2>1, <2>2, <2>4, <3>1, FlowUntouched
  <2> QED BY <2>1, <2>3, <2>4 DEF Context
<1> QED BY <1>1, <1>2, <1>3

-----------------------------------------------------------------------------
(* Frames, idle flows and blocks                                           *)

Frames == OncePushed /\ FlowsIdle /\ BlocksMarked

LEMMA FramesUntouched ==
    ASSUME OncePushed, UNCHANGED <<started, stack, kind>>
    PROVE  OncePushed'
BY DEF OncePushed, OnStack

LEMMA PushFrames ==
    ASSUME TypeOK, Frames, NEW f \in Flow, NEW x \in Scope, NEW k \in Kind \cup {"block"},
           Push(f, x, k), x \in Block => k = "block",
           UNCHANGED <<started, inherited>>, UNCHANGED scopeVars \/ Activate(f, x)
    PROVE  Frames'
<1> USE TypeParts DEF Frames
<1>1. OncePushed'
  BY PushOnce
<1>2. f \in started
  BY DEF Push
<1>3. FlowsIdle'
  BY <1>2 DEF FlowsIdle, scopeVars, Activate, ScopeTypeOK
<1>4. BlocksMarked'
  BY PushStack, CallAssumption DEF BlocksMarked
<1> QED BY <1>1, <1>3, <1>4

LEMMA PopFrames ==
    ASSUME TypeOK, Frames, NEW f \in Flow, NEW x, Pop(f, x),
           UNCHANGED <<started, inherited, kind>>,
           \A g \in Flow \ {f} : active'[g] = active[g]
    PROVE  Frames'
<1> USE TypeParts DEF Frames
<1>1. OncePushed'
  BY PopOnce
<1>2. f \in started
  BY DEF Pop, OncePushed
<1>3. FlowsIdle'
  BY <1>2 DEF FlowsIdle
<1>4. BlocksMarked'
  BY DEF BlocksMarked
<1> QED BY <1>1, <1>3, <1>4

LEMMA FlowsFrames ==
    ASSUME TypeOK, Frames, NEW f \in Flow, NEW g \in Flow,
           StartFlow(f) \/ CloseInherited(f) \/ Fork(f, g)
    PROVE  Frames'
<1> USE TypeParts DEF Frames
<1>1. /\ UNCHANGED <<stack, kind>>
      /\ started \subseteq started'
  BY DEF StartFlow, CloseInherited, Fork, callVars
<1>2. OncePushed'
  BY <1>1 DEF OncePushed, OnStack
<1>3. BlocksMarked'
  BY <1>1 DEF BlocksMarked
<1>4. FlowsIdle'
  <2>1. CASE StartFlow(f)
    BY <2>1 DEF StartFlow, scopeVars, history, FlowsIdle
  <2>2. CASE CloseInherited(f)
    BY <2>2, CloseElsewhere DEF CloseInherited, callVars, FlowsIdle, HistoryTypeOK
  <2>3. CASE Fork(f, g)
    BY <2>3 DEF Fork, CopyContext, FlowsIdle, HistoryTypeOK, ScopeTypeOK
  <2> QED BY <2>1, <2>2, <2>3
<1> QED BY <1>2, <1>3, <1>4

-----------------------------------------------------------------------------
(* The life of a call                                                      *)

CallKept(c) ==
    /\ CallLife(c)
    /\ awaited[c] \in {"none", task[c]} \/ CancellationLost(c)
    /\ (state[c].scope = c /\ awaited[c] # "none") =>
          c \in finished \/ c \in threw \/ disabled \/ CancellationLost(c)

\* A step does not take back what has happened.
NothingUndone ==
    finished \subseteq finished' /\ threw \subseteq threw' /\ (disabled => disabled')

LEMMA CallUntouched ==
    ASSUME NEW c \in Call, CallKept(c), NothingUndone,
           kind'[c] = kind[c], state'[c] = state[c], task'[c] = task[c],
           awaited'[c] = awaited[c], c \in continuation' <=> c \in continuation,
           OnStack(c)' => OnStack(c)
    PROVE  CallKept(c)'
<1>1. CancellationLost(c)' <=> CancellationLost(c)
  BY DEF CancellationLost
<1> QED BY <1>1 DEF CallKept, CallLife, NothingUndone

LEMMA BeginCalls ==
    ASSUME TypeOK, OncePushed, NEW f \in Flow, NEW c \in Call, BeginMethod(f, c),
           NEW d \in Call, CallKept(d)
    PROVE  CallKept(d)'
<1> USE TypeParts
<1>1. c \in Scope /\ d \in Scope
  BY CallAssumption
<1>2. PICK k \in Kind : Push(f, c, k)
  BY DEF BeginMethod
<1>3. UNCHANGED <<started, continuation, task, awaited, inherited>>
  BY DEF BeginMethod
<1>4. NothingUndone
  BY DEF BeginMethod, BeginSkipped, BeginOpens, BeginOpensNothing, BeginThrows, Activate,
     scopeVars, NothingUndone
<1>5. /\ \A y : OnStack(y)' => OnStack(y) \/ y = c
      /\ kind'[c] = k /\ \A y \in Scope \ {c} : kind'[y] = kind[y]
  BY <1>1, <1>2, <1>3, PushOnce, PushStack
<1>6. /\ \A y \in Call \ {c} : state'[y] = state[y]
      /\ state'[c].scope \in {state[c].scope, NoScope, c}
  <2>1. CASE BeginSkipped(f, c)
    BY <2>1 DEF BeginSkipped
  <2>2. CASE BeginOpens(f, c)
    BY <2>2 DEF BeginOpens, FrameTypeOK
  <2>3. CASE BeginOpensNothing(f, c)
    BY <2>3 DEF BeginOpensNothing, FrameTypeOK
  <2>4. CASE BeginThrows(f, c)
    BY <2>4 DEF BeginThrows
  <2> QED BY <2>1, <2>2, <2>3, <2>4 DEF BeginMethod
<1>7. CASE d # c
  BY <1>1, <1>3, <1>4, <1>5, <1>6, <1>7, CallUntouched
<1>8. CASE d = c
  <2>1. kind[c] = "new" /\ CallLife(c)
    BY <1>2, <1>8 DEF Push, CallKept
  <2>2. task'[c] = "none" /\ awaited'[c] = "none" /\ c \notin continuation'
    BY <1>3, <2>1 DEF CallLife
  <2>3. kind'[c] \notin {"block", "new"}
    BY <1>5 DEF Kind
  <2>4. state'[c].scope \in {NoScope, c}
    BY <1>6, <2>1 DEF CallLife
  <2> QED BY <1>8, <2>2, <2>3, <2>4 DEF CallKept, CallLife
<1> QED BY <1>7, <1>8

LEMMA EndCalls ==
    ASSUME TypeOK, OncePushed, NEW f \in Flow, NEW c \in Call, EndMethod(f, c),
           NEW d \in Call, CallKept(d)
    PROVE  CallKept(d)'
<1> USE TypeParts
<1>1. c \in Scope /\ c # NoScope
  BY CallAssumption, ScopeAssumption
<1>2. Pop(f, c) /\ UNCHANGED <<started, kind, state, inherited>>
  BY DEF EndMethod
<1>3. PICK r \in Result(c) :
          \/ EndSkipped(f, c, r) \/ EndValue(f, c, r) \/ EndInPlace(f, c, r)
          \/ EndContinued(f, c, r) \/ EndThrows(f, c, r)
  BY DEF EndMethod
<1>4. /\ OnStack(c) /\ ~OnStack(c)'
      /\ \A y : OnStack(y)' => OnStack(y)
  BY <1>2, PopOnce
<1>5. r \in {"ok", "fault", "pending"} /\ (kind[c] = "value" => r # "pending")
  BY DEF Result
<1>6. EndHook(f, c) => /\ finished \subseteq finished'
                       /\ state[c].scope # NoScope => c \in finished'
  BY DEF EndHook, Close, scopeVars
<1>7. NothingUndone
  BY <1>3, <1>6 DEF EndSkipped, EndValue, EndInPlace, EndContinued, EndThrows, scopeVars,
     NothingUndone
<1>8. ResultKept(c, r) =>
          /\ task'[c] = r
          /\ awaited'[c] = IF r = "pending" THEN awaited[c] ELSE r
          /\ \A y \in Call \ {c} : task'[y] = task[y] /\ awaited'[y] = awaited[y]
  BY DEF ResultKept, TaskTypeOK
<1>9. CASE d # c
  <2>1. /\ task'[d] = task[d] /\ awaited'[d] = awaited[d]
        /\ d \in continuation' <=> d \in continuation
    BY <1>3, <1>8, <1>9 DEF EndSkipped, EndValue, EndInPlace, EndContinued, EndThrows, TaskTypeOK
  <2> QED BY <1>2, <1>4, <1>7, <2>1, CallUntouched
<1>10. CASE d = c
  <2> SUFFICES CallKept(c)'
    BY <1>10
  <2>1. /\ CallLife(c) /\ task[c] = "none" /\ awaited[c] = "none" /\ c \notin continuation
        /\ kind'[c] = kind[c] /\ state'[c] = state[c] /\ kind[c] \notin {"block", "new"}
    BY <1>1, <1>2, <1>4, <1>10 DEF CallKept, CallLife, OncePushed
  <2>2. ASSUME ResultKept(c, r), continuation' = continuation, r = "pending" => disabled',
               state[c].scope = c => c \in finished' \/ c \in threw' \/ disabled'
        PROVE  CallKept(c)'
    BY <1>4, <1>5, <1>8, <2>1, <2>2 DEF CallKept, CallLife
  <2>3. CASE EndSkipped(f, c, r)
    BY <2>2, <2>3 DEF EndSkipped
  <2>4. CASE EndValue(f, c, r)
    BY <1>1, <1>5, <1>6, <2>2, <2>4 DEF EndValue
  <2>5. CASE EndInPlace(f, c, r)
    BY <1>1, <2>2, <2>5 DEF EndInPlace, InPlace
  <2>6. CASE EndContinued(f, c, r)
    <3>1. task'[c] = r /\ awaited'[c] = "none" /\ c \in continuation'
      BY <2>1, <2>6 DEF EndContinued, TaskTypeOK
    <3> QED BY <1>4, <1>5, <2>1, <3>1 DEF CallKept, CallLife
  <2>7. CASE EndThrows(f, c, r)
    BY <1>5, <2>2, <2>7 DEF EndThrows, InPlace
  <2> QED BY <1>3, <2>3, <2>4, <2>5, <2>6, <2>7
<1> QED BY <1>9, <1>10

LEMMA TaskEndsCalls ==
    ASSUME TypeOK, OncePushed, NEW c \in Call, TaskEnds(c), NEW d \in Call, CallKept(d)
    PROVE  CallKept(d)'
<1> USE TypeParts
<1>1. /\ task[c] = "pending"
      /\ UNCHANGED <<finished, threw, disabled, stack, kind, state, continuation>>
  BY DEF TaskEnds, scopeVars, history
<1>2. NothingUndone /\ (OnStack(d)' <=> OnStack(d))
  BY <1>1 DEF NothingUndone, OnStack
<1>3. CASE d # c
  <2>1. task'[d] = task[d] /\ awaited'[d] = awaited[d]
    BY <1>3 DEF TaskEnds, TaskTypeOK
  <2> QED BY <1>1, <1>2, <2>1, CallUntouched
<1>4. CASE d = c
  <2>1. PICK o \in {"ok", "fault", "cancelled"} :
            /\ task'[c] = o
            /\ awaited'[c] = IF c \in continuation THEN awaited[c] ELSE o
    BY DEF TaskEnds, TaskTypeOK
  <2>2. CallLife(c) /\ awaited[c] = "none" /\ (c \in continuation \/ disabled)
    BY <1>1, <1>4 DEF CallKept, CallLife
  <2> QED BY <1>1, <1>2, <1>4, <2>1, <2>2 DEF CallKept, CallLife
<1> QED BY <1>3, <1>4

\* A continuation only adds to what was finished, thrown or disabled.
LEMMA HooksKeep ==
    ASSUME disabled \in BOOLEAN, NEW c, AsyncHook(c) \/ NoHook
    PROVE  NothingUndone
<1>1. finished \subseteq finished' /\ threw \subseteq threw'
  BY DEF AsyncHook, NoHook
<1>2. disabled' = disabled \/ disabled' = TRUE
  BY DEF AsyncHook, NoHook
<1>3. ASSUME disabled PROVE disabled'
  <2>1. disabled = TRUE
    BY <1>3
  <2>2. disabled' = TRUE
    BY <1>2, <2>1
  <2> QED BY <2>2
<1> QED BY <1>1, <1>3 DEF NothingUndone

LEMMA ContinueCalls ==
    ASSUME TypeOK, OncePushed, NEW c \in Call, Continue(c), NEW d \in Call, CallKept(d)
    PROVE  CallKept(d)'
<1> USE TypeParts
<1>1. /\ c \in continuation /\ task[c] # "pending" /\ continuation' = continuation \ {c}
      /\ UNCHANGED <<stack, kind, state, task>>
  BY DEF Continue
<1>2. AsyncHook(c) \/ NoHook
  BY DEF Continue, TaskContinues, TaskOfResultContinues, ValueTaskContinues
<1>3. NothingUndone /\ (OnStack(d)' <=> OnStack(d))
  <2>1. disabled \in BOOLEAN
    BY DEF FrameTypeOK
  <2>2. NothingUndone
    BY <1>2, <2>1, HooksKeep
  <2> QED BY <1>1, <2>2 DEF OnStack
<1>4. PICK o : Sees(c, o)
  BY DEF Continue, TaskContinues, TaskOfResultContinues, ValueTaskContinues
<1>5. awaited'[c] = o /\ \A y \in Call \ {c} : awaited'[y] = awaited[y]
  BY <1>4 DEF Sees, TaskTypeOK
<1>6. CASE d # c
  BY <1>1, <1>3, <1>5, <1>6, CallUntouched
<1>7. CASE d = c
  <2> SUFFICES CallKept(c)'
    BY <1>7
  <2>1. CallLife(c) /\ task[c] \in {"ok", "fault", "cancelled"}
    BY <1>1, <1>7 DEF CallKept, CallLife, TaskTypeOK
  <2>2. c # NoScope
    BY CallAssumption, ScopeAssumption
  <2>3. AsyncHook(c) => (state[c].scope = c => c \in finished' \/ c \in threw')
    BY <2>2 DEF AsyncHook
  <2>4. CancellationLost(c)' <=> CancellationLost(c)
    BY <1>1 DEF CancellationLost
  <2>5. ASSUME awaited'[c] = task[c] \/ CancellationLost(c),
               AsyncHook(c) \/ CancellationLost(c)
        PROVE  CallKept(c)'
    <3>1. /\ kind'[c] = kind[c] /\ state'[c] = state[c] /\ task'[c] = task[c]
          /\ c \notin continuation' /\ (OnStack(c)' <=> OnStack(c))
      BY <1>1, <1>3, <1>7
    <3>2. CallLife(c)'
      BY <2>1, <3>1 DEF CallLife
    <3>3. awaited'[c] \in {"none", task'[c]} \/ CancellationLost(c)'
      BY <2>4, <2>5, <3>1
    <3>4. state'[c].scope = c =>
            c \in finished' \/ c \in threw' \/ CancellationLost(c)'
      BY <2>3, <2>4, <2>5, <3>1
    <3> QED BY <3>2, <3>3, <3>4 DEF CallKept
  <2>6. CASE TaskContinues(c)
    <3>1. awaited'[c] = IF task[c] = "fault" THEN "fault" ELSE "ok"
      BY <2>6 DEF TaskContinues, Sees, TaskTypeOK
    <3>2. kind[c] = "Task" /\ AsyncHook(c)
      BY <2>6 DEF TaskContinues
    <3>3. CASE task[c] = "cancelled"
      BY <2>5, <3>2, <3>3 DEF CancellationLost
    <3>4. CASE task[c] \in {"ok", "fault"}
      <4>1. awaited'[c] = task[c]
        BY <3>1, <3>4
      <4> QED BY <2>5, <3>2, <4>1
    <3> QED BY <2>1, <3>3, <3>4
  <2>7. CASE TaskOfResultContinues(c)
    <3>1. CASE task[c] = "cancelled"
      BY <2>5, <2>7, <3>1 DEF TaskOfResultContinues, CancellationLost
    <3>2. CASE task[c] \in {"ok", "fault"}
      <4>1. AsyncHook(c) /\ awaited'[c] = task[c]
        BY <2>7, <3>2 DEF TaskOfResultContinues, Sees, TaskTypeOK
      <4> QED BY <2>5, <4>1
    <3> QED BY <2>1, <3>1, <3>2
  <2>8. CASE ValueTaskContinues(c)
    <3>1. AsyncHook(c) /\ awaited'[c] = task[c]
      BY <2>8 DEF ValueTaskContinues, Sees, TaskTypeOK
    <3> QED BY <2>5, <3>1
  <2> QED BY <2>6, <2>7, <2>8 DEF Continue
<1> QED BY <1>6, <1>7

-----------------------------------------------------------------------------
(* The steps together                                                      *)

LEMMA IInvParts ==
    /\ IInv <=> TypeOK /\ Frames /\ Context /\ \A c \in Call : CallKept(c)
    /\ IInv' <=> TypeOK' /\ Frames' /\ Context' /\ \A c \in Call : CallKept(c)'
BY DEF IInv, Frames, Context, CallKept, OutcomeKept, SpanFinishedFirst

LEMMA InitInvariant == Init => IInv
<1> SUFFICES ASSUME Init PROVE IInv
  OBVIOUS
<1>1. Len(<<>>) = 0 /\ 1..0 = {}
  OBVIOUS
<1>2. \A y : ~OnStack(y)
  BY <1>1 DEF Init, OnStack
<1>3. Frames
  BY <1>1, <1>2, CallAssumption DEF Init, ScopeInit, Frames, OncePushed, FlowsIdle, BlocksMarked
<1>4. Context
  BY DEF Init, Context
<1>5. ASSUME NEW c \in Call PROVE CallKept(c)
  BY <1>2, CallAssumption DEF Init, CallKept, CallLife, DefaultState
<1> QED BY <1>3, <1>4, <1>5, InitTyped, IInvParts

LEMMA ApplicationInvariant == IInv /\ Application => IInv'
<1> SUFFICES ASSUME IInv, Application PROVE IInv'
  OBVIOUS
<1>1. TypeOK /\ Frames /\ Context /\ (\A c \in Call : CallKept(c)) /\ OncePushed /\ FlowsIdle
  BY IInvParts DEF Frames
<1>2. TypeOK'
  BY <1>1, ApplicationTyped
<1>3. ASSUME NEW f \in Flow, NEW g \in Flow, StartFlow(f) \/ CloseInherited(f) \/ Fork(f, g)
      PROVE  IInv'
  <2>1. /\ UNCHANGED <<stack, kind, state, task, awaited, continuation, threw, disabled>>
        /\ finished \subseteq finished'
    BY <1>3 DEF StartFlow, CloseInherited, Fork, Close, CopyContext, callVars, scopeVars, history
  <2>2. ASSUME NEW c \in Call PROVE CallKept(c)'
    BY <1>1, <2>1, CallUntouched DEF NothingUndone, OnStack
  <2> QED BY <1>1, <1>2, <1>3, <2>2, FlowsContext, FlowsFrames, IInvParts
<1>4. ASSUME NEW f \in Flow, NEW b \in Block, EnterBlock(f, b) PROVE IInv'
  <2>1. b \in Scope /\ b \notin Call
    BY CallAssumption
  <2>2. /\ Push(f, b, "block") /\ Activate(f, b)
        /\ UNCHANGED <<started, state, disabled, continuation, task, awaited, inherited,
                       threw, finished>>
    BY <1>4 DEF EnterBlock, Activate, history
  <2>3. Frames'
    BY <1>1, <2>1, <2>2, PushFrames
  <2>4. /\ \A y : OnStack(y)' => OnStack(y) \/ y = b
        /\ \A y \in Scope \ {b} : kind'[y] = kind[y]
    BY <1>1, <2>1, <2>2, PushOnce, PushStack, TypeParts
  <2>5. ASSUME NEW c \in Call PROVE CallKept(c)'
    <3>1. c # b /\ c \in Scope
      BY <2>1, CallAssumption
    <3> QED BY <1>1, <2>2, <2>4, <3>1, CallUntouched DEF NothingUndone
  <2> QED BY <1>1, <1>2, <1>4, <2>3, <2>5, BlockContext, IInvParts
<1>5. ASSUME NEW f \in Flow, NEW b \in Block, LeaveBlock(f, b) PROVE IInv'
  <2>1. /\ Pop(f, b) /\ Close(f, b)
        /\ UNCHANGED <<started, kind, state, disabled, continuation, task, awaited, inherited,
                       threw>>
        /\ finished \subseteq finished'
    BY <1>5 DEF LeaveBlock, Close, history
  <2>2. \A g \in Flow \ {f} : active'[g] = active[g]
    BY <1>1, <2>1, CloseElsewhere, TypeParts
  <2>3. OnStack(b) /\ (\A y : OnStack(y)' => OnStack(y)) /\ Frames'
    BY <1>1, <2>1, <2>2, PopOnce, PopFrames, TypeParts
  <2>4. kind[b] = "block"
    BY <1>1, <2>3, CallAssumption DEF Frames, BlocksMarked, OncePushed
  <2>5. ASSUME NEW c \in Call PROVE CallKept(c)'
    BY <1>1, <2>1, <2>3, CallUntouched DEF NothingUndone
  <2> QED BY <1>1, <1>2, <1>5, <2>3, <2>4, <2>5, BlockContext, IInvParts
<1>6. ASSUME NEW c \in Call, TaskEnds(c) PROVE IInv'
  <2>1. /\ UNCHANGED <<scopeVars, started, stack, kind, state, disabled, continuation, history>>
    BY <1>6 DEF TaskEnds
  <2>2. Frames'
    BY <1>1, <2>1, FramesUntouched DEF Frames, FlowsIdle, BlocksMarked, scopeVars, history
  <2>3. Context'
    BY <1>1, <2>1, FlowUntouched DEF Context, scopeVars, history
  <2> QED BY <1>1, <1>2, <1>6, <2>2, <2>3, TaskEndsCalls, IInvParts
<1> QED BY <1>3, <1>4, <1>5, <1>6 DEF Application

LEMMA MethodInvariant ==
    ASSUME IInv, NEW f \in Flow, NEW c \in Call, BeginMethod(f, c) \/ EndMethod(f, c)
    PROVE  IInv'
<1>1. TypeOK /\ Frames /\ Context /\ (\A d \in Call : CallKept(d)) /\ OncePushed /\ CallLife(c)
  BY IInvParts DEF Frames, CallKept
<1>2. TypeOK'
  BY <1>1, BeginTyped, EndTyped
<1>3. Context'
  BY <1>1, BeginContext, EndContext
<1>4. \A d \in Call : CallKept(d)'
  BY <1>1, BeginCalls, EndCalls
<1>5. Frames'
  <2>1. c \in Scope /\ c \notin Block
    BY CallAssumption
  <2>2. CASE BeginMethod(f, c)
    <3>1. PICK k \in Kind : Push(f, c, k)
      BY <2>2 DEF BeginMethod
    <3>2. UNCHANGED scopeVars \/ Activate(f, c)
      BY <2>2 DEF BeginMethod, BeginSkipped, BeginOpens, BeginOpensNothing, BeginThrows
    <3>3. UNCHANGED <<started, inherited>>
      BY <2>2 DEF BeginMethod
    <3> QED BY <1>1, <2>1, <3>1, <3>2, <3>3, PushFrames
  <2>3. CASE EndMethod(f, c)
    <3>1. Pop(f, c) /\ UNCHANGED <<started, kind, inherited>>
      BY <2>3 DEF EndMethod
    <3>2. ASSUME NEW g \in Flow \ {f} PROVE active'[g] = active[g]
      <4>1. ScopeTypeOK
        BY <1>1, TypeParts
      <4>2. EndHook(f, c) => active'[g] = active[g]
        BY <4>1, CloseElsewhere DEF EndHook, scopeVars
      <4> QED BY <2>3, <4>1, <4>2 DEF EndMethod, EndSkipped, EndValue, EndInPlace,
                 EndContinued, EndThrows, scopeVars, ScopeTypeOK
    <3> QED BY <1>1, <3>1, <3>2, PopFrames
  <2> QED BY <2>2, <2>3
<1> QED BY <1>2, <1>3, <1>4, <1>5, IInvParts

LEMMA ContinueInvariant ==
    ASSUME IInv, NEW c \in Call, Continue(c)
    PROVE  IInv'
<1>1. TypeOK /\ Frames /\ Context /\ (\A d \in Call : CallKept(d)) /\ OncePushed
  BY IInvParts DEF Frames
<1>2. UNCHANGED <<active, enricher, parent, started, stack, kind, state, inherited, upset>>
  BY DEF Continue
<1>3. threw \subseteq threw' /\ (disabled => disabled')
  <2>1. disabled \in BOOLEAN
    BY <1>1, TypeParts DEF FrameTypeOK
  <2>2. AsyncHook(c) \/ NoHook
    BY DEF Continue, TaskContinues, TaskOfResultContinues, ValueTaskContinues
  <2> QED BY <2>1, <2>2, HooksKeep DEF NothingUndone
<1>4. Frames'
  BY <1>1, <1>2, FramesUntouched DEF Frames, FlowsIdle, BlocksMarked
<1>5. Context'
  BY <1>1, <1>2, <1>3, FlowUntouched DEF Context
<1> QED BY <1>1, <1>4, <1>5, ContinueTyped, ContinueCalls, IInvParts

LEMMA StutterInvariant == IInv /\ UNCHANGED vars => IInv'
<1> SUFFICES ASSUME IInv, UNCHANGED vars PROVE IInv'
  OBVIOUS
<1>1. TypeOK /\ Frames /\ Context /\ (\A c \in Call : CallKept(c)) /\ OncePushed
  BY IInvParts DEF Frames
<1>2. UNCHANGED <<scopeVars, callVars, history>>
  BY DEF vars
<1>3. Frames'
  BY <1>1, <1>2, FramesUntouched DEF Frames, FlowsIdle, BlocksMarked, scopeVars, callVars, history
<1>4. Context'
  BY <1>1, <1>2, FlowUntouched DEF Context, scopeVars, callVars, history
<1>5. ASSUME NEW c \in Call PROVE CallKept(c)'
  BY <1>1, <1>2, CallUntouched DEF NothingUndone, OnStack, scopeVars, callVars, history
<1> QED BY <1>1, <1>3, <1>4, <1>5, StutterTyped, IInvParts

LEMMA StepInvariant == IInv /\ [Next]_vars => IInv'
BY ApplicationInvariant, MethodInvariant, ContinueInvariant, StutterInvariant DEF Next

LEMMA Invariance == Spec => []IInv
BY InitInvariant, StepInvariant, PTL DEF Spec

(* The active scope of a flow is that of the innermost block or traced     *)
(* call it is in, and its logs are correlated, whatever calls it has made  *)
(* and wherever their tasks end: EndMethodHandler`1.cs 76-84 and           *)
(* ScopeManagerBase.cs 60-88 agree.                                        *)
THEOREM ContextSurvives == Spec => []ContextKept
<1>1. IInv => ContextKept
  BY DEF IInv, ContextKept, FlowKept
<1> QED BY <1>1, Invariance, PTL

(* What the continuation generators hand to the caller ends as the         *)
(* method's own task did, but for a cancelled Task or Task<T>.             *)
THEOREM OutcomeComesThrough == Spec => []OutcomeKept
<1>1. IInv => OutcomeKept
  BY DEF IInv
<1> QED BY <1>1, Invariance, PTL

(* The end hook has closed the scope before the caller sees the outcome,   *)
(* unless a hook threw, the integration was disabled, or the task was      *)
(* cancelled.                                                              *)
THEOREM SpanIsFinishedFirst == Spec => []SpanFinishedFirst
<1>1. IInv => SpanFinishedFirst
  BY DEF IInv
<1> QED BY <1>1, Invariance, PTL
=============================================================================
