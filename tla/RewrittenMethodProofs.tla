------------------------ MODULE RewrittenMethodProofs ------------------------
(***************************************************************************)
(* BodyValid, for every method the CLR accepts: whatever the callback has  *)
(* inserted, replaced and made long, the exported body is one the CLR      *)
(* accepts too, and every branch leads to the instruction it named.        *)
(***************************************************************************)
EXTENDS RewrittenMethodInvariants, ILRewriterProofs, FiniteSetTheorems

----------------------------------------------------------------------------
(* Sequences of sequences                                                   *)

Joins(f, n, seqs) ==
    f = [i \in 1 .. n |-> IF i = 1 THEN seqs[i] ELSE f[i-1] \o seqs[i]]

LEMMA JoinsExists ==
  ASSUME NEW seqs, NEW n \in Nat
  PROVE  \E f : Joins(f, n, seqs)
<1> DEFINE S == {k \in Nat : \E f : Joins(f, k, seqs)}
<1>1. 0 \in S
  <2> DEFINE f == [i \in 1 .. 0 |-> 0]
  <2>1. Joins(f, 0, seqs)
    BY DEF Joins
  <2> QED
    BY <2>1
<1>2. ASSUME NEW k \in Nat, k \in S
      PROVE  k + 1 \in S
  <2>1. PICK f : Joins(f, k, seqs)
    BY <1>2
  <2> DEFINE more == [i \in 1 .. k + 1 |-> IF i = 1 THEN seqs[i] ELSE f[i-1] \o seqs[i]]
  <2>2. \A i \in 1 .. k : f[i] = IF i = 1 THEN seqs[i] ELSE f[i-1] \o seqs[i]
    BY <2>1 DEF Joins
  <2>3. \A i \in 1 .. k : more[i] = f[i]
    BY <2>2
  <2>4. \A i \in 1 .. k + 1 : i # 1 => i - 1 \in 1 .. k /\ more[i-1] = f[i-1]
    <3> HIDE DEF more
    <3> QED
      BY <2>3
  <2>5. more = [i \in 1 .. k + 1 |-> IF i = 1 THEN seqs[i] ELSE more[i-1] \o seqs[i]]
    <3>1. \A i \in 1 .. k + 1 : more[i] = IF i = 1 THEN seqs[i] ELSE more[i-1] \o seqs[i]
      BY <2>4
    <3>2. more = [i \in 1 .. k + 1 |-> more[i]]
      OBVIOUS
    <3> HIDE DEF more
    <3> QED
      BY <3>1, <3>2
  <2> HIDE DEF more
  <2>6. Joins(more, k + 1, seqs)
    BY <2>5 DEF Joins
  <2> QED
    BY <2>6
<1> HIDE DEF S
<1>3. Nat \subseteq S
  BY <1>1, <1>2, SetInduction
<1> QED
  BY <1>3 DEF S

LEMMA JoinsTyped ==
  ASSUME NEW T, NEW n \in Nat, NEW seqs, \A i \in 1 .. n : seqs[i] \in Seq(T),
         NEW f, Joins(f, n, seqs)
  PROVE  \A i \in 1 .. n : f[i] \in Seq(T)
<1> DEFINE S == {k \in Nat : k \in 1 .. n => f[k] \in Seq(T)}
<1>1. \A i \in 1 .. n : f[i] = IF i = 1 THEN seqs[i] ELSE f[i-1] \o seqs[i]
  BY DEF Joins
<1>2. 0 \in S
  OBVIOUS
<1>3. ASSUME NEW k \in Nat, k \in S
      PROVE  k + 1 \in S
  <2>1. ASSUME k + 1 \in 1 .. n PROVE f[k + 1] \in Seq(T)
    <3>1. seqs[k + 1] \in Seq(T)
      BY <2>1
    <3>2. CASE k = 0
      BY <1>1, <2>1, <3>1, <3>2
    <3>3. CASE k # 0
      <4>1. k \in 1 .. n /\ (k + 1) - 1 = k /\ k + 1 # 1
        BY <2>1, <3>3
      <4>2. f[k + 1] = f[k] \o seqs[k + 1] /\ f[k] \in Seq(T)
        BY <1>1, <1>3, <2>1, <4>1
      <4> QED
        BY <3>1, <4>2, ConcatProperties
    <3> QED
      BY <3>2, <3>3
  <2> QED
    BY <2>1
<1> HIDE DEF S
<1>4. Nat \subseteq S
  BY <1>2, <1>3, SetInduction
<1>5. \A i \in 1 .. n : i \in S
  BY <1>4
<1> QED
  BY <1>5 DEF S

LEMMA FlattenTyped ==
  ASSUME NEW T, NEW seqs, Len(seqs) \in Nat, Len(seqs) = 0 => seqs \in Seq(T),
         \A i \in 1 .. Len(seqs) : seqs[i] \in Seq(T)
  PROVE  FlattenSeq(seqs) \in Seq(T)
<1>1. CASE Len(seqs) = 0
  BY <1>1 DEF FlattenSeq
<1>2. CASE Len(seqs) # 0
  <2> DEFINE flatten == CHOOSE f : Joins(f, Len(seqs), seqs)
  <2>1. FlattenSeq(seqs) = flatten[Len(seqs)]
    BY <1>2 DEF FlattenSeq, Joins
  <2>2. Joins(flatten, Len(seqs), seqs)
    BY JoinsExists
  <2> HIDE DEF flatten
  <2>3. Len(seqs) \in 1 .. Len(seqs)
    BY <1>2
  <2> QED
    BY <2>1, <2>2, <2>3, JoinsTyped
<1> QED
  BY <1>1, <1>2

----------------------------------------------------------------------------
(* What is inserted                                                         *)

\* Instructions that neither branch nor belong to a switch, and those among
\* which every branch leads to one instruction.
Straight == {s \in Instr : s.op \notin Branch}
Laid(t) == {s \in Instr : s.op # "switch_arg" /\ (s.op \in Branch => s.target = t)}

StraightOp == Opcode \ Branch

LEMMA PlainStraight ==
  ASSUME NEW op \in StraightOp, NEW bytes \in Nat \ {0}
  PROVE  Plain(op, bytes) \in Straight /\ Plain(op, bytes).op = op
<1> DEFINE w == Plain(op, bytes)
<1>1. w = [op |-> op, bytes |-> bytes, n |-> 0, name |-> "", target |-> Sentinel]
  BY DEF Plain
<1>2. "" \in Name /\ Sentinel \in Nat /\ 0 \in Int
  BY DEF Name, Sentinel
<1> HIDE DEF w
<1>3. w \in Instr /\ w.op = op
  BY <1>1, <1>2 DEF Instr, StraightOp
<1> QED
  BY <1>3 DEF Straight, StraightOp, w

LEMMA NumberedStraight ==
  ASSUME NEW op \in StraightOp, NEW bytes \in Nat \ {0}, NEW n \in Int
  PROVE  [Plain(op, bytes) EXCEPT !.n = n] \in Straight
<1> DEFINE x == Plain(op, bytes)
           w == [x EXCEPT !.n = n]
<1>1. x \in Instr /\ x.op = op
  BY PlainStraight DEF Straight
<1> HIDE DEF x
<1>2. w \in Instr /\ w.op = op
  BY <1>1 DEF Instr
<1> QED
  BY <1>2 DEF Straight, StraightOp, x

LEMMA NamedStraight ==
  ASSUME NEW op \in StraightOp, NEW bytes \in Nat \ {0}, NEW name \in Name
  PROVE  [Plain(op, bytes) EXCEPT !.name = name] \in Straight
<1> DEFINE x == Plain(op, bytes)
           w == [x EXCEPT !.name = name]
<1>1. x \in Instr /\ x.op = op
  BY PlainStraight DEF Straight
<1> HIDE DEF x
<1>2. w \in Instr /\ w.op = op
  BY <1>1 DEF Instr
<1> QED
  BY <1>2 DEF Straight, StraightOp, x

LEMMA StraightLaid == ASSUME NEW t PROVE Straight \subseteq Laid(t)
BY DEF Straight, Laid, Branch

LEMMA LeaveLaid ==
  ASSUME NEW t \in Nat
  PROVE  LeaveTo(t) \in Laid(t) /\ LeaveTo(t).op = "leave.s"
<1> DEFINE x == Plain("leave.s", 2)
           w == [x EXCEPT !.target = t]
<1>1. x = [op |-> "leave.s", bytes |-> 2, n |-> 0, name |-> "", target |-> Sentinel]
  BY DEF Plain
<1>2. "" \in Name /\ Sentinel \in Nat /\ 0 \in Int /\ "leave.s" \in Opcode
  BY DEF Name, Sentinel, Opcode, Branch, Short
<1> HIDE DEF x
<1>3. x \in Instr /\ x.op = "leave.s"
  <2>1. 2 \in Nat \ {0}
    OBVIOUS
  <2> QED
    BY <1>1, <1>2, <2>1 DEF Instr
<1>4. w \in Instr /\ w.op = "leave.s" /\ w.target = t
  BY <1>3 DEF Instr
<1> QED
  BY <1>4 DEF Laid, LeaveTo, x

LEMMA StraightOps ==
  {"block", "ldc", "ldnull", "ldarg", "ldloc", "ldloca", "stloc", "dup", "pop", "box",
   "newarr", "stelem", "call", "switch", "ret", "throw", "rethrow", "endfinally"}
      \subseteq StraightOp
BY DEF StraightOp, Opcode, Branch, Short

LEMMA LocalsStraight ==
  ASSUME NEW i \in Int
  PROVE  /\ StLocal(i) \in Straight /\ LoadLocal(i) \in Straight
         /\ LoadLocalAddress(i) \in Straight /\ LoadArgument(i) \in Straight
         /\ LoadInt32(i) \in Straight
<1>1. "int" \in Name
  BY DEF Name
<1>2. StLocal(i) \in Straight
  BY StraightOps, NumberedStraight DEF StLocal
<1>3. LoadLocal(i) \in Straight
  BY StraightOps, NumberedStraight DEF LoadLocal
<1>4. LoadLocalAddress(i) \in Straight
  BY StraightOps, NumberedStraight DEF LoadLocalAddress
<1>5. LoadArgument(i) \in Straight
  BY StraightOps, NumberedStraight DEF LoadArgument
<1>6. LoadInt32(i) \in Straight
  BY <1>1, StraightOps, NamedStraight DEF LoadInt32
<1> QED
  BY <1>2, <1>3, <1>4, <1>5, <1>6

LEMMA CallStraight == ASSUME NEW name \in Name PROVE CallMember(name) \in Straight
BY StraightOps, NamedStraight DEF CallMember

LEMMA OthersStraight ==
  {LoadNull, Rethrow, EndFinally, Plain("newarr", 5), Plain("dup", 1), Plain("box", 5),
   Plain("stelem", 1), Plain("ret", 1)} \subseteq Straight
BY StraightOps, PlainStraight DEF LoadNull, Rethrow, EndFinally

----------------------------------------------------------------------------
(* The begin part                                                           *)

\* The begin part but for its last five instructions.
BeginHead(m) == InitializeLocals(m) \o <<LoadInstance(m)>> \o LoadArguments(m)

LEMMA Indices ==
  ASSUME NEW m \in MethodBody
  PROVE  /\ ReturnValueIndex(m) \in Int /\ ExceptionIndex(m) \in Int
         /\ CallTargetReturnIndex(m) \in Int /\ CallTargetStateIndex(m) \in Int
         /\ m.args \in Nat /\ m.isVoid \in BOOLEAN /\ m.isStatic \in BOOLEAN
<1>1. /\ m.locals \in Nat /\ m.args \in Nat /\ m.isVoid \in BOOLEAN
      /\ m.isStatic \in BOOLEAN
  BY DEF MethodBody
<1>2. NewLocalsCount(m) \in Int
  BY <1>1 DEF NewLocalsCount
<1> QED
  BY <1>1, <1>2 DEF ReturnValueIndex, ExceptionIndex, CallTargetReturnIndex,
                    CallTargetStateIndex

LEMMA InstanceStraight ==
  ASSUME NEW m
  PROVE  LoadInstance(m) \in Straight
<1>1. LoadArgument(0) \in Straight
  BY LocalsStraight
<1> QED
  BY <1>1, OthersStraight DEF LoadInstance

LEMMA NamesUsed ==
  {"int", "default value", "default return", "BeginMethod", "EndMethod", "GetReturnValue",
   "LogException"} \subseteq Name
BY DEF Name

LEMMA ArgumentsStraight ==
  ASSUME NEW m \in MethodBody
  PROVE  LoadArguments(m) \in Seq(Straight)
<1>1. m.args \in Nat /\ m.isStatic \in BOOLEAN
  BY Indices
<1>2. ASSUME NEW i \in 1 .. m.args
      PROVE  ArgumentOf(m, i) \in Straight
  BY <1>1, LocalsStraight DEF ArgumentOf
<1>3. CASE m.args < FastPathCount
  <2>1. LoadArguments(m) = [i \in 1 .. m.args |-> ArgumentOf(m, i)]
    BY <1>3 DEF LoadArguments
  <2> QED
    BY <1>1, <1>2, <2>1
<1>4. CASE ~(m.args < FastPathCount)
  <2> DEFINE parts == [i \in 1 .. m.args |-> LoadValueIntoArray(i - 1, ArgumentOf(m, i))]
  <2>1. \A i \in 1 .. m.args : parts[i] \in Seq(Straight)
    <3>1. ASSUME NEW i \in 1 .. m.args
          PROVE  LoadValueIntoArray(i - 1, ArgumentOf(m, i)) \in Seq(Straight)
      <4>1. i - 1 \in Int
        BY <1>1
      <4>2. /\ LoadInt32(i - 1) \in Straight /\ ArgumentOf(m, i) \in Straight
            /\ Plain("dup", 1) \in Straight /\ Plain("box", 5) \in Straight
            /\ Plain("stelem", 1) \in Straight
        BY <1>2, <4>1, LocalsStraight, OthersStraight
      <4> QED
        BY <4>2 DEF LoadValueIntoArray
    <3> QED
      BY <3>1
  <2>2. Len(parts) = m.args
    BY <1>1
  <2>3. Len(parts) = 0 => parts \in Seq(Straight)
    <3>1. ASSUME Len(parts) = 0
          PROVE  parts \in Seq(Straight)
      <4>1. parts = [i \in 1 .. 0 |-> parts[i]]
        BY <2>2, <3>1
      <4> HIDE DEF parts
      <4>2. parts \in [1 .. 0 -> Straight]
        BY <4>1
      <4> QED
        BY <4>2
    <3> QED
      BY <3>1
  <2>4. LoadArguments(m) = CreateArray(m.args) \o FlattenSeq(parts)
    BY <1>4 DEF LoadArguments
  <2> HIDE DEF parts
  <2>5. FlattenSeq(parts) \in Seq(Straight)
    BY <1>1, <2>1, <2>2, <2>3, FlattenTyped
  <2>6. CreateArray(m.args) \in Seq(Straight)
    <3>1. LoadInt32(m.args) \in Straight /\ Plain("newarr", 5) \in Straight
      BY <1>1, LocalsStraight, OthersStraight
    <3> QED
      BY <3>1 DEF CreateArray
  <2> QED
    BY <2>4, <2>5, <2>6, ConcatProperties
<1> QED
  BY <1>3, <1>4

LEMMA Tuples ==
  ASSUME NEW S, NEW a \in S, NEW b \in S, NEW c \in S, NEW d \in S
  PROVE  <<a, b>> \in Seq(S) /\ <<a, b, c, d>> \in Seq(S)
OBVIOUS

LEMMA HeadStraight ==
  ASSUME NEW m \in MethodBody
  PROVE  BeginHead(m) \in Seq(Straight)
<1>1. InitializeLocals(m) \in Seq(Straight)
  <2>1. /\ CallMember("default return") \in Straight /\ CallMember("default value") \in Straight
        /\ StLocal(CallTargetReturnIndex(m)) \in Straight
        /\ StLocal(ReturnValueIndex(m)) \in Straight /\ StLocal(ExceptionIndex(m)) \in Straight
        /\ LoadNull \in Straight
    BY Indices, NamesUsed, CallStraight, LocalsStraight, OthersStraight
  <2> DEFINE default ==
               IF m.isVoid
               THEN <<CallMember("default return"), StLocal(CallTargetReturnIndex(m))>>
               ELSE <<CallMember("default value"), StLocal(ReturnValueIndex(m)),
                      CallMember("default return"), StLocal(CallTargetReturnIndex(m))>>
  <2>2. default \in Seq(Straight)
    BY <2>1, Tuples
  <2>3. <<LoadNull, StLocal(ExceptionIndex(m))>> \in Seq(Straight)
    BY <2>1, Tuples
  <2>4. InitializeLocals(m) = default \o <<LoadNull, StLocal(ExceptionIndex(m))>>
    BY DEF InitializeLocals
  <2> HIDE DEF default
  <2> QED
    BY <2>2, <2>3, <2>4, ConcatProperties
<1>2. <<LoadInstance(m)>> \in Seq(Straight)
  BY InstanceStraight
<1> QED
  BY <1>1, <1>2, ArgumentsStraight, ConcatProperties DEF BeginHead

\* The begin part branches to one instruction only, and is as long whichever
\* that is.
LEMMA BeginLaid ==
  ASSUME NEW m \in MethodBody, NEW t \in Nat
  PROVE  /\ BeginPart(m, t) \in Seq(Laid(t))
         /\ Len(BeginPart(m, t)) = Len(BeginHead(m)) + 5
         /\ Len(BeginHead(m)) \in Nat
<1> DEFINE tail == <<CallMember("BeginMethod"), StLocal(CallTargetStateIndex(m)), LeaveTo(t),
                     CallMember("LogException"), LeaveTo(t)>>
<1>1. BeginPart(m, t) = BeginHead(m) \o tail
  BY DEF BeginPart, BeginHead
<1>2. tail \in Seq(Laid(t)) /\ Len(tail) = 5
  <2>1. /\ CallMember("BeginMethod") \in Laid(t) /\ CallMember("LogException") \in Laid(t)
        /\ StLocal(CallTargetStateIndex(m)) \in Laid(t) /\ LeaveTo(t) \in Laid(t)
    BY Indices, NamesUsed, CallStraight, LocalsStraight, StraightLaid, LeaveLaid
  <2> QED
    BY <2>1
<1> HIDE DEF tail
<1>3. BeginHead(m) \in Seq(Laid(t))
  BY HeadStraight, StraightLaid
<1>4. Len(BeginHead(m)) \in Nat
  BY HeadStraight, LenProperties
<1>5. /\ BeginHead(m) \o tail \in Seq(Laid(t))
      /\ Len(BeginHead(m) \o tail) = Len(BeginHead(m)) + Len(tail)
  BY <1>2, <1>3, ConcatProperties
<1> QED
  BY <1>1, <1>2, <1>4, <1>5

----------------------------------------------------------------------------
(* The end part                                                             *)

LEMMA VoidShape ==
  ASSUME NEW S, NEW a \in S, NEW b \in S, NEW c \in S, NEW d \in S, NEW e \in S, NEW f \in S,
         NEW g \in S, NEW h \in S, NEW i \in S, NEW j \in S, NEW k \in S,
         NEW s, s = <<a, b, c>> \o <<>> \o <<d, e, f, g>> \o <<>> \o <<h, i, j, k>> \o <<>>
  PROVE  s \in Seq(S) /\ Len(s) = 11 /\ s[11] = k
OBVIOUS

LEMMA ValueShape ==
  ASSUME NEW S, NEW a \in S, NEW b \in S, NEW c \in S, NEW d \in S, NEW e \in S, NEW f \in S,
         NEW g \in S, NEW h \in S, NEW i \in S, NEW j \in S, NEW k \in S, NEW l \in S,
         NEW u \in S, NEW v \in S, NEW w \in S, NEW x \in S,
         NEW s, s = <<a, b, c>> \o <<l>> \o <<d, e, f, g>> \o <<u, v, w>> \o <<h, i, j, k>> \o <<x>>
  PROVE  s \in Seq(S) /\ Len(s) = 16 /\ s[15] = k /\ s[16] = x
OBVIOUS

\* Where the finally of the end part ends.
FinallyEnds(m) == IF m.isVoid THEN 11 ELSE 15

LEMMA EndLaid ==
  ASSUME NEW m \in MethodBody, NEW t \in Nat
  PROVE  /\ EndPart(m, t) \in Seq(Laid(t))
         /\ Len(EndPart(m, t)) = IF m.isVoid THEN 11 ELSE 16
         /\ EndPart(m, t)[FinallyEnds(m)] = EndFinally
         /\ ~m.isVoid => EndPart(m, t)[16] = LoadLocal(ReturnValueIndex(m))
<1>1. /\ StLocal(ExceptionIndex(m)) \in Laid(t) /\ LoadLocal(ExceptionIndex(m)) \in Laid(t)
      /\ StLocal(ReturnValueIndex(m)) \in Laid(t) /\ LoadLocal(ReturnValueIndex(m)) \in Laid(t)
      /\ StLocal(CallTargetReturnIndex(m)) \in Laid(t)
      /\ LoadLocalAddress(CallTargetReturnIndex(m)) \in Laid(t)
      /\ LoadLocal(CallTargetStateIndex(m)) \in Laid(t)
  BY Indices, LocalsStraight, StraightLaid
<1>2. /\ CallMember("EndMethod") \in Laid(t) /\ CallMember("GetReturnValue") \in Laid(t)
      /\ CallMember("LogException") \in Laid(t) /\ LeaveTo(t) \in Laid(t)
      /\ Rethrow \in Laid(t) /\ EndFinally \in Laid(t) /\ LoadInstance(m) \in Laid(t)
  BY NamesUsed, CallStraight, LeaveLaid, OthersStraight, InstanceStraight, StraightLaid
<1>3. CASE m.isVoid
  <2>1. EndPart(m, t) =
          <<StLocal(ExceptionIndex(m)), Rethrow, LoadInstance(m)>> \o <<>>
          \o <<LoadLocal(ExceptionIndex(m)), LoadLocal(CallTargetStateIndex(m)),
               CallMember("EndMethod"), StLocal(CallTargetReturnIndex(m))>> \o <<>>
          \o <<LeaveTo(t), CallMember("LogException"), LeaveTo(t), EndFinally>> \o <<>>
    BY <1>3 DEF EndPart, OnlyIf
  <2>2. EndPart(m, t) \in Seq(Laid(t)) /\ Len(EndPart(m, t)) = 11 /\ EndPart(m, t)[11] = EndFinally
    BY <1>1, <1>2, <2>1, VoidShape
  <2> QED
    BY <1>3, <2>2 DEF FinallyEnds
<1>4. CASE ~m.isVoid
  <2>1. EndPart(m, t) =
          <<StLocal(ExceptionIndex(m)), Rethrow, LoadInstance(m)>>
          \o <<LoadLocal(ReturnValueIndex(m))>>
          \o <<LoadLocal(ExceptionIndex(m)), LoadLocal(CallTargetStateIndex(m)),
               CallMember("EndMethod"), StLocal(CallTargetReturnIndex(m))>>
          \o <<LoadLocalAddress(CallTargetReturnIndex(m)), CallMember("GetReturnValue"),
               StLocal(ReturnValueIndex(m))>>
          \o <<LeaveTo(t), CallMember("LogException"), LeaveTo(t), EndFinally>>
          \o <<LoadLocal(ReturnValueIndex(m))>>
    BY <1>4 DEF EndPart, OnlyIf
  <2>2. /\ EndPart(m, t) \in Seq(Laid(t)) /\ Len(EndPart(m, t)) = 16
        /\ EndPart(m, t)[15] = EndFinally /\ EndPart(m, t)[16] = LoadLocal(ReturnValueIndex(m))
    BY <1>1, <1>2, <2>1, ValueShape
  <2> QED
    BY <1>4, <2>2 DEF FinallyEnds
<1> QED
  BY <1>3, <1>4

LEMMA EndFinallyName ==
  ASSUME NEW m \in MethodBody, NEW r, Len(r.instr) \in Nat
  PROVE  EndFinallyInstr(m, r) = Len(r.instr) + 1 + FinallyEnds(m)
<1> DEFINE part == EndPart(m, Sentinel)
           I == {i \in 1 .. Len(part) : part[i].op = "endfinally"}
<1>1. /\ Len(part) = IF m.isVoid THEN 11 ELSE 16
      /\ part[FinallyEnds(m)] = EndFinally
      /\ ~m.isVoid => part[16] = LoadLocal(ReturnValueIndex(m))
  BY EndLaid DEF Sentinel
<1>2. EndFinally.op = "endfinally" /\ LoadLocal(ReturnValueIndex(m)).op # "endfinally"
  BY DEF EndFinally, LoadLocal, Plain
<1>3. EndFinallyInstr(m, r) = NameOf(r, 1 + IF I # {} THEN Max(I) ELSE 0)
  BY DEF EndFinallyInstr, SelectLastInSeq
<1> HIDE DEF part
<1>4. FinallyEnds(m) \in I /\ \A i \in I : i <= FinallyEnds(m) /\ i \in Nat
  BY <1>1, <1>2 DEF FinallyEnds
<1>5. FinallyEnds(m) \in Nat
  BY DEF FinallyEnds
<1> HIDE DEF I
<1>6. Max(I) = FinallyEnds(m)
  BY <1>4, <1>5 DEF Max
<1> QED
  BY <1>3, <1>4, <1>5, <1>6 DEF NameOf, NewInstr

----------------------------------------------------------------------------
(* What an insertion keeps                                                  *)

LEMMA LaidInstr == ASSUME NEW t PROVE Laid(t) \subseteq Instr
BY DEF Laid

LEMMA LaidNoArgument ==
  ASSUME NEW t, NEW news \in Seq(Laid(t))
  PROVE  \A i \in 1 .. Len(news) : news[i].op # "switch_arg"
<1>1. \A i \in 1 .. Len(news) : news[i] \in Laid(t)
  OBVIOUS
<1> QED
  BY <1>1 DEF Laid

\* What is inserted may lead to one instruction, wherever that is then.
LEMMA InsertLaid ==
  ASSUME NEW r, RewriterOK(r), NEW where \in Listed(r) \cup {Sentinel},
         NEW t, NEW news \in Seq(Laid(t)), NEW s, s = InsertAllBefore(r, where, news)
  PROVE  /\ ListOK(s) /\ ClausesOK(s)
         /\ Inserted(s, r, Place(r, where), news)
         /\ news \in Seq(Instr)
         /\ t \in Starts(s) => RewriterOK(s)
<1>1. ListOK(r) /\ BranchesOK(r) /\ ClausesOK(r) /\ StartsOK(r)
  BY DEF RewriterOK
<1>2. news \in Seq(Instr)
  BY LaidInstr
<1>3. ListOK(s) /\ Inserted(s, r, Place(r, where), news)
  BY <1>1, <1>2, InsertShape
<1>4. ClausesOK(s)
  BY <1>1, <1>2, <1>3, InsertedClauses
<1>5. ASSUME t \in Starts(s)
      PROVE  BranchesOK(s)
  <2>1. \A i \in 1 .. Len(news) : news[i] \in Laid(t)
    OBVIOUS
  <2>2. \A i \in 1 .. Len(news) : news[i].op \in Branch => news[i].target \in Starts(s)
    BY <1>5, <2>1 DEF Laid
  <2> QED
    BY <1>1, <1>2, <1>3, <2>2, InsertedBranches
<1>6. StartsOK(s)
  <2>1. \A i \in 1 .. Len(news) : news[i].op # "switch_arg"
    BY LaidNoArgument
  <2> QED
    BY <1>1, <1>2, <1>3, <2>1, InsertedStarts
<1> QED
  BY <1>2, <1>3, <1>4, <1>5, <1>6 DEF RewriterOK

LEMMA BeginKept ==
  ASSUME NEW r, ListOK(r), ClausesOK(r), NEW s, ListOK(s), NEW p,
         NEW t, NEW news \in Seq(Laid(t)), news \in Seq(Instr), Inserted(s, r, p, news),
         NEW b, BeginInFront(r, b)
  PROVE  BeginInFront(s, b)
<1>1. s.eh = r.eh /\ Listed(r) \subseteq Listed(s)
  <2>1. s.eh = r.eh
    BY DEF Inserted
  <2>2. \A id \in Listed(r) : id \in Listed(s)
    BY InsertedPlaces
  <2> QED
    BY <2>1, <2>2
<1>2. \A x, y \in Listed(r) : Before(r, x, y) => Before(s, x, y)
  BY InsertedOrder
<1>3. {b.first, b.beginCatch, b.beginCatchLeave} \subseteq Listed(r)
  BY DEF BeginInFront
<1>4. \A k \in DOMAIN r.eh : r.eh[k].tryBegin \in Listed(r)
  BY DEF ClausesOK, ClauseListed
<1>5. \A i \in 1 .. Len(news) : news[i].op # "switch_arg"
  BY LaidNoArgument
<1>6. ASSUME NEW id \in Listed(s), NotAfter(s, id, b.beginCatchLeave)
      PROVE  s.instr[id].op # "switch_arg"
  <2>1. CASE id \in Listed(r)
    <3>1. NotAfter(r, id, b.beginCatchLeave)
      BY <1>3, <1>6, <2>1, InsertedOrder
    <3>2. s.instr[id] = r.instr[id]
      BY <2>1, InsertedPlaces
    <3> QED
      BY <2>1, <3>1, <3>2 DEF BeginInFront
  <2>2. CASE id \notin Listed(r)
    <3>1. PICK i \in 1 .. Len(news) : id = Len(r.instr) + i
      BY <2>2, InsertedPlaces
    <3>2. s.instr[id] = news[i]
      BY <3>1, InsertedPlaces
    <3> QED
      BY <1>5, <3>2
  <2> QED
    BY <2>1, <2>2
<1>7. StartFollows(s, b.beginCatchLeave)
  <2>1. StartFollows(r, b.beginCatchLeave)
    BY DEF BeginInFront
  <2> QED
    BY <1>3, <1>5, <2>1, InsertedFollows
<1>8. /\ {b.first, b.beginCatch, b.beginCatchLeave} \subseteq Listed(s)
      /\ Before(s, b.first, b.beginCatch) /\ Before(s, b.beginCatch, b.beginCatchLeave)
      /\ \A k \in DOMAIN s.eh : Before(s, b.beginCatchLeave, s.eh[k].tryBegin)
  BY <1>1, <1>2, <1>3, <1>4 DEF BeginInFront
<1> QED
  BY <1>6, <1>7, <1>8 DEF BeginInFront

LEMMA EndKept ==
  ASSUME NEW r, ListOK(r), ClausesOK(r), NEW s, ListOK(s), NEW p,
         NEW t, NEW news \in Seq(Laid(t)), news \in Seq(Instr), Inserted(s, r, p, news),
         NEW b, b.beginCatchLeave \in Listed(r), NEW e, EndBehind(r, b, e)
  PROVE  EndBehind(s, b, e)
<1>1. s.eh = r.eh /\ Listed(r) \subseteq Listed(s)
  <2>1. s.eh = r.eh
    BY DEF Inserted
  <2>2. \A id \in Listed(r) : id \in Listed(s)
    BY InsertedPlaces
  <2> QED
    BY <2>1, <2>2
<1>2. \A x, y \in Listed(r) : Before(r, x, y) <=> Before(s, x, y)
  BY InsertedOrder
<1>3. {e.startCatch, e.rethrow, e.endTry, e.endCatch, e.endCatchLeave, e.endFinally,
       e.methodReturn} \subseteq Listed(r)
  BY DEF EndBehind
<1>4. \A k \in DOMAIN r.eh : r.eh[k].handlerEnd \in Listed(r)
  BY DEF ClausesOK, ClauseListed
<1>5. ASSUME NEW id \in Listed(s), NotAfter(s, e.startCatch, id)
      PROVE  s.instr[id].op # "switch_arg"
  <2>1. CASE id \in Listed(r)
    <3>1. s.instr[id] = r.instr[id]
      BY <2>1, InsertedPlaces
    <3>2. NotAfter(r, e.startCatch, id)
      BY <1>3, <1>5, <2>1, InsertedOrder
    <3> QED
      BY <2>1, <3>1, <3>2 DEF EndBehind
  <2>2. CASE id \notin Listed(r)
    <3>1. PICK i \in 1 .. Len(news) : id = Len(r.instr) + i
      BY <2>2, InsertedPlaces
    <3>2. s.instr[id] = news[i]
      BY <3>1, InsertedPlaces
    <3>3. news[i] \in Laid(t)
      OBVIOUS
    <3> QED
      BY <3>2, <3>3 DEF Laid
  <2> QED
    BY <2>1, <2>2
<1>6. /\ Before(r, b.beginCatchLeave, e.startCatch)
      /\ \A k \in DOMAIN r.eh : Before(r, r.eh[k].handlerEnd, e.startCatch)
      /\ Before(r, e.startCatch, e.rethrow) /\ Before(r, e.rethrow, e.endTry)
      /\ Before(r, e.endTry, e.endCatch) /\ Before(r, e.endCatch, e.endCatchLeave)
      /\ Before(r, e.endCatchLeave, e.endFinally) /\ Before(r, e.endFinally, e.methodReturn)
  BY DEF EndBehind
<1>7. /\ Before(s, b.beginCatchLeave, e.startCatch)
      /\ \A k \in DOMAIN s.eh : Before(s, s.eh[k].handlerEnd, e.startCatch)
      /\ Before(s, e.startCatch, e.rethrow) /\ Before(s, e.rethrow, e.endTry)
      /\ Before(s, e.endTry, e.endCatch) /\ Before(s, e.endCatch, e.endCatchLeave)
      /\ Before(s, e.endCatchLeave, e.endFinally) /\ Before(s, e.endFinally, e.methodReturn)
  BY <1>1, <1>2, <1>3, <1>4, <1>6
<1> QED
  BY <1>1, <1>3, <1>5, <1>7 DEF EndBehind

----------------------------------------------------------------------------
(* The steps of the callback                                                *)

LEMMA Names ==
  ASSUME NEW r, Len(r.instr) \in Nat, NEW i \in Int
  PROVE  NameOf(r, i) = Len(r.instr) + i
BY DEF NameOf, NewInstr

LEMMA BeginInserted ==
  ASSUME NEW m \in MethodBody, NEW r, RewriterOK(r), r.il[1] \in Starts(r),
         NEW s, s = InsertBegin(m, r), NEW b, b = BeginMarks(m, r)
  PROVE  RewriterOK(s) /\ BeginInFront(s, b)
<1> DEFINE first == r.il[1]
           news == BeginPart(m, first)
<1>1. ListOK(r) /\ ClausesOK(r)
  BY DEF RewriterOK
<1>2. /\ Len(r.il) \in Nat \ {0} /\ DOMAIN r.il = 1 .. Len(r.il)
      /\ Len(r.instr) \in Nat
  BY <1>1, ListFacts
<1>3. first \in Listed(r) /\ Place(r, first) = 1 /\ first \in Nat
  <2>1. 1 \in DOMAIN r.il
    BY <1>2
  <2>2. first \in Listed(r) /\ Place(r, first) = 1
    BY <1>1, <2>1, PlaceOf DEF Listed
  <2>3. first \in DOMAIN r.instr /\ DOMAIN r.instr = 1 .. Len(r.instr)
    BY <1>1, <2>2, ListedPlace, ListFacts
  <2> QED
    BY <2>2, <2>3
<1>4. PICK h \in Nat : h = Len(BeginHead(m))
  BY BeginLaid DEF Sentinel
<1>5. news \in Seq(Laid(first)) /\ Len(news) = h + 5
  BY <1>3, <1>4, BeginLaid
<1>6. /\ b.first = Len(r.instr) + 1 /\ b.beginCatch = Len(r.instr) + (h + 4)
      /\ b.beginCatchLeave = Len(r.instr) + (h + 5)
  <2>1. Len(BeginPart(m, Sentinel)) = h + 5
    BY <1>4, BeginLaid DEF Sentinel
  <2>2. /\ b.first = NameOf(r, 1) /\ b.beginCatch = NameOf(r, (h + 5) - 1)
        /\ b.beginCatchLeave = NameOf(r, h + 5)
    BY <2>1 DEF BeginMarks
  <2>3. /\ NameOf(r, 1) = Len(r.instr) + 1 /\ NameOf(r, (h + 5) - 1) = Len(r.instr) + (h + 4)
        /\ NameOf(r, h + 5) = Len(r.instr) + (h + 5)
    <3>1. 1 \in Int /\ (h + 5) - 1 \in Int /\ h + 5 \in Int /\ (h + 5) - 1 = h + 4
      OBVIOUS
    <3>2. NameOf(r, 1) = Len(r.instr) + 1
      BY <1>2, <3>1, Names
    <3>3. NameOf(r, (h + 5) - 1) = Len(r.instr) + (h + 4)
      BY <1>2, <3>1, Names
    <3>4. NameOf(r, h + 5) = Len(r.instr) + (h + 5)
      BY <1>2, <3>1, Names
    <3> QED
      BY <3>2, <3>3, <3>4
  <2> QED
    BY <2>2, <2>3
<1>7. s = InsertAllBefore(r, first, news)
  BY DEF InsertBegin
<1> HIDE DEF first, news
<1>8. /\ ListOK(s) /\ ClausesOK(s) /\ Inserted(s, r, 1, news) /\ news \in Seq(Instr)
      /\ first \in Starts(s) => RewriterOK(s)
  BY <1>3, <1>5, <1>7, InsertLaid
<1>9. RewriterOK(s)
  <2>1. first \in Starts(s)
    BY <1>1, <1>8, InsertedBranches DEF first
  <2> QED
    BY <1>8, <2>1
<1>10. \A i \in 1 .. h + 5 : Len(r.instr) + i \in Listed(s) /\ Place(s, Len(r.instr) + i) = i
  <2>1. ASSUME NEW i \in 1 .. h + 5
        PROVE  Len(r.instr) + i \in Listed(s) /\ Place(s, Len(r.instr) + i) = i
    <3>1. i \in 1 .. Len(news)
      BY <1>5
    <3>2. Len(r.instr) + i \in Listed(s) /\ Place(s, Len(r.instr) + i) = 1 - 1 + i
      BY <1>1, <1>8, <3>1, InsertedPlaces
    <3> QED
      BY <3>2
  <2> QED
    BY <2>1
<1>11. /\ {b.first, b.beginCatch, b.beginCatchLeave} \subseteq Listed(s)
       /\ Place(s, b.first) = 1 /\ Place(s, b.beginCatch) = h + 4
       /\ Place(s, b.beginCatchLeave) = h + 5
  <2>1. 1 \in 1 .. h + 5 /\ h + 4 \in 1 .. h + 5 /\ h + 5 \in 1 .. h + 5
    OBVIOUS
  <2>2. b.first \in Listed(s) /\ Place(s, b.first) = 1
    BY <1>6, <1>10, <2>1
  <2>3. b.beginCatch \in Listed(s) /\ Place(s, b.beginCatch) = h + 4
    BY <1>6, <1>10, <2>1
  <2>4. b.beginCatchLeave \in Listed(s) /\ Place(s, b.beginCatchLeave) = h + 5
    BY <1>6, <1>10, <2>1
  <2> QED
    BY <2>2, <2>3, <2>4
<1>12. ASSUME NEW k \in DOMAIN s.eh
       PROVE  Before(s, b.beginCatchLeave, s.eh[k].tryBegin)
  <2>1. s.eh = r.eh /\ r.eh[k].tryBegin \in Listed(r)
    BY <1>1, <1>8, <1>12 DEF Inserted, ClausesOK, ClauseListed
  <2>2. PICK q \in 1 .. Len(r.il) : q = Place(r, r.eh[k].tryBegin)
    BY <1>1, <1>2, <2>1, ListedPlace
  <2>3. Place(s, r.eh[k].tryBegin) = q + IF q < 1 THEN 0 ELSE Len(news)
    BY <1>1, <1>8, <2>1, <2>2, InsertedPlaces
  <2> QED
    BY <1>2, <1>5, <1>11, <2>1, <2>2, <2>3 DEF Before
<1>13. ASSUME NEW id \in Listed(s), Place(s, id) <= h + 6
       PROVE  s.instr[id].op # "switch_arg"
  <2>1. CASE id \in Listed(r)
    <3>1. PICK q \in 1 .. Len(r.il) : q = Place(r, id)
      BY <1>1, <1>2, <2>1, ListedPlace
    <3>2. /\ Place(s, id) = q + IF q < 1 THEN 0 ELSE Len(news)
          /\ s.instr[id] = r.instr[id]
      BY <1>1, <1>8, <2>1, <3>1, InsertedPlaces
    <3>3. q = 1
      BY <1>2, <1>5, <1>13, <3>1, <3>2
    <3>4. id = first
      BY <1>1, <1>3, <2>1, <3>1, <3>3, SamePlace
    <3>5. id # Sentinel
      BY <1>1, <2>1, ListedPlace
    <3>6. first \in Starts(r)
      BY DEF first
    <3> QED
      BY <3>2, <3>4, <3>5, <3>6 DEF Starts
  <2>2. CASE id \notin Listed(r)
    <3>1. PICK i \in 1 .. Len(news) : id = Len(r.instr) + i
      BY <1>1, <1>8, <2>2, InsertedPlaces
    <3>2. s.instr[id] = news[i]
      BY <1>1, <1>8, <3>1, InsertedPlaces
    <3> QED
      BY <1>5, <3>1, <3>2, LaidNoArgument
  <2> QED
    BY <2>1, <2>2
<1>14. /\ \A id \in Listed(s) : NotAfter(s, id, b.beginCatchLeave) => s.instr[id].op # "switch_arg"
       /\ StartFollows(s, b.beginCatchLeave)
  <2>1. \A id \in Listed(s) : Place(s, id) \in Nat
    BY <1>8, ListedPlace, ListFacts
  <2>2. ASSUME NEW id \in Listed(s), NotAfter(s, id, b.beginCatchLeave)
        PROVE  s.instr[id].op # "switch_arg"
    <3>1. Place(s, id) <= h + 6
      BY <1>11, <2>1, <2>2 DEF NotAfter
    <3> QED
      BY <1>13, <3>1
  <2>3. ASSUME NEW id \in Listed(s), Place(s, id) = Place(s, b.beginCatchLeave) + 1
        PROVE  s.instr[id].op # "switch_arg"
    <3>1. Place(s, id) <= h + 6
      BY <1>11, <2>1, <2>3
    <3> QED
      BY <1>13, <3>1
  <2> QED
    BY <2>2, <2>3 DEF StartFollows
<1>15. Before(s, b.first, b.beginCatch) /\ Before(s, b.beginCatch, b.beginCatchLeave)
  BY <1>11 DEF Before
<1> QED
  BY <1>9, <1>11, <1>12, <1>14, <1>15 DEF BeginInFront

LEMMA EndInserted ==
  ASSUME NEW m \in MethodBody, NEW r, RewriterOK(r), NEW b, BeginInFront(r, b),
         NEW s, s = InsertEnd(m, r), NEW e, e = EndMarks(m, r)
  PROVE  RewriterOK(s) /\ BeginInFront(s, b) /\ EndBehind(s, b, e)
<1> DEFINE ret == Plain("ret", 1)
           one == <<ret>>
           q == InsertBefore(r, Sentinel, ret)
<1>1. ListOK(r) /\ ClausesOK(r)
  BY DEF RewriterOK
<1>2. PICK n \in Nat, l \in Nat \ {0} : n = Len(r.instr) /\ l = Len(r.il) /\ DOMAIN r.il = 1 .. l
  BY <1>1, ListFacts
<1>3. PICK k \in 11 .. 15 : k = FinallyEnds(m)
  BY DEF FinallyEnds
<1>4. EndFinallyInstr(m, r) = n + 1 + k
  BY <1>2, <1>3, EndFinallyName
<1> DEFINE news == EndPart(m, n + 1 + k)
<1>5. PICK size \in 11 .. 16 : size = Len(news) /\ k <= size
  <2>1. n + 1 + k \in Nat
    OBVIOUS
  <2>2. Len(news) = IF m.isVoid THEN 11 ELSE 16
    BY <2>1, EndLaid
  <2> HIDE DEF news
  <2>3. CASE m.isVoid
    BY <1>3, <2>2, <2>3 DEF FinallyEnds
  <2>4. CASE ~m.isVoid
    BY <1>3, <2>2, <2>4 DEF FinallyEnds
  <2> QED
    BY <2>3, <2>4
<1>6. news \in Seq(Laid(n + 1 + k)) /\ news[k].op = "endfinally"
  <2>1. n + 1 + k \in Nat
    OBVIOUS
  <2>2. EndFinally.op = "endfinally"
    BY DEF EndFinally, Plain
  <2> QED
    BY <1>3, <2>1, <2>2, EndLaid
<1>7. /\ e.methodReturn = n + 1 /\ e.startCatch = n + 1 + 1 /\ e.rethrow = n + 1 + 2
      /\ e.endTry = n + 1 + 3 /\ e.endCatch = n + 1 + (k - 2)
      /\ e.endCatchLeave = n + 1 + (k - 1) /\ e.endFinally = n + 1 + k
  <2>1. /\ e.methodReturn = NewInstr(r) /\ e.startCatch = NameOf(r, 2)
        /\ e.rethrow = NameOf(r, 3) /\ e.endTry = NameOf(r, 4)
        /\ e.endCatch = EndFinallyInstr(m, r) - 2
        /\ e.endCatchLeave = EndFinallyInstr(m, r) - 1 /\ e.endFinally = EndFinallyInstr(m, r)
    BY DEF EndMarks, MethodReturn
  <2>2. NameOf(r, 2) = n + 2 /\ NameOf(r, 3) = n + 3 /\ NameOf(r, 4) = n + 4
    BY <1>2 DEF NameOf, NewInstr
  <2>3. NewInstr(r) = n + 1
    BY <1>2 DEF NewInstr
  <2> QED
    BY <1>4, <2>1, <2>2, <2>3
<1>8. s = InsertAllBefore(q, n + 1, news) /\ q = InsertAllBefore(r, Sentinel, one)
  BY <1>2, <1>4 DEF InsertEnd, MethodReturn, NewInstr, InsertBefore
<1> HIDE DEF news, q
<1>9. /\ RewriterOK(q) /\ ListOK(q) /\ ClausesOK(q) /\ Inserted(q, r, l + 1, one)
      /\ one \in Seq(Laid(Sentinel)) /\ one \in Seq(Instr) /\ Len(one) = 1
      /\ one[1].op = "ret"
  <2>1. ret \in Laid(Sentinel) /\ ret.op = "ret"
    BY OthersStraight, StraightLaid DEF Plain
  <2> HIDE DEF ret
  <2>2. one \in Seq(Laid(Sentinel)) /\ Len(one) = 1 /\ one[1] = ret
    BY <2>1
  <2>3. Sentinel \in Starts(q) /\ Place(r, Sentinel) = l + 1
    BY <1>2, SentinelPlace DEF Starts
  <2> HIDE DEF one
  <2> QED
    BY <1>8, <2>1, <2>2, <2>3, InsertLaid DEF RewriterOK
<1> HIDE DEF one
<1>10. /\ n + 1 \in Listed(q) /\ Place(q, n + 1) = l + 1 /\ q.instr[n + 1].op = "ret"
       /\ \A id \in Listed(r) : id \in Listed(q) /\ Place(q, id) = Place(r, id) /\ Place(r, id) \in 1 .. l
       /\ \A id \in Listed(q) : id \in Listed(r) \/ id = n + 1
  <2> DEFINE p == l + 1
  <2>0. ListOK(q) /\ Inserted(q, r, p, one) /\ one \in Seq(Instr)
    BY <1>9
  <2> HIDE DEF p
  <2>1. \A id \in Listed(r) :
           /\ id \in Listed(q)
           /\ Place(q, id) = Place(r, id) + IF Place(r, id) < p THEN 0 ELSE Len(one)
    BY <1>1, <2>0, InsertedPlaces
  <2>2. \A i \in 1 .. Len(one) :
           /\ Len(r.instr) + i \in Listed(q) /\ q.instr[Len(r.instr) + i] = one[i]
           /\ Place(q, Len(r.instr) + i) = p - 1 + i
    BY <1>1, <2>0, InsertedPlaces
  <2>3. \A id \in Listed(q) :
           id \in Listed(r) \/ \E i \in 1 .. Len(one) : id = Len(r.instr) + i
    BY <1>1, <2>0, InsertedPlaces
  <2> USE DEF p
  <2>4. /\ n + 1 \in Listed(q) /\ q.instr[n + 1] = one[1] /\ Place(q, n + 1) = l + 1
    <3>1. 1 \in 1 .. Len(one)
      BY <1>9
    <3>2. n + 1 \in Listed(q) /\ q.instr[n + 1] = one[1] /\ Place(q, n + 1) = (l + 1) - 1 + 1
      BY <1>2, <2>2, <3>1
    <3> QED
      BY <3>2
  <2>5. ASSUME NEW id \in Listed(r)
        PROVE  id \in Listed(q) /\ Place(q, id) = Place(r, id) /\ Place(r, id) \in 1 .. l
    <3>1. Place(r, id) \in 1 .. l
      BY <1>1, <1>2, ListedPlace
    <3> QED
      BY <2>1, <3>1
  <2>6. ASSUME NEW id \in Listed(q)
        PROVE  id \in Listed(r) \/ id = n + 1
    <3>1. \A i \in 1 .. Len(one) : i = 1
      BY <1>9
    <3> QED
      BY <1>2, <2>3, <3>1
  <2> QED
    BY <1>9, <2>4, <2>5, <2>6
<1>11. Len(q.instr) = n + 1
  BY <1>2, <1>9 DEF Inserted
<1>12. /\ ListOK(s) /\ ClausesOK(s) /\ Inserted(s, q, l + 1, news) /\ news \in Seq(Instr)
       /\ n + 1 + k \in Starts(s) => RewriterOK(s)
  BY <1>6, <1>8, <1>9, <1>10, InsertLaid
<1>13. /\ \A i \in 1 .. size :
              n + 1 + i \in Listed(s) /\ s.instr[n + 1 + i] = news[i] /\ Place(s, n + 1 + i) = l + i
       /\ \A id \in Listed(s) : id \in Listed(q) \/ \E i \in 1 .. size : id = n + 1 + i
  <2> DEFINE p == l + 1
  <2>0. Inserted(s, q, p, news)
    BY <1>12
  <2> HIDE DEF p
  <2>1. /\ \A i \in 1 .. Len(news) :
              /\ Len(q.instr) + i \in Listed(s) /\ s.instr[Len(q.instr) + i] = news[i]
              /\ Place(s, Len(q.instr) + i) = p - 1 + i
        /\ \A id \in Listed(s) :
              id \in Listed(q) \/ \E i \in 1 .. Len(news) : id = Len(q.instr) + i
    BY <1>9, <1>12, <2>0, InsertedPlaces
  <2> USE DEF p
  <2>2. ASSUME NEW i \in 1 .. size
        PROVE  n + 1 + i \in Listed(s) /\ s.instr[n + 1 + i] = news[i] /\ Place(s, n + 1 + i) = l + i
    <3>1. /\ n + 1 + i \in Listed(s) /\ s.instr[n + 1 + i] = news[i]
          /\ Place(s, n + 1 + i) = (l + 1) - 1 + i
      BY <1>5, <1>11, <2>1
    <3> QED
      BY <3>1
  <2>3. \A id \in Listed(s) : id \in Listed(q) \/ \E i \in 1 .. size : id = n + 1 + i
    BY <1>5, <1>11, <2>1
  <2> QED
    BY <2>2, <2>3
<1>14. /\ n + 1 \in Listed(s) /\ Place(s, n + 1) = l + 1 + size /\ s.instr[n + 1].op = "ret"
       /\ \A id \in Listed(r) : id \in Listed(s) /\ Place(s, id) = Place(r, id) /\ Place(s, id) \in 1 .. l
  <2>1. \A id \in Listed(q) :
           /\ id \in Listed(s) /\ s.instr[id] = q.instr[id]
           /\ Place(s, id) = Place(q, id) + IF Place(q, id) < l + 1 THEN 0 ELSE size
    BY <1>5, <1>9, <1>12, InsertedPlaces
  <2>2. n + 1 \in Listed(s) /\ Place(s, n + 1) = l + 1 + size /\ s.instr[n + 1].op = "ret"
    BY <1>10, <2>1
  <2>3. \A id \in Listed(r) : id \in Listed(s) /\ Place(s, id) = Place(r, id) /\ Place(s, id) \in 1 .. l
    BY <1>10, <2>1
  <2> QED
    BY <2>2, <2>3
<1>15. RewriterOK(s)
  <2>1. n + 1 + k \in Listed(s) /\ s.instr[n + 1 + k].op # "switch_arg"
    BY <1>5, <1>6, <1>13
  <2> QED
    BY <1>12, <2>1 DEF Starts
<1>16. BeginInFront(s, b)
  <2>1. BeginInFront(q, b)
    BY <1>1, <1>9, BeginKept
  <2> QED
    BY <1>6, <1>9, <1>12, <2>1, BeginKept
<1>17. /\ e.startCatch \in Listed(s) /\ Place(s, e.startCatch) = l + 1
       /\ e.rethrow \in Listed(s) /\ Place(s, e.rethrow) = l + 2
       /\ e.endTry \in Listed(s) /\ Place(s, e.endTry) = l + 3
       /\ e.endCatch \in Listed(s) /\ Place(s, e.endCatch) = l + (k - 2)
       /\ e.endCatchLeave \in Listed(s) /\ Place(s, e.endCatchLeave) = l + (k - 1)
       /\ e.endFinally \in Listed(s) /\ Place(s, e.endFinally) = l + k
       /\ e.methodReturn \in Listed(s) /\ Place(s, e.methodReturn) = l + 1 + size
  <2>1. {1, 2, 3, k - 2, k - 1, k} \subseteq 1 .. size
    BY <1>5
  <2> QED
    BY <1>7, <1>13, <1>14, <2>1
<1>18. ASSUME NEW id \in Listed(s), NotAfter(s, e.startCatch, id)
       PROVE  s.instr[id].op # "switch_arg"
  <2>1. id \in Listed(q) \/ \E i \in 1 .. size : id = n + 1 + i
    BY <1>13
  <2>2. CASE id \in Listed(r)
    <3>1. Place(s, id) \in 1 .. l
      BY <1>14, <2>2
    <3> QED
      BY <1>17, <1>18, <3>1 DEF NotAfter
  <2>3. CASE id = n + 1
    BY <1>14, <2>3
  <2>4. CASE \E i \in 1 .. size : id = n + 1 + i
    <3>1. PICK i \in 1 .. size : id = n + 1 + i
      BY <2>4
    <3>2. news[i] \in Laid(n + 1 + k)
      BY <1>5, <1>6
    <3> QED
      BY <1>13, <3>1, <3>2 DEF Laid
  <2> QED
    BY <1>10, <2>1, <2>2, <2>3, <2>4
<1>19. ASSUME NEW i \in DOMAIN s.eh
       PROVE  Before(s, s.eh[i].handlerEnd, e.startCatch)
  <2>1. s.eh = r.eh
    BY <1>9, <1>12 DEF Inserted
  <2>2. s.eh[i].handlerEnd \in Listed(r)
    BY <1>1, <1>19, <2>1 DEF ClausesOK, ClauseListed
  <2>3. Place(s, s.eh[i].handlerEnd) \in 1 .. l
    BY <1>14, <2>2
  <2> QED
    BY <1>17, <2>3 DEF Before
<1>20. Before(s, b.beginCatchLeave, e.startCatch)
  <2>1. b.beginCatchLeave \in Listed(r)
    BY DEF BeginInFront
  <2>2. Place(s, b.beginCatchLeave) \in 1 .. l
    BY <1>14, <2>1
  <2> QED
    BY <1>17, <2>2 DEF Before
<1>21. /\ Before(s, e.startCatch, e.rethrow) /\ Before(s, e.rethrow, e.endTry)
       /\ Before(s, e.endTry, e.endCatch) /\ Before(s, e.endCatch, e.endCatchLeave)
       /\ Before(s, e.endCatchLeave, e.endFinally) /\ Before(s, e.endFinally, e.methodReturn)
  <2>1. k \in 11 .. 15 /\ size \in Nat /\ l \in Nat /\ k <= size
    BY <1>5
  <2> QED
    BY <1>17, <2>1 DEF Before
<1>22. EndBehind(s, b, e)
  BY <1>17, <1>18, <1>19, <1>20, <1>21 DEF EndBehind
<1> QED
  BY <1>15, <1>16, <1>22

\* No switch is among or behind the instructions of the end part.
LEMMA EndFollows ==
  ASSUME NEW r, ListOK(r), NEW b, NEW e, EndBehind(r, b, e)
  PROVE  /\ \A id \in {e.startCatch, e.rethrow, e.endTry, e.endCatch, e.endCatchLeave,
                       e.endFinally} : id \in Starts(r) /\ StartFollows(r, id)
<1> DEFINE marked == {e.startCatch, e.rethrow, e.endTry, e.endCatch, e.endCatchLeave,
                      e.endFinally}
<1>1. marked \subseteq Listed(r)
  BY DEF EndBehind
<1>2. \A id \in Listed(r) : Place(r, id) \in Nat
  BY ListedPlace, ListFacts
<1>3. \A id \in marked : NotAfter(r, e.startCatch, id)
  <2>1. /\ Before(r, e.startCatch, e.rethrow) /\ Before(r, e.rethrow, e.endTry)
        /\ Before(r, e.endTry, e.endCatch) /\ Before(r, e.endCatch, e.endCatchLeave)
        /\ Before(r, e.endCatchLeave, e.endFinally)
    BY DEF EndBehind
  <2> QED
    BY <1>1, <1>2, <2>1 DEF Before, NotAfter
<1>4. \A id \in Listed(r) : NotAfter(r, e.startCatch, id) => r.instr[id].op # "switch_arg"
  BY DEF EndBehind
<1>5. ASSUME NEW id \in marked
      PROVE  id \in Starts(r) /\ StartFollows(r, id)
  <2>1. id \in Starts(r)
    BY <1>1, <1>3, <1>4, <1>5 DEF Starts
  <2>2. ASSUME NEW next \in Listed(r), Place(r, next) = Place(r, id) + 1
        PROVE  r.instr[next].op # "switch_arg"
    <3>1. NotAfter(r, e.startCatch, id)
      BY <1>3, <1>5
    <3>2. NotAfter(r, e.startCatch, next)
      <4>1. /\ Place(r, e.startCatch) \in Nat /\ Place(r, id) \in Nat
        BY <1>1, <1>2, <1>5
      <4> QED
        BY <2>2, <3>1, <4>1 DEF NotAfter
    <3> QED
      BY <1>4, <3>2
  <2> QED
    BY <2>1, <2>2 DEF StartFollows
<1> QED
  BY <1>5

\* The leaves of the returns go to an instruction behind the end part's finally.
LEMMA BehindFinally ==
  ASSUME NEW r, ListOK(r), NEW b, NEW e, EndBehind(r, b, e)
  PROVE  NextInstr(r, e.endFinally) \in Starts(r)
<1>1. e.endFinally \in Listed(r)
  BY DEF EndBehind
<1>2. StartFollows(r, e.endFinally)
  BY EndFollows
<1> QED
  BY <1>1, <1>2, NextStarts

\* One instruction becomes a short leave.
Leaving(q, id, after) ==
    [q EXCEPT !.instr[id].op = "leave.s", !.instr[id].bytes = 2, !.instr[id].target = after]

LEMMA LeaveInstr ==
  ASSUME NEW q, ListOK(q), NEW id \in Listed(q), NEW after \in Nat,
         NEW s, s = Leaving(q, id, after)
  PROVE  /\ s.il = q.il /\ s.eh = q.eh /\ DOMAIN s = DOMAIN q
         /\ s.instr \in Seq(Instr) /\ Len(s.instr) = Len(q.instr)
         /\ s.instr[id].op = "leave.s" /\ s.instr[id].target = after
         /\ \A j \in Listed(q) : j # id => s.instr[j] = q.instr[j]
<1> DEFINE x == q.instr[id]
           w == [x EXCEPT !.op = "leave.s", !.bytes = 2, !.target = after]
           t == s.instr
<1>1. DOMAIN q = {"il", "instr", "eh", "maxStack"} /\ q.instr \in Seq(Instr)
  BY DEF ListOK
<1>2. PICK n \in Nat : n = Len(q.instr) /\ DOMAIN q.instr = 1 .. n
  BY ListFacts
<1>3. id \in 1 .. n /\ x \in Instr
  BY <1>2, ListedPlace
<1>4. s.il = q.il /\ s.eh = q.eh /\ DOMAIN s = DOMAIN q
  BY <1>1 DEF Leaving
<1>5. t = [q.instr EXCEPT ![id] = w]
  BY <1>1, <1>2, <1>3 DEF Leaving
<1> HIDE DEF t
<1>6. w \in Instr /\ w.op = "leave.s" /\ w.target = after
  <2>1. "leave.s" \in Opcode /\ 2 \in Nat \ {0}
    BY DEF Opcode, Branch, Short
  <2> DEFINE l == "leave.s"
  <2>2. l \in Opcode
    BY <2>1
  <2> HIDE DEF x, l
  <2>3. [x EXCEPT !.op = l, !.bytes = 2, !.target = after] \in Instr
    BY <1>3, <2>1, <2>2 DEF Instr
  <2>4. w.op = "leave.s" /\ w.target = after
    BY <1>3 DEF Instr
  <2> QED
    BY <2>3, <2>4 DEF l
<1> HIDE DEF w
<1>7. t \in Seq(Instr) /\ Len(t) = n
  <2>1. q.instr \in [1 .. n -> Instr]
    BY <1>1, <1>2
  <2>2. t \in [1 .. n -> Instr]
    BY <1>5, <1>6, <2>1
  <2> QED
    BY <2>2
<1>8. \A j \in Listed(q) : j \in 1 .. n
  BY <1>2, ListedPlace
<1>9. t[id] = w /\ \A j \in 1 .. n : j # id => t[j] = q.instr[j]
  BY <1>2, <1>3, <1>5
<1> QED
  BY <1>2, <1>4, <1>6, <1>7, <1>8, <1>9 DEF t

LEMMA ReturnLeaves ==
  ASSUME NEW q, RewriterOK(q), NEW id \in Listed(q), NEW after \in Starts(q),
         NEW s, s = Leaving(q, id, after),
         NEW b, BeginInFront(q, b), NEW e, EndBehind(q, b, e)
  PROVE  RewriterOK(s) /\ BeginInFront(s, b) /\ EndBehind(s, b, e)
<1>1. ListOK(q) /\ BranchesOK(q) /\ ClausesOK(q) /\ StartsOK(q)
  BY DEF RewriterOK
<1>2. after \in Nat
  <2>1. \A j \in Listed(q) : j \in Nat
    BY <1>1, ListedPlace, ListFacts
  <2> QED
    BY <2>1 DEF Starts, Sentinel
<1>3. /\ s.il = q.il /\ s.eh = q.eh /\ DOMAIN s = DOMAIN q
      /\ s.instr \in Seq(Instr) /\ Len(s.instr) = Len(q.instr)
      /\ s.instr[id].op = "leave.s" /\ s.instr[id].target = after
      /\ \A j \in Listed(q) : j # id => s.instr[j] = q.instr[j]
  BY <1>1, <1>2, LeaveInstr
<1>4. \A j \in Listed(q) : q.instr[j].op # "switch_arg" => s.instr[j].op # "switch_arg"
  BY <1>3
<1>5. ListOK(s) /\ Starts(q) \subseteq Starts(s)
  BY <1>1, <1>3, <1>4, Relabelled
<1>6. /\ \A j : Place(s, j) = Place(q, j)
      /\ Listed(s) = Listed(q)
      /\ ClausesOK(s)
  BY <1>1, <1>3, SameList
<1>7. BranchesOK(s)
  <2>1. ASSUME NEW j \in Listed(s), s.instr[j].op \in Branch
        PROVE  s.instr[j].target \in Starts(s)
    <3>1. CASE j = id
      BY <1>3, <1>5, <3>1
    <3>2. CASE j # id
      <4>1. s.instr[j] = q.instr[j] /\ j \in Listed(q)
        BY <1>3, <1>6, <3>2
      <4> QED
        BY <1>1, <1>5, <2>1, <4>1 DEF BranchesOK
    <3> QED
      BY <3>1, <3>2
  <2> QED
    BY <2>1 DEF BranchesOK
<1>8. BeginInFront(s, b)
  <2>1. StartFollows(s, b.beginCatchLeave)
    BY <1>4, <1>6 DEF BeginInFront, StartFollows
  <2> QED
    BY <1>3, <1>4, <1>6, <2>1 DEF BeginInFront, Before, NotAfter
<1>9. EndBehind(s, b, e)
  BY <1>3, <1>4, <1>6 DEF EndBehind, Before, NotAfter
<1>10. StartsOK(s)
  BY <1>1, <1>3, <1>4, StartsKept
<1> QED
  BY <1>5, <1>6, <1>7, <1>8, <1>9, <1>10 DEF RewriterOK

LEMMA ReturnReplaced ==
  ASSUME NEW m \in MethodBody, NEW r, RewriterOK(r), NEW b, BeginInFront(r, b),
         NEW e, EndBehind(r, b, e), NEW id \in Listed(r),
         NEW s, s = ReturnToLeave(m, r, id, NextInstr(r, e.endFinally))
  PROVE  RewriterOK(s) /\ BeginInFront(s, b) /\ EndBehind(s, b, e)
<1> DEFINE after == NextInstr(r, e.endFinally)
           store == <<StLocal(ReturnValueIndex(m))>>
           q == IF m.isVoid THEN r ELSE InsertAllBefore(r, id, store)
<1>1. ListOK(r) /\ ClausesOK(r) /\ after \in Starts(r)
  BY BehindFinally DEF RewriterOK
<1>2. s = Leaving(q, id, after)
  BY DEF ReturnToLeave, InsertBefore, Leaving
<1> HIDE DEF after
<1>3. store \in Seq(Laid(Sentinel))
  <2>1. StLocal(ReturnValueIndex(m)) \in Laid(Sentinel)
    BY Indices, LocalsStraight, StraightLaid
  <2> QED
    BY <2>1
<1> HIDE DEF store
<1>4. /\ RewriterOK(q) /\ BeginInFront(q, b) /\ EndBehind(q, b, e)
      /\ id \in Listed(q) /\ after \in Starts(q)
  <2>1. CASE m.isVoid
    BY <1>1, <2>1
  <2>2. CASE ~m.isVoid
    <3> DEFINE u == InsertAllBefore(r, id, store)
    <3>1. q = u
      BY <2>2
    <3> HIDE DEF q, u
    <3>2. u = InsertAllBefore(r, id, store) /\ Sentinel \in Starts(u)
      BY DEF u, Starts
    <3>3. /\ ListOK(u) /\ Inserted(u, r, Place(r, id), store)
          /\ store \in Seq(Instr) /\ RewriterOK(u)
      BY <1>3, <3>2, InsertLaid
    <3>4. BeginInFront(u, b)
      BY <1>1, <1>3, <3>3, BeginKept
    <3>5. EndBehind(u, b, e)
      <4>1. b.beginCatchLeave \in Listed(r)
        BY DEF BeginInFront
      <4> QED
        BY <1>1, <1>3, <3>3, <4>1, EndKept
    <3>6. id \in Listed(u)
      BY <1>1, <3>3, InsertedPlaces
    <3>7. after \in Starts(u)
      BY <1>1, <3>3, InsertedBranches
    <3> QED
      BY <3>1, <3>3, <3>4, <3>5, <3>6, <3>7
  <2> QED
    BY <2>1, <2>2
<1> HIDE DEF q
<1> QED
  BY <1>2, <1>4, ReturnLeaves

NestedIn(r, c, d) == WithinIn(r, c, d) \/ ApartIn(r, c, d)

\* The marks in the order of the list.
LEMMA MarksOrdered ==
  ASSUME NEW r, ListOK(r), NEW b, BeginInFront(r, b), NEW e, EndBehind(r, b, e)
  PROVE  /\ {b.first, b.beginCatch, b.beginCatchLeave, e.startCatch, e.rethrow, e.endTry,
              e.endCatch, e.endCatchLeave, e.endFinally} \subseteq Listed(r)
         /\ \A id \in Listed(r) : Place(r, id) \in Nat /\ id \in Nat
         /\ Place(r, b.first) < Place(r, b.beginCatch)
         /\ Place(r, b.beginCatch) < Place(r, b.beginCatchLeave)
         /\ Place(r, b.beginCatchLeave) < Place(r, e.startCatch)
         /\ Place(r, e.startCatch) < Place(r, e.rethrow)
         /\ Place(r, e.rethrow) < Place(r, e.endTry)
         /\ Place(r, e.endTry) < Place(r, e.endCatch)
         /\ Place(r, e.endCatch) < Place(r, e.endCatchLeave)
         /\ Place(r, e.endCatchLeave) < Place(r, e.endFinally)
<1>1. \A id \in Listed(r) : Place(r, id) \in Nat /\ id \in Nat
  BY ListedPlace, ListFacts
<1>2. {b.first, b.beginCatch, b.beginCatchLeave, e.startCatch, e.rethrow, e.endTry,
       e.endCatch, e.endCatchLeave, e.endFinally} \subseteq Listed(r)
  BY DEF BeginInFront, EndBehind
<1> QED
  BY <1>1, <1>2 DEF BeginInFront, EndBehind, Before

\* A clause of the method is apart from the new catches around BeginMethod and
\* EndMethod, and inside the try of the two others.
LEMMA OldInNew ==
  ASSUME NEW r, ListOK(r), NEW b, BeginInFront(r, b), NEW e, EndBehind(r, b, e),
         NEW k \in DOMAIN r.eh, NEW c, c = r.eh[k], ClauseListed(r, c), NEW i \in 1 .. 4
  PROVE  NestedIn(r, c, NewClauses(b, e)[i])
<1>1. /\ Place(r, c.tryBegin) \in Nat /\ Place(r, c.handlerEnd) \in Nat
      /\ Place(r, b.beginCatchLeave) < Place(r, c.tryBegin)
      /\ Place(r, c.handlerEnd) < Place(r, e.startCatch)
  <2>1. c.tryBegin \in Listed(r) /\ c.handlerEnd \in Listed(r)
    BY DEF ClauseListed
  <2>2. \A id \in Listed(r) : Place(r, id) \in Nat
    BY MarksOrdered
  <2>3. Before(r, b.beginCatchLeave, c.tryBegin)
    BY DEF BeginInFront
  <2>4. Before(r, c.handlerEnd, e.startCatch)
    BY DEF EndBehind
  <2> QED
    BY <2>1, <2>2, <2>3, <2>4 DEF Before
<1>2. /\ Place(r, b.first) \in Nat /\ Place(r, b.beginCatch) \in Nat
      /\ Place(r, b.beginCatchLeave) \in Nat /\ Place(r, e.startCatch) \in Nat
      /\ Place(r, e.rethrow) \in Nat /\ Place(r, e.endTry) \in Nat
      /\ Place(r, b.first) < Place(r, b.beginCatch)
      /\ Place(r, b.beginCatch) < Place(r, b.beginCatchLeave)
      /\ Place(r, e.startCatch) < Place(r, e.rethrow)
      /\ Place(r, e.rethrow) < Place(r, e.endTry)
  BY MarksOrdered
<1> DEFINE d == NewClauses(b, e)[i]
<1>3. CASE i = 1
  <2>1. d.handlerEnd = b.beginCatchLeave
    BY <1>3 DEF NewClauses, Clause
  <2> HIDE DEF d
  <2>2. ApartIn(r, c, d)
    BY <1>1, <2>1 DEF ApartIn, Before
  <2> QED
    BY <2>2 DEF NestedIn, d
<1>4. CASE i = 2
  <2>1. d.tryBegin = e.endTry
    BY <1>4 DEF NewClauses, Clause
  <2> HIDE DEF d
  <2>2. ApartIn(r, c, d)
    BY <1>1, <1>2, <2>1 DEF ApartIn, Before
  <2> QED
    BY <2>2 DEF NestedIn, d
<1>5. CASE i = 3
  <2>1. d.tryBegin = b.first /\ d.tryEnd = e.startCatch
    BY <1>5 DEF NewClauses, Clause
  <2> HIDE DEF d
  <2>2. WithinIn(r, c, d)
    BY <1>1, <1>2, <2>1 DEF WithinIn, Before, NotAfter
  <2> QED
    BY <2>2 DEF NestedIn, d
<1>6. CASE i = 4
  <2>1. d.tryBegin = b.first /\ d.tryEnd = e.endTry
    BY <1>6 DEF NewClauses, Clause
  <2> HIDE DEF d
  <2>2. WithinIn(r, c, d)
    BY <1>1, <1>2, <2>1 DEF WithinIn, Before, NotAfter
  <2> QED
    BY <2>2 DEF NestedIn, d
<1> QED
  BY <1>3, <1>4, <1>5, <1>6

\* The new clauses: the catches around BeginMethod and EndMethod are apart, the
\* first is inside the try of the two others, and the second is behind the
\* catch of the method and in the handler of the finally.
LEMMA NewInNew ==
  ASSUME NEW r, ListOK(r), NEW b, BeginInFront(r, b), NEW e, EndBehind(r, b, e),
         NEW i \in 1 .. 4, NEW j \in 1 .. 4, i < j
  PROVE  NestedIn(r, NewClauses(b, e)[i], NewClauses(b, e)[j])
<1> DEFINE c == NewClauses(b, e)[i]
           d == NewClauses(b, e)[j]
<1>1. /\ Place(r, b.first) \in Nat /\ Place(r, b.beginCatch) \in Nat
      /\ Place(r, b.beginCatchLeave) \in Nat /\ Place(r, e.startCatch) \in Nat
      /\ Place(r, e.rethrow) \in Nat /\ Place(r, e.endTry) \in Nat
      /\ Place(r, e.endCatch) \in Nat
      /\ Place(r, e.endCatchLeave) \in Nat /\ Place(r, e.endFinally) \in Nat
      /\ Place(r, b.first) < Place(r, b.beginCatch)
      /\ Place(r, b.beginCatch) < Place(r, b.beginCatchLeave)
      /\ Place(r, b.beginCatchLeave) < Place(r, e.startCatch)
      /\ Place(r, e.startCatch) < Place(r, e.rethrow)
      /\ Place(r, e.rethrow) < Place(r, e.endTry)
      /\ Place(r, e.endTry) < Place(r, e.endCatch)
      /\ Place(r, e.endCatch) < Place(r, e.endCatchLeave)
      /\ Place(r, e.endCatchLeave) < Place(r, e.endFinally)
  BY MarksOrdered
<1>2. CASE i = 1
  <2>1. c.tryBegin = b.first /\ c.handlerEnd = b.beginCatchLeave
    BY <1>2 DEF NewClauses, Clause
  <2>2. CASE j = 2
    <3>1. d.tryBegin = e.endTry
      BY <2>2 DEF NewClauses, Clause
    <3> HIDE DEF c, d
    <3>2. ApartIn(r, c, d)
      BY <1>1, <2>1, <3>1 DEF ApartIn, Before
    <3> QED
      BY <3>2 DEF NestedIn, c, d
  <2>3. CASE j = 3
    <3>1. d.tryBegin = b.first /\ d.tryEnd = e.startCatch
      BY <2>3 DEF NewClauses, Clause
    <3> HIDE DEF c, d
    <3>2. WithinIn(r, c, d)
      BY <1>1, <2>1, <3>1 DEF WithinIn, Before, NotAfter
    <3> QED
      BY <3>2 DEF NestedIn, c, d
  <2>4. CASE j = 4
    <3>1. d.tryBegin = b.first /\ d.tryEnd = e.endTry
      BY <2>4 DEF NewClauses, Clause
    <3> HIDE DEF c, d
    <3>2. WithinIn(r, c, d)
      BY <1>1, <2>1, <3>1 DEF WithinIn, Before, NotAfter
    <3> QED
      BY <3>2 DEF NestedIn, c, d
  <2> QED
    BY <1>2, <2>2, <2>3, <2>4
<1>3. CASE i = 2
  <2>1. c.tryBegin = e.endTry /\ c.handlerEnd = e.endCatchLeave
    BY <1>3 DEF NewClauses, Clause
  <2>2. CASE j = 3
    <3>1. d.handlerEnd = e.rethrow
      BY <2>2 DEF NewClauses, Clause
    <3> HIDE DEF c, d
    <3>2. ApartIn(r, c, d)
      BY <1>1, <2>1, <3>1 DEF ApartIn, Before
    <3> QED
      BY <3>2 DEF NestedIn, c, d
  <2>3. CASE j = 4
    <3>1. d.handlerBegin = e.endTry /\ d.handlerEnd = e.endFinally
      BY <2>3 DEF NewClauses, Clause
    <3> HIDE DEF c, d
    <3>2. WithinIn(r, c, d)
      BY <1>1, <2>1, <3>1 DEF WithinIn, Before, NotAfter
    <3> QED
      BY <3>2 DEF NestedIn, c, d
  <2> QED
    BY <1>3, <2>2, <2>3
<1>4. CASE i = 3
  <2>1. j = 4
    BY <1>4
  <2>2. c.tryBegin = b.first /\ c.handlerEnd = e.rethrow
    BY <1>4 DEF NewClauses, Clause
  <2>3. d.tryBegin = b.first /\ d.tryEnd = e.endTry
    BY <2>1 DEF NewClauses, Clause
  <2> HIDE DEF c, d
  <2>4. WithinIn(r, c, d)
    BY <1>1, <2>2, <2>3 DEF WithinIn, Before, NotAfter
  <2> QED
    BY <2>4 DEF NestedIn, c, d
<1> QED
  BY <1>2, <1>3, <1>4

LEMMA NewListed ==
  ASSUME NEW r, ListOK(r), NEW b, BeginInFront(r, b), NEW e, EndBehind(r, b, e)
  PROVE  /\ NewClauses(b, e) \in Seq(EHClause) /\ Len(NewClauses(b, e)) = 4
         /\ \A i \in 1 .. 4 : ClauseListed(r, NewClauses(b, e)[i])
<1>1. /\ {b.first, b.beginCatch, b.beginCatchLeave, e.startCatch, e.rethrow, e.endTry,
           e.endCatch, e.endCatchLeave, e.endFinally} \subseteq Listed(r)
      /\ \A id \in Listed(r) : id \in Nat
  BY MarksOrdered
<1>2. "Exception" \in Name
  BY DEF Name
<1>3. ASSUME NEW kind \in {"catch", "finally"}, NEW tb \in Listed(r), NEW te \in Listed(r),
             NEW hb \in Listed(r), NEW he \in Listed(r)
      PROVE  Clause(kind, tb, te, hb, he) \in {d \in EHClause : ClauseListed(r, d)}
  <2> DEFINE d == Clause(kind, tb, te, hb, he)
  <2>1. d = [kind |-> kind, class |-> "Exception", tryBegin |-> tb, tryEnd |-> te,
             handlerBegin |-> hb, handlerEnd |-> he]
    BY DEF Clause
  <2>2. tb \in Nat /\ te \in Nat /\ hb \in Nat /\ he \in Nat
    BY <1>1
  <2> HIDE DEF d
  <2>3. d \in EHClause
    BY <1>2, <2>1, <2>2 DEF EHClause
  <2>4. ClauseListed(r, d)
    BY <2>1 DEF ClauseListed
  <2> QED
    BY <2>3, <2>4 DEF d
<1> DEFINE S == {d \in EHClause : ClauseListed(r, d)}
           c1 == Clause("catch", b.first, b.beginCatch, b.beginCatch, b.beginCatchLeave)
           c2 == Clause("catch", e.endTry, e.endCatch, e.endCatch, e.endCatchLeave)
           c3 == Clause("catch", b.first, e.startCatch, e.startCatch, e.rethrow)
           c4 == Clause("finally", b.first, e.endTry, e.endTry, e.endFinally)
<1>4. c1 \in S /\ c2 \in S /\ c3 \in S /\ c4 \in S
  BY <1>1, <1>3
<1>5. NewClauses(b, e) = <<c1, c2, c3, c4>>
  BY DEF NewClauses
<1> HIDE DEF c1, c2, c3, c4
<1>6. /\ <<c1, c2, c3, c4>> \in Seq(EHClause) /\ Len(<<c1, c2, c3, c4>>) = 4
      /\ \A i \in 1 .. 4 : <<c1, c2, c3, c4>>[i] \in S
  BY <1>4
<1> QED
  BY <1>5, <1>6

\* The new clauses have their try before their handler.
LEMMA NewOrdered ==
  ASSUME NEW r, ListOK(r), NEW b, BeginInFront(r, b), NEW e, EndBehind(r, b, e),
         NEW i \in 1 .. 4
  PROVE  ClauseOrdered(r, NewClauses(b, e)[i])
<1> DEFINE d == NewClauses(b, e)[i]
<1>1. /\ {b.first, b.beginCatch, b.beginCatchLeave} \subseteq Starts(r)
      /\ StartFollows(r, b.beginCatchLeave)
  <2>1. /\ {b.first, b.beginCatch, b.beginCatchLeave} \subseteq Listed(r)
        /\ \A id \in Listed(r) : Place(r, id) \in Nat
        /\ Place(r, b.first) < Place(r, b.beginCatch)
        /\ Place(r, b.beginCatch) < Place(r, b.beginCatchLeave)
    BY MarksOrdered
  <2>2. \A id \in {b.first, b.beginCatch, b.beginCatchLeave} :
           NotAfter(r, id, b.beginCatchLeave)
    BY <2>1 DEF NotAfter
  <2>3. /\ \A id \in Listed(r) :
              NotAfter(r, id, b.beginCatchLeave) => r.instr[id].op # "switch_arg"
        /\ StartFollows(r, b.beginCatchLeave)
    BY DEF BeginInFront
  <2> QED
    BY <2>1, <2>2, <2>3 DEF Starts
<1>2. \A id \in {e.startCatch, e.rethrow, e.endTry, e.endCatch, e.endCatchLeave, e.endFinally} :
         id \in Starts(r) /\ StartFollows(r, id)
  BY EndFollows
<1>3. /\ Place(r, b.first) \in Nat /\ Place(r, b.beginCatch) \in Nat
      /\ Place(r, b.beginCatchLeave) \in Nat /\ Place(r, e.startCatch) \in Nat
      /\ Place(r, e.rethrow) \in Nat /\ Place(r, e.endTry) \in Nat
      /\ Place(r, e.endCatch) \in Nat
      /\ Place(r, e.endCatchLeave) \in Nat /\ Place(r, e.endFinally) \in Nat
      /\ Place(r, b.first) < Place(r, b.beginCatch)
      /\ Place(r, b.beginCatch) < Place(r, b.beginCatchLeave)
      /\ Place(r, b.beginCatchLeave) < Place(r, e.startCatch)
      /\ Place(r, e.startCatch) < Place(r, e.rethrow)
      /\ Place(r, e.rethrow) < Place(r, e.endTry)
      /\ Place(r, e.endTry) < Place(r, e.endCatch)
      /\ Place(r, e.endCatch) < Place(r, e.endCatchLeave)
      /\ Place(r, e.endCatchLeave) < Place(r, e.endFinally)
  BY MarksOrdered
<1>4. CASE i = 1
  <2>1. /\ d.tryBegin = b.first /\ d.tryEnd = b.beginCatch
        /\ d.handlerBegin = b.beginCatch /\ d.handlerEnd = b.beginCatchLeave
    BY <1>4 DEF NewClauses, Clause
  <2> HIDE DEF d
  <2>2. ClauseOrdered(r, d)
    BY <1>1, <1>3, <2>1 DEF ClauseOrdered, Before, NotAfter
  <2> QED
    BY <2>2 DEF d
<1>5. CASE i = 2
  <2>1. /\ d.tryBegin = e.endTry /\ d.tryEnd = e.endCatch
        /\ d.handlerBegin = e.endCatch /\ d.handlerEnd = e.endCatchLeave
    BY <1>5 DEF NewClauses, Clause
  <2> HIDE DEF d
  <2>2. ClauseOrdered(r, d)
    BY <1>2, <1>3, <2>1 DEF ClauseOrdered, Before, NotAfter
  <2> QED
    BY <2>2 DEF d
<1>6. CASE i = 3
  <2>1. /\ d.tryBegin = b.first /\ d.tryEnd = e.startCatch
        /\ d.handlerBegin = e.startCatch /\ d.handlerEnd = e.rethrow
    BY <1>6 DEF NewClauses, Clause
  <2> HIDE DEF d
  <2>2. ClauseOrdered(r, d)
    BY <1>1, <1>2, <1>3, <2>1 DEF ClauseOrdered, Before, NotAfter
  <2> QED
    BY <2>2 DEF d
<1>7. CASE i = 4
  <2>1. /\ d.tryBegin = b.first /\ d.tryEnd = e.endTry
        /\ d.handlerBegin = e.endTry /\ d.handlerEnd = e.endFinally
    BY <1>7 DEF NewClauses, Clause
  <2> HIDE DEF d
  <2>2. ClauseOrdered(r, d)
    BY <1>1, <1>2, <1>3, <2>1 DEF ClauseOrdered, Before, NotAfter
  <2> QED
    BY <2>2 DEF d
<1> QED
  BY <1>4, <1>5, <1>6, <1>7

LEMMA ClausesAdded ==
  ASSUME NEW r, RewriterOK(r), NEW b, BeginInFront(r, b), NEW e, EndBehind(r, b, e),
         NEW s, s = AddClauses(r, b, e)
  PROVE  RewriterOK(s)
<1> DEFINE news == NewClauses(b, e)
<1>1. ListOK(r) /\ BranchesOK(r) /\ ClausesOK(r) /\ StartsOK(r)
  BY DEF RewriterOK
<1>2. DOMAIN r = {"il", "instr", "eh", "maxStack"}
  BY <1>1 DEF ListOK
<1>3. /\ s.il = r.il /\ s.instr = r.instr /\ DOMAIN s = DOMAIN r /\ s.eh = r.eh \o news
  BY <1>2 DEF AddClauses
<1>4. ListOK(s) /\ Listed(s) = Listed(r) /\ \A id : Place(s, id) = Place(r, id)
  <2>1. ListOK(s)
    BY <1>1, <1>3 DEF ListOK
  <2>2. Listed(s) = Listed(r)
    BY <1>3 DEF Listed
  <2>3. \A id : Place(s, id) = Place(r, id)
    BY <1>3 DEF Place
  <2> QED
    BY <2>1, <2>2, <2>3
<1>5. BranchesOK(s)
  BY <1>1, <1>3, <1>4 DEF BranchesOK, Starts
<1>6. PICK n \in Nat : n = Len(r.eh) /\ DOMAIN r.eh = 1 .. n /\ r.eh \in Seq(EHClause)
  BY <1>1, LenProperties DEF ClausesOK
<1>7. /\ news \in Seq(EHClause) /\ Len(news) = 4
      /\ \A i \in 1 .. 4 : ClauseListed(r, news[i])
  BY <1>1, NewListed
<1>8. /\ s.eh \in Seq(EHClause) /\ DOMAIN s.eh = 1 .. n + 4
      /\ \A k \in 1 .. n : s.eh[k] = r.eh[k]
      /\ \A i \in 1 .. 4 : s.eh[n + i] = news[i]
  <2> HIDE DEF news
  <2> DEFINE t == r.eh \o news
  <2>1. t \in Seq(EHClause) /\ Len(t) = n + 4
    <3>1. t \in Seq(EHClause) /\ Len(t) = Len(r.eh) + Len(news)
      BY <1>6, <1>7, ConcatProperties
    <3> QED
      BY <1>6, <1>7, <3>1
  <2>2. \A k \in 1 .. n : t[k] = r.eh[k]
    BY <1>6, <1>7
  <2>3. ASSUME NEW i \in 1 .. 4
        PROVE  t[n + i] = news[i]
    <3> DEFINE j == n + i
    <3>1. j \in 1 .. Len(r.eh) + Len(news) /\ ~(j <= Len(r.eh)) /\ j - Len(r.eh) = i
      BY <1>6, <1>7
    <3> HIDE DEF j
    <3>2. t[j] = IF j <= Len(r.eh) THEN r.eh[j] ELSE news[j - Len(r.eh)]
      BY <1>6, <1>7, <3>1, ConcatProperties
    <3> QED
      BY <3>1, <3>2 DEF j
  <2> HIDE DEF t
  <2>4. DOMAIN t = 1 .. n + 4
    BY <2>1
  <2> QED
    BY <1>3, <2>1, <2>2, <2>3, <2>4 DEF t
<1> HIDE DEF news
<1>9. \A k \in 1 .. n + 4 : k \in 1 .. n \/ \E i \in 1 .. 4 : k = n + i
  <2>1. ASSUME NEW k \in 1 .. n + 4, k \notin 1 .. n
        PROVE  \E i \in 1 .. 4 : k = n + i
    <3>1. k - n \in 1 .. 4 /\ k = n + (k - n)
      BY <2>1
    <3> QED
      BY <3>1
  <2> QED
    BY <2>1
<1>10. ASSUME NEW k \in DOMAIN s.eh
       PROVE  ClauseListed(s, s.eh[k])
  <2>1. CASE k \in 1 .. n
    <3>1. s.eh[k] = r.eh[k] /\ k \in DOMAIN r.eh
      BY <1>6, <1>8, <2>1
    <3>2. ClauseListed(r, r.eh[k])
      BY <1>1, <3>1 DEF ClausesOK
    <3> QED
      BY <1>4, <3>1, <3>2 DEF ClauseListed
  <2>2. CASE \E i \in 1 .. 4 : k = n + i
    BY <1>4, <1>7, <1>8, <2>2 DEF ClauseListed
  <2> QED
    BY <1>8, <1>9, <1>10, <2>1, <2>2
<1>11. ASSUME NEW k \in DOMAIN s.eh, NEW l \in DOMAIN s.eh, k < l
       PROVE  NestedIn(r, s.eh[k], s.eh[l])
  <2>1. k \in 1 .. n + 4 /\ l \in 1 .. n + 4
    BY <1>8
  <2>2. CASE k \in 1 .. n /\ l \in 1 .. n
    BY <1>1, <1>6, <1>8, <1>11, <2>2 DEF ClausesOK, NestedIn
  <2>3. CASE k \in 1 .. n /\ l \notin 1 .. n
    <3>1. PICK i \in 1 .. 4 : l = n + i
      BY <1>9, <2>1, <2>3
    <3>2. ClauseListed(r, r.eh[k])
      BY <1>1, <1>6, <2>3 DEF ClausesOK
    <3>3. NestedIn(r, r.eh[k], NewClauses(b, e)[i])
      BY <1>1, <1>6, <2>3, <3>2, OldInNew
    <3> QED
      BY <1>8, <2>3, <3>1, <3>3 DEF news
  <2>4. CASE k \notin 1 .. n
    <3>1. PICK i \in 1 .. 4 : k = n + i
      BY <1>9, <2>1, <2>4
    <3>2. l \notin 1 .. n
      BY <1>11, <2>1, <2>4
    <3>3. PICK j \in 1 .. 4 : l = n + j
      BY <1>9, <2>1, <3>2
    <3>4. i < j
      BY <1>11, <3>1, <3>3
    <3>5. NestedIn(r, NewClauses(b, e)[i], NewClauses(b, e)[j])
      BY <1>1, <3>4, NewInNew
    <3> QED
      BY <1>8, <3>1, <3>3, <3>5 DEF news
  <2> QED
    BY <2>2, <2>3, <2>4
<1>12. \A c, d : NestedIn(r, c, d) => NestedIn(s, c, d)
  BY <1>4 DEF NestedIn, WithinIn, ApartIn, Before, NotAfter
<1>13. ClausesOK(s)
  BY <1>8, <1>10, <1>11, <1>12 DEF ClausesOK, NestedIn
<1>14. \A c : ClauseOrdered(r, c) => ClauseOrdered(s, c)
  BY <1>3, <1>4 DEF ClauseOrdered, StartFollows, Starts, Before, NotAfter
<1>15. ASSUME NEW k \in DOMAIN s.eh
       PROVE  ClauseOrdered(s, s.eh[k])
  <2>1. CASE k \in 1 .. n
    <3>1. s.eh[k] = r.eh[k] /\ k \in DOMAIN r.eh
      BY <1>6, <1>8, <2>1
    <3> QED
      BY <1>1, <1>14, <3>1 DEF StartsOK
  <2>2. CASE \E i \in 1 .. 4 : k = n + i
    <3>1. PICK i \in 1 .. 4 : k = n + i
      BY <2>2
    <3>2. ClauseOrdered(r, NewClauses(b, e)[i])
      BY <1>1, NewOrdered
    <3> QED
      BY <1>8, <1>14, <3>1, <3>2 DEF news
  <2> QED
    BY <1>8, <1>9, <1>15, <2>1, <2>2
<1>16. StartsOK(s)
  BY <1>1, <1>3, <1>4, <1>15 DEF StartsOK, Starts
<1> QED
  BY <1>4, <1>5, <1>13, <1>16 DEF RewriterOK

----------------------------------------------------------------------------
(* The invariant                                                            *)

\* What the import gives, when it goes on with the method.
LEMMA Imported ==
  ASSUME NEW m \in MethodBody, WellFormed(m), NEW r, r = Import(m)
  PROVE  RewriterOK(r) /\ r.il[1] \in Starts(r)
<1>1. m.code \in Seq(EncodedInstr) /\ m.clauses \in Seq(EncodedClause)
  BY DEF MethodBody
<1>2. /\ ListOK(r) /\ BranchesOK(r)
      /\ Len(r.il) = Len(m.code) /\ Listed(r) = DOMAIN m.code
      /\ \A i \in DOMAIN m.code : Place(r, i) = i /\ r.instr[i].op = m.code[i].op
  BY <1>1, ImportedList
<1>3. ClausesOK(r) /\ \A k \in DOMAIN r.eh : ClauseOrdered(r, r.eh[k])
  BY <1>1, ImportedClauses
<1>4. m.code # <<>> /\ m.code[1].op # "switch_arg"
  BY DEF WellFormed, InOrder
<1>5. 1 \in DOMAIN m.code /\ r.il[1] = 1
  <2>1. 1 \in DOMAIN m.code
    BY <1>1, <1>4
  <2>2. r.il = [i \in DOMAIN m.code |-> i]
    BY DEF Import
  <2> QED
    BY <2>1, <2>2
<1>6. r.il[1] \in Starts(r)
  BY <1>2, <1>4, <1>5 DEF Starts
<1> QED
  BY <1>2, <1>3, <1>6 DEF RewriterOK, StartsOK

\* The method is one of those given, and the CLR accepts it.
LEMMA GivenAccepted ==
  ASSUME MethodsAssumption, MethodGiven, phase \notin {"rewritten", "done"}
  PROVE  method \in MethodBody /\ WellFormed(method)
BY DEF MethodsAssumption, MethodGiven

\* What the last pass writes is a valid body.
LEMMA ExportedValid ==
  ASSUME NEW r, RewriterOK(r), TooFar(r) = {}, NEW b, b = Encode(r)
  PROVE  /\ WellFormed(b)
         /\ \A i \in DOMAIN b.code :
               b.code[i].op \in Branch =>
                  LET s == r.instr[r.il[i]] IN
                  /\ IsStart(b.code, TargetOffset(b.code, i))
                  /\ InstrFromOffset(b.code, TargetOffset(b.code, i))
                         = (IF s.target = Sentinel THEN Sentinel ELSE Place(r, s.target))
<1>1. ListOK(r) /\ BranchesOK(r) /\ ClausesOK(r) /\ StartsOK(r)
  BY DEF RewriterOK
<1>2. Nested(b.clauses)
  BY <1>1, ExportedClauses
<1> DEFINE code == b.code
<1>3. DOMAIN code = DOMAIN r.il
  <2>1. Len(code) = Len(r.il) /\ Ordered(code)
    BY <1>1, EncodedCode
  <2> QED
    BY <1>1, <2>1, ListFacts DEF Ordered
<1>4. code = Encode(r).code
  OBVIOUS
<1> HIDE DEF code
<1>5. ASSUME NEW i \in DOMAIN code, code[i].op \in Branch
      PROVE  LET s == r.instr[r.il[i]] IN
             /\ IsStart(code, TargetOffset(code, i))
             /\ InstrFromOffset(code, TargetOffset(code, i))
                    = (IF s.target = Sentinel THEN Sentinel ELSE Place(r, s.target))
  <2> DEFINE target == r.instr[r.il[i]].target
  <2>1. i \in DOMAIN r.il /\ target = r.instr[r.il[i]].target
    BY <1>3
  <2> HIDE DEF target
  <2>2. /\ IsStart(code, TargetOffset(code, i))
        /\ InstrFromOffset(code, TargetOffset(code, i))
               = IF target = Sentinel THEN Sentinel ELSE Place(r, target)
    BY <1>1, <1>4, <1>5, <2>1, ExportedBranches
  <2> QED
    BY <2>2 DEF target
<1>6. InOrder(code)
  <2>1. Ordered(code) /\ code[1].op = r.instr[r.il[1]].op /\ 1 \in DOMAIN code
    <3>1. 1 \in DOMAIN r.il
      BY <1>1, ListFacts
    <3> QED
      BY <1>1, <1>3, <1>4, <3>1, EncodedCode
  <2>2. code # <<>>
    BY <2>1
  <2>3. r.instr[r.il[1]].op # "switch_arg"
    <3>1. r.il[1] \in Listed(r)
      BY <1>3, <2>1 DEF Listed
    <3>2. r.il[1] # Sentinel
      BY <1>1, <3>1, ListedPlace
    <3> QED
      BY <1>1, <3>2 DEF StartsOK, Starts
  <2> QED
    BY <2>1, <2>2, <2>3 DEF InOrder, Ordered
<1>7. Importable(b)
  <2>1. \A k \in DOMAIN b.clauses :
           LET c == b.clauses[k] IN
           /\ \A o \in {c.try, c.tryEnd, c.handler, c.handlerEnd} : IsStart(b.code, o)
           /\ c.try < c.tryEnd /\ c.tryEnd <= c.handler /\ c.handler < c.handlerEnd
    BY <1>1, ExportedBounds
  <2>2. \A i \in DOMAIN code : code[i].op \in Branch => IsStart(code, TargetOffset(code, i))
    BY <1>5
  <2> QED
    BY <2>1, <2>2 DEF Importable, code
<1> QED
  BY <1>2, <1>5, <1>6, <1>7 DEF WellFormed, code

LEMMA FirstReturn ==
  ASSUME NEW r, ListOK(r), NEW id, Returns(r, id) # {}
  PROVE  /\ Min(Returns(r, id)) \in Returns(r, id)
         /\ Min(Returns(r, id)) \in DOMAIN r.il
<1> DEFINE S == Returns(r, id)
<1>1. S \in SUBSET Nat /\ S \subseteq DOMAIN r.il
  BY ListFacts DEF Returns
<1> HIDE DEF S
<1>2. PICK x \in S : \A y \in S : x <= y
  BY <1>1, Least DEF S
<1>3. Min(S) \in S
  BY <1>2 DEF Min
<1> QED
  BY <1>1, <1>3 DEF S

LEMMA InvInit ==
  ASSUME Init
  PROVE  IInv
<1>1. phase = "original" /\ \E i \in DOMAIN Methods : method = Methods[i]
  BY DEF Init
<1> QED
  BY <1>1 DEF IInv, Phases, MethodGiven, RewriterInPhase, BodyValid, Instrumented

LEMMA RunOriginalStep ==
  ASSUME IInv, RunOriginal \/ FinishOriginal
  PROVE  IInv'
<1>1. /\ phase = "original" /\ phase' \in {"original", "import"}
      /\ UNCHANGED <<method, rewriter, marks>>
  BY DEF RunOriginal, FinishOriginal
<1> QED
  BY <1>1 DEF IInv, Phases, MethodGiven, RewriterInPhase, BodyValid, Instrumented, marks

LEMMA ImportStep ==
  ASSUME IInv, ImportBody
  PROVE  IInv'
<1>1. /\ phase = "import" /\ rewriter' = Import(method) /\ UNCHANGED <<method, marks>>
      /\ phase' = IF method.supported THEN "begin" ELSE "done"
  BY DEF ImportBody
<1>2. MethodGiven'
  BY <1>1 DEF IInv, MethodGiven
<1>3. RewriterInPhase'
  BY <1>1 DEF RewriterInPhase
<1> QED
  BY <1>1, <1>2, <1>3 DEF IInv, Phases, BodyValid, Instrumented

LEMMA BeginStep ==
  ASSUME MethodsAssumption, IInv, RewriteBegin
  PROVE  IInv'
<1>1. /\ phase = "begin" /\ phase' = "end" /\ method' = method
      /\ beginMarks' = BeginMarks(method, rewriter)
      /\ rewriter' = InsertBegin(method, rewriter)
  BY DEF RewriteBegin
<1>2. method \in MethodBody /\ WellFormed(method)
  BY <1>1, GivenAccepted DEF IInv
<1>3. rewriter = Import(method)
  BY <1>1 DEF IInv, RewriterInPhase
<1>4. RewriterOK(rewriter) /\ rewriter.il[1] \in Starts(rewriter)
  BY <1>2, <1>3, Imported
<1>5. RewriterOK(rewriter') /\ BeginInFront(rewriter', beginMarks')
  BY <1>1, <1>2, <1>4, BeginInserted
<1> QED
  BY <1>1, <1>5 DEF IInv, Phases, MethodGiven, RewriterInPhase, BodyValid, Instrumented

LEMMA EndStep ==
  ASSUME MethodsAssumption, IInv, RewriteEnd
  PROVE  IInv'
<1>1. /\ phase = "end" /\ phase' = "returns" /\ method' = method
      /\ beginMarks' = beginMarks /\ endMarks' = EndMarks(method, rewriter)
      /\ rewriter' = InsertEnd(method, rewriter)
  BY DEF RewriteEnd
<1>2. method \in MethodBody /\ RewriterOK(rewriter) /\ BeginInFront(rewriter, beginMarks)
  BY <1>1, GivenAccepted DEF IInv, RewriterInPhase
<1>3. /\ RewriterOK(rewriter') /\ BeginInFront(rewriter', beginMarks')
      /\ EndBehind(rewriter', beginMarks', endMarks')
  BY <1>1, <1>2, EndInserted
<1> QED
  BY <1>1, <1>3 DEF IInv, Phases, MethodGiven, RewriterInPhase, BodyValid, Instrumented

LEMMA ReturnStep ==
  ASSUME MethodsAssumption, IInv, ReplaceReturn
  PROVE  IInv'
<1> DEFINE id == rewriter.il[Min(Returns(rewriter, endMarks.methodReturn))]
<1>1. /\ phase = "returns" /\ Returns(rewriter, endMarks.methodReturn) # {}
      /\ rewriter' = ReturnToLeave(method, rewriter, id, NextInstr(rewriter, endMarks.endFinally))
      /\ UNCHANGED <<phase, method, marks>>
  BY DEF ReplaceReturn
<1>2. /\ method \in MethodBody /\ RewriterOK(rewriter)
      /\ BeginInFront(rewriter, beginMarks) /\ EndBehind(rewriter, beginMarks, endMarks)
  BY <1>1, GivenAccepted DEF IInv, RewriterInPhase
<1>3. id \in Listed(rewriter)
  <2>1. ListOK(rewriter)
    BY <1>2 DEF RewriterOK
  <2>2. Min(Returns(rewriter, endMarks.methodReturn)) \in DOMAIN rewriter.il
    BY <1>1, <2>1, FirstReturn
  <2> QED
    BY <2>2 DEF Listed
<1> HIDE DEF id
<1>4. /\ RewriterOK(rewriter') /\ BeginInFront(rewriter', beginMarks)
      /\ EndBehind(rewriter', beginMarks, endMarks)
  BY <1>1, <1>2, <1>3, ReturnReplaced
<1> QED
  BY <1>1, <1>4 DEF IInv, MethodGiven, RewriterInPhase, BodyValid, Instrumented, marks

LEMMA ClausesStep ==
  ASSUME IInv, SetEHClause
  PROVE  IInv'
<1>1. /\ phase = "returns" /\ phase' = "export" /\ method' = method
      /\ rewriter' = AddClauses(rewriter, beginMarks, endMarks)
  BY DEF SetEHClause
<1>2. /\ RewriterOK(rewriter) /\ BeginInFront(rewriter, beginMarks)
      /\ EndBehind(rewriter, beginMarks, endMarks)
  BY <1>1 DEF IInv, RewriterInPhase
<1>3. RewriterOK(rewriter')
  BY <1>1, <1>2, ClausesAdded
<1> QED
  BY <1>1, <1>3 DEF IInv, Phases, MethodGiven, RewriterInPhase, BodyValid, Instrumented

LEMMA WidenStep ==
  ASSUME IInv, WidenBranches
  PROVE  IInv'
<1>1. /\ phase = "export" /\ rewriter' = Widen(rewriter) /\ UNCHANGED <<phase, method>>
  BY DEF WidenBranches
<1>2. RewriterOK(rewriter)
  BY <1>1 DEF IInv, RewriterInPhase
<1>3. RewriterOK(rewriter')
  BY <1>1, <1>2, WidenKeeps
<1> QED
  BY <1>1, <1>3 DEF IInv, MethodGiven, RewriterInPhase, BodyValid, Instrumented

LEMMA ExportStep ==
  ASSUME MethodsAssumption, IInv, ExportBody
  PROVE  IInv'
<1> DEFINE b == Encode(rewriter)
<1>1. /\ phase = "export" /\ phase' = "rewritten" /\ TooFar(rewriter) = {}
      /\ rewriter' = rewriter
      /\ method' = [method EXCEPT !.code = b.code, !.clauses = b.clauses,
                                  !.maxStack = b.maxStack, !.locals = NewLocalsCount(method)]
  BY DEF ExportBody
<1>2. method \in MethodBody /\ RewriterOK(rewriter)
  BY <1>1, GivenAccepted DEF IInv, RewriterInPhase
<1>3. b = Encode(rewriter)
  OBVIOUS
<1> HIDE DEF b
<1>4. method'.code = b.code /\ method'.clauses = b.clauses
  BY <1>1, <1>2 DEF MethodBody
<1>5. /\ WellFormed(b)
      /\ \A i \in DOMAIN b.code :
            b.code[i].op \in Branch =>
               LET s == rewriter.instr[rewriter.il[i]] IN
               /\ IsStart(b.code, TargetOffset(b.code, i))
               /\ InstrFromOffset(b.code, TargetOffset(b.code, i))
                      = (IF s.target = Sentinel THEN Sentinel ELSE Place(rewriter, s.target))
  BY <1>1, <1>2, <1>3, ExportedValid
<1>6. WellFormed(method)'
  BY <1>4, <1>5 DEF WellFormed, Importable
<1>7. BodyValid'
  BY <1>1, <1>4, <1>5, <1>6 DEF BodyValid, BranchesLand
<1> QED
  BY <1>1, <1>7 DEF IInv, Phases, MethodGiven, RewriterInPhase

LEMMA RewrittenStep ==
  ASSUME IInv, RunRewritten \/ FinishRewritten \/ UNCHANGED vars
  PROVE  IInv'
<1>1. CASE RunRewritten \/ FinishRewritten
  <2>1. /\ phase = "rewritten" /\ phase' \in {"rewritten", "done"}
        /\ UNCHANGED <<method, rewriter>>
    BY <1>1 DEF RunRewritten, FinishRewritten
  <2>2. BodyValid'
    BY <2>1 DEF IInv, BodyValid, Instrumented, BranchesLand
  <2> QED
    BY <2>1, <2>2 DEF IInv, Phases, MethodGiven, RewriterInPhase
<1>2. CASE UNCHANGED vars
  BY <1>2 DEF vars, marks, IInv, MethodGiven, RewriterInPhase, BodyValid, Instrumented,
              BranchesLand
<1> QED
  BY <1>1, <1>2

LEMMA InvStep ==
  ASSUME MethodsAssumption, IInv, [Next]_vars
  PROVE  IInv'
<1>1. CASE Done
  BY <1>1, RewrittenStep DEF Done
<1> QED
  BY <1>1, RunOriginalStep, ImportStep, BeginStep, EndStep, ReturnStep, ClausesStep, WidenStep,
     ExportStep, RewrittenStep DEF Next

\* However the method branches and however its clauses are nested, the body that
\* Export writes is one the CLR accepts: every branch leads to the instruction it
\* named in the rewriter, also when the code between them has grown or the branch
\* has become long; every clause begins and ends where an instruction does, its
\* try before its handler; and of two clauses the earlier is inside the other or
\* apart from it.
THEOREM BodiesValid ==
  ASSUME MethodsAssumption
  PROVE  Spec => []BodyValid
<1>1. Init => IInv
  BY InvInit
<1>2. IInv /\ [Next]_vars => IInv'
  BY InvStep
<1>3. IInv => BodyValid
  BY DEF IInv
<1> QED
  BY <1>1, <1>2, <1>3, PTL DEF Spec

----------------------------------------------------------------------------
(* The loops of the callback and of Export come to an end                   *)

ReturnsLeft(r) == {id \in Listed(r) : r.instr[id].op = "ret"}
ShortBranches(r) == {id \in DOMAIN r.instr : r.instr[id].op \in Short}

Fewer(S, T) == Cardinality(S) \in Nat /\ Cardinality(T) \in Nat /\ Cardinality(S) < Cardinality(T)

LEMMA SmallerSet ==
  ASSUME NEW n \in Nat, NEW T, T \subseteq 1 .. n, NEW S, S \subseteq T, NEW x \in T, x \notin S
  PROVE  Fewer(S, T)
<1>1. IsFiniteSet(T)
  <2>1. IsFiniteSet(1 .. n)
    BY FS_Interval
  <2> QED
    BY <2>1, FS_Subset
<1>2. IsFiniteSet(S) /\ Cardinality(S) <= Cardinality(T) /\ Cardinality(S) # Cardinality(T)
  BY <1>1, FS_Subset
<1>3. Cardinality(S) \in Nat /\ Cardinality(T) \in Nat
  BY <1>1, <1>2, FS_CardinalityType
<1> QED
  BY <1>2, <1>3 DEF Fewer

\* The return that is replaced is gone, and none has come in its place.
LEMMA ReturnGone ==
  ASSUME NEW m \in MethodBody, NEW r, RewriterOK(r), NEW id \in ReturnsLeft(r),
         NEW after \in Nat, NEW s, s = ReturnToLeave(m, r, id, after)
  PROVE  Fewer(ReturnsLeft(s), ReturnsLeft(r))
<1> DEFINE store == <<StLocal(ReturnValueIndex(m))>>
           q == IF m.isVoid THEN r ELSE InsertAllBefore(r, id, store)
<1>1. ListOK(r) /\ id \in Listed(r)
  BY DEF RewriterOK, ReturnsLeft
<1>2. s = Leaving(q, id, after)
  BY DEF ReturnToLeave, InsertBefore, Leaving
<1>3. store \in Seq(Laid(Sentinel)) /\ \A i \in 1 .. Len(store) : store[i].op = "stloc"
  <2>1. StLocal(ReturnValueIndex(m)) \in Laid(Sentinel)
    BY Indices, LocalsStraight, StraightLaid
  <2>2. StLocal(ReturnValueIndex(m)).op = "stloc"
    BY DEF StLocal, Plain
  <2> DEFINE w == StLocal(ReturnValueIndex(m))
  <2> HIDE DEF w
  <2>3. <<w>> \in Seq(Laid(Sentinel)) /\ \A i \in 1 .. Len(<<w>>) : <<w>>[i].op = "stloc"
    BY <2>1, <2>2 DEF w
  <2> QED
    BY <2>3 DEF w
<1> HIDE DEF store
<1>4. ListOK(q) /\ id \in Listed(q) /\ ReturnsLeft(q) \subseteq ReturnsLeft(r)
  <2>1. CASE m.isVoid
    BY <1>1, <2>1
  <2>2. CASE ~m.isVoid
    <3> DEFINE u == InsertAllBefore(r, id, store)
    <3>1. q = u /\ u = InsertAllBefore(r, id, store)
      BY <2>2
    <3> HIDE DEF q, u
    <3>2. ListOK(u) /\ Inserted(u, r, Place(r, id), store) /\ store \in Seq(Instr)
      BY <1>1, <1>3, <3>1, InsertLaid
    <3>3. id \in Listed(u)
      BY <1>1, <3>2, InsertedPlaces
    <3>4. ASSUME NEW j \in ReturnsLeft(u)
          PROVE  j \in ReturnsLeft(r)
      <4>1. j \in Listed(u) /\ u.instr[j].op = "ret"
        BY DEF ReturnsLeft
      <4>2. j \in Listed(r)
        <5>1. ASSUME j \notin Listed(r)
              PROVE  FALSE
          <6>1. PICK i \in 1 .. Len(store) : j = Len(r.instr) + i
            BY <1>1, <3>2, <4>1, <5>1, InsertedPlaces
          <6>2. u.instr[j] = store[i]
            BY <1>1, <3>2, <6>1, InsertedPlaces
          <6> QED
            BY <1>3, <4>1, <6>2
        <5> QED
          BY <5>1
      <4>3. u.instr[j] = r.instr[j]
        BY <1>1, <3>2, <4>2, InsertedPlaces
      <4> QED
        BY <4>1, <4>2, <4>3 DEF ReturnsLeft
    <3> QED
      BY <3>1, <3>2, <3>3, <3>4
  <2> QED
    BY <2>1, <2>2
<1> HIDE DEF q
<1>5. /\ s.il = q.il /\ s.instr[id].op = "leave.s"
      /\ \A j \in Listed(q) : j # id => s.instr[j] = q.instr[j]
  BY <1>2, <1>4, LeaveInstr
<1>6. ASSUME NEW j \in ReturnsLeft(s)
      PROVE  j \in ReturnsLeft(r) /\ j # id
  <2>1. j \in Listed(q) /\ s.instr[j].op = "ret"
    BY <1>5 DEF ReturnsLeft, Listed
  <2>2. j # id /\ q.instr[j].op = "ret"
    BY <1>5, <2>1
  <2> QED
    BY <1>4, <2>1, <2>2 DEF ReturnsLeft
<1>7. ReturnsLeft(r) \subseteq 1 .. Len(r.instr) /\ Len(r.instr) \in Nat
  BY <1>1, ListedPlace, ListFacts DEF ReturnsLeft
<1> QED
  BY <1>6, <1>7, SmallerSet

LEMMA BranchesWidened ==
  ASSUME NEW r, RewriterOK(r), TooFar(r) # {}
  PROVE  Fewer(ShortBranches(Widen(r)), ShortBranches(r))
<1> DEFINE s == Widen(r)
<1>1. ListOK(r)
  BY DEF RewriterOK
<1>2. DOMAIN s.instr = DOMAIN r.instr
  BY <1>1 DEF ListOK, Widen
<1> HIDE DEF s
<1>3. \A op \in Short : Long(op) \notin Short
  BY DEF Short, Long
<1>4. \A id \in DOMAIN r.instr :
         /\ id \in TooFar(r) => r.instr[id].op \in Short /\ s.instr[id].op = Long(r.instr[id].op)
         /\ id \notin TooFar(r) => s.instr[id] = r.instr[id]
  BY <1>1, WidenedInstr DEF s
<1>5. PICK x \in DOMAIN r.instr : x \in TooFar(r)
  BY DEF TooFar
<1>6. x \in ShortBranches(r) /\ x \notin ShortBranches(s)
  BY <1>3, <1>4, <1>5 DEF ShortBranches
<1>7. ShortBranches(s) \subseteq ShortBranches(r)
  BY <1>2, <1>3, <1>4 DEF ShortBranches
<1>8. ShortBranches(r) \subseteq 1 .. Len(r.instr) /\ Len(r.instr) \in Nat
  BY <1>1, ListFacts DEF ShortBranches
<1> QED
  BY <1>6, <1>7, <1>8, SmallerSet DEF s

LEMMA LoopStep ==
  ASSUME MethodsAssumption, IInv
  PROVE  /\ ReplaceReturn => Fewer(ReturnsLeft(rewriter'), ReturnsLeft(rewriter))
         /\ WidenBranches => Fewer(ShortBranches(rewriter'), ShortBranches(rewriter))
<1>1. ASSUME ReplaceReturn
      PROVE  Fewer(ReturnsLeft(rewriter'), ReturnsLeft(rewriter))
  <2> DEFINE returns == Returns(rewriter, endMarks.methodReturn)
             id == rewriter.il[Min(returns)]
             after == NextInstr(rewriter, endMarks.endFinally)
  <2>1. /\ phase = "returns" /\ returns # {}
        /\ rewriter' = ReturnToLeave(method, rewriter, id, after)
    BY <1>1 DEF ReplaceReturn
  <2>2. /\ method \in MethodBody /\ RewriterOK(rewriter) /\ ListOK(rewriter)
        /\ EndBehind(rewriter, beginMarks, endMarks)
    BY <2>1, GivenAccepted DEF IInv, RewriterInPhase, RewriterOK
  <2>3. id \in ReturnsLeft(rewriter)
    <3>1. Min(returns) \in returns /\ Min(returns) \in DOMAIN rewriter.il
      BY <2>1, <2>2, FirstReturn
    <3> QED
      BY <3>1 DEF Returns, ReturnsLeft, Listed
  <2>4. after \in Nat
    <3>1. after \in Starts(rewriter)
      BY <2>2, BehindFinally
    <3>2. \A j \in Listed(rewriter) : j \in Nat
      BY <2>2, ListedPlace, ListFacts
    <3> QED
      BY <3>1, <3>2 DEF Starts, Sentinel
  <2> HIDE DEF id, after
  <2> QED
    BY <2>1, <2>2, <2>3, <2>4, ReturnGone
<1>2. ASSUME WidenBranches
      PROVE  Fewer(ShortBranches(rewriter'), ShortBranches(rewriter))
  <2>1. phase = "export" /\ TooFar(rewriter) # {} /\ rewriter' = Widen(rewriter)
    BY <1>2 DEF WidenBranches
  <2>2. RewriterOK(rewriter)
    BY <2>1 DEF IInv, RewriterInPhase
  <2> QED
    BY <2>1, <2>2, BranchesWidened
<1> QED
  BY <1>1, <1>2

\* The loop over the returns and the passes of Export, the only steps of the
\* callback that repeat, get on: each return that is replaced leaves one fewer,
\* and each pass that is not the last leaves fewer short branches.
THEOREM LoopsProgress ==
  ASSUME MethodsAssumption
  PROVE  Spec =>
            [][/\ ReplaceReturn => Fewer(ReturnsLeft(rewriter'), ReturnsLeft(rewriter))
               /\ WidenBranches => Fewer(ShortBranches(rewriter'), ShortBranches(rewriter))]_vars
<1>1. Init => IInv
  BY InvInit
<1>2. IInv /\ [Next]_vars => IInv'
  BY InvStep
<1>3. IInv => /\ ReplaceReturn => Fewer(ReturnsLeft(rewriter'), ReturnsLeft(rewriter))
              /\ WidenBranches => Fewer(ShortBranches(rewriter'), ShortBranches(rewriter))
  BY LoopStep
<1> QED
  BY <1>1, <1>2, <1>3, PTL DEF Spec
=============================================================================
