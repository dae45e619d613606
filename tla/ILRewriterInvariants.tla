------------------------- MODULE ILRewriterInvariants -------------------------
(***************************************************************************)
(* What holds of the list of the IL rewriter between two edits, whatever   *)
(* the body: it names each instruction once, branches and clauses name     *)
(* instructions in it, and the clauses are nested.  Instructions are       *)
(* compared by their places in the list, which become offsets at the end.  *)
(***************************************************************************)
EXTENDS ILRewriter

\* An instruction of the rewriter, and a clause that names instructions.
Instr == [op : Opcode, bytes : Nat \ {0}, n : Int, name : Name, target : Nat]
EHClause == [kind : {"catch", "finally"}, class : Name, tryBegin : Nat, tryEnd : Nat,
             handlerBegin : Nat, handlerEnd : Nat]

Listed(r) == {r.il[i] : i \in DOMAIN r.il}

\* The list names instructions there are, each of them once.
ListOK(r) ==
    /\ DOMAIN r = {"il", "instr", "eh", "maxStack"}
    /\ r.instr \in Seq(Instr)
    /\ r.il \in Seq(1 .. Len(r.instr))
    /\ r.il # <<>>
    /\ \A i, j \in DOMAIN r.il : r.il[i] = r.il[j] => i = j

\* Where a branch may lead: to an instruction in the list, or behind the last.
Starts(r) == {id \in Listed(r) : r.instr[id].op # "switch_arg"} \cup {Sentinel}

BranchesOK(r) ==
    \A id \in Listed(r) : r.instr[id].op \in Branch => r.instr[id].target \in Starts(r)

Before(r, a, b) == Place(r, a) < Place(r, b)
NotAfter(r, a, b) == Place(r, a) <= Place(r, b)

\* Within and Apart, by places; a handler ends with its last instruction.
WithinIn(r, c, d) ==
    \/ NotAfter(r, d.tryBegin, c.tryBegin) /\ Before(r, c.handlerEnd, d.tryEnd)
    \/ NotAfter(r, d.handlerBegin, c.tryBegin) /\ NotAfter(r, c.handlerEnd, d.handlerEnd)
    \/ c.tryBegin = d.tryBegin /\ c.tryEnd = d.tryEnd /\ Before(r, c.handlerEnd, d.handlerBegin)
ApartIn(r, c, d) == Before(r, c.handlerEnd, d.tryBegin) \/ Before(r, d.handlerEnd, c.tryBegin)

ClauseListed(r, c) ==
    {c.tryBegin, c.tryEnd, c.handlerBegin, c.handlerEnd} \subseteq Listed(r)

\* The clauses name instructions in the list, and are nested.
ClausesOK(r) ==
    /\ r.eh \in Seq(EHClause)
    /\ \A k \in DOMAIN r.eh : ClauseListed(r, r.eh[k])
    /\ \A k, l \in DOMAIN r.eh :
          k < l => WithinIn(r, r.eh[k], r.eh[l]) \/ ApartIn(r, r.eh[k], r.eh[l])

\* What follows an instruction is not one of the targets of a switch.
StartFollows(r, id) ==
    \A next \in Listed(r) : Place(r, next) = Place(r, id) + 1 => r.instr[next].op # "switch_arg"

\* A clause has its try before its handler, and neither begins or ends among
\* the targets of a switch.
ClauseOrdered(r, c) ==
    /\ {c.tryBegin, c.tryEnd, c.handlerBegin} \subseteq Starts(r)
    /\ Before(r, c.tryBegin, c.tryEnd) /\ NotAfter(r, c.tryEnd, c.handlerBegin)
    /\ NotAfter(r, c.handlerBegin, c.handlerEnd)
    /\ StartFollows(r, c.handlerEnd)

StartsOK(r) ==
    /\ r.il[1] \in Starts(r)
    /\ \A k \in DOMAIN r.eh : ClauseOrdered(r, r.eh[k])

RewriterOK(r) == ListOK(r) /\ BranchesOK(r) /\ ClausesOK(r) /\ StartsOK(r)
=============================================================================
