----------------------------- MODULE Generated -----------------------------
(***************************************************************************)
(* The compiler followed by the program it has generated: whatever         *)
(* function Compiler lets through with OK is run by Machine, and its run   *)
(* is one that Meaning allows the function's nodes.                        *)
(***************************************************************************)
EXTENDS Compiler, Words

CONSTANTS Literals,     \* the values number literals are tried with
          MaxCalls      \* the calls there is stack for

ASSUME LiteralsAssumption == Literals \subseteq Ints
ASSUME MaxCallsAssumption == MaxCalls \in Nat

VARIABLES functions,    \* the ir of each function that was finished
          literals, running, blk, nxt, regs, mem, ptrs, saved, callers, stack, shown, status

(* The functions of the program are generated in the order of fns.         *)
FunctionAt(x) == CHOOSE f \in DOMAIN fns : fns[f].name = x

M == INSTANCE Machine WITH
    types   <- val,
    callees <- [n \in Live("call") |-> FunctionAt(ast[n].x)]

machine == <<literals, running, blk, nxt, regs, mem, ptrs, saved, callers, stack, shown, status>>
allVars == <<vars, functions, machine>>

GeneratedInit == Init /\ functions = <<>> /\ M!Idle

(* An index into what is no array in scope, which the typechecker lets     *)
(* pass, has no meaning; and what is in main's parameters is not known.    *)
Runnable ==
    /\ phase = "OK" /\ IndexesArrays
    /\ fns[FunctionAt(Main)].params = <<>>

Run ==
    /\ Runnable
    /\ \E nums \in [Live("num") -> Literals], bools \in [Live("bool") -> {0, 1}] :
          M!Start(FunctionAt(Main), nums @@ bools)

(* The compiler, whose Ended is no way out for a program that runs.        *)
Compile ==
    /\ status # "running" /\ Next
    /\ functions' = IF At("end") /\ node.op = "body" THEN Append(functions, ir') ELSE functions

GeneratedNext == \/ Compile /\ UNCHANGED machine
                 \/ Run /\ UNCHANGED <<vars, functions>>
                 \/ M!Next /\ UNCHANGED <<vars, functions>>

GeneratedSpec == GeneratedInit /\ [][GeneratedNext]_allVars

-----------------------------------------------------------------------------
(* How a run of the program looks to one who reads the source.             *)

(* The node whose work is done next at instruction n of block b of         *)
(* function f: these instructions do no node's work.                       *)
Plumbing == {"alloca", "clear", "save", "restore", "br", "start"}

RECURSIVE Where(_, _, _)
Where(f, b, n) ==
    LET i == functions[f].blocks[b][n] IN
    IF i.op \notin Plumbing THEN i.node
    ELSE IF i.op = "br" THEN Where(f, i.to[1], 1) ELSE Where(f, b, n + 1)

(* The declaration that the name in node n refers to.                      *)
Declaration(n) == IF ast[n].x \in Names THEN hasSymbol(trail[n], ast[n].x).decl ELSE M!None

(* The array n may be named at node m of its function: its scope has not   *)
(* ended, and m is neither the end of its block nor a return.              *)
Visible(n, m) ==
    /\ hasSymbol(trail[m], ast[n].x).decl = DeclAt(n)
    /\ ast[m].k \in {"end", "else"} => Len(trail[n]) < Len(trail[m])
    /\ ast[m].k # "return"

(* The functions that have been called, the one that runs last, and the    *)
(* node that each is at.                                                   *)
Calls     == Append(callers, M!Waiting)
Site(c)   == Where(Calls[c].running, Calls[c].blk, Calls[c].nxt)

(* The array in place n of the stack: the call that made it, whether it is *)
(* in scope, and what it is called in Meaning.                             *)
MadeBy(n)    == Cardinality({c \in DOMAIN callers : callers[c].base < n}) + 1
Remains(n)   == Visible(stack[n].of[1], Site(MadeBy(n)))
Key(n)       == <<MadeBy(n) - 1, stack[n].of[1]>>
Remaining    == {n \in DOMAIN stack : Remains(n)}
Reference(p) ==
    IF p = Nothing THEN Nothing
    ELSE [of |-> IF p.at \in Remaining THEN Key(p.at) ELSE <<0, 0>>, size |-> p.size]

Cells == {DeclAt(n) : n \in DOMAIN ast} \cup
         UNION {{ParamDecl(n, j) : j \in 1..Len(fns[ast[n].kids[1]].params)} : n \in Live("fn")}

Held(f, d) == IF d \in DOMAIN f THEN f[d] ELSE Nothing
OrZero(v)  == IF v = Nothing THEN 0 ELSE v

(* A parameter has no value before all of the function's have theirs.      *)
Awaited(d, m) == d[2] # 0 /\ d[1] = m

Env(c) ==
    LET m == Site(c) IN
    [d \in Cells |-> IF Awaited(d, m) THEN Nothing
                     ELSE IF ast[d[1]].k = "vardecl" /\ ast[d[1]].res = "Type_int"
                     THEN OrZero(Held(Calls[c].mem, d)) ELSE Held(Calls[c].mem, d)]

Refs(c) ==
    LET m == Site(c) IN
    [d \in Cells |-> IF Awaited(d, m) \/ (ast[d[1]].k = "arraydecl" /\ ~Visible(d[1], m))
                     THEN Nothing ELSE Reference(Held(Calls[c].ptrs, d))]

(* The counter of a `for' is set a little after its array is looked at.    *)
Starts(c, n) ==
    LET is == functions[Calls[c].running].blocks[Calls[c].blk] IN
    \E j \in {Calls[c].nxt, Calls[c].nxt + 1} \cap DOMAIN is :
       is[j].op = "start" /\ is[j].arg = Counter(n)

Turns(c) == [n \in DOMAIN ast |-> IF ast[n].k # "for" \/ Starts(c, n) THEN 0
                                  ELSE OrZero(Held(Calls[c].mem, Counter(n)))]
Val(c)   == literals @@ Calls[c].regs

View(c)    == [at |-> Site(c), env |-> Env(c), refs |-> Refs(c), turns |-> Turns(c),
               val |-> Val(c)]
Started(f) == IF status = "unstarted" THEN <<>> ELSE f

Source == INSTANCE Meaning WITH
    fns     <- Started(fns),
    prog    <- Started(ast),
    refers  <- Started([n \in DOMAIN ast |-> Declaration(n)]),
    at      <- IF status = "unstarted" THEN 0 ELSE Site(Len(Calls)),
    env     <- Started(Env(Len(Calls))),
    refs    <- Started(Refs(Len(Calls))),
    turns   <- Started(Turns(Len(Calls))),
    val     <- Started(Val(Len(Calls))),
    callers <- Started([c \in DOMAIN callers |-> View(c)]),
    arrays  <- Started([k \in {Key(n) : n \in Remaining} |->
                          stack[CHOOSE n \in Remaining : Key(n) = k].data])

(* The generated program does what its source says: every step of a run    *)
(* is the work of the node the source is at, or no one's.                  *)
Implements == Source!Spec

(* README.md:67, "All variables are initialized to 0 by default".          *)
NoneUninitialised ==
    status = "running" /\ M!i.op = "load" /\ ~M!IsPointer(M!i.node) =>
        mem[M!i.arg] # Nothing
=============================================================================
