------------------------------ MODULE Meaning ------------------------------
(***************************************************************************)
(* What a program of lilang means: a machine that walks over its nodes,    *)
(* with a variable for each declaration of the function it is in, and an   *)
(* array for each array in scope.  It knows of no blocks, branches,        *)
(* allocas or stack.  Ints start at 0, both operands of every operator and *)
(* both arms of a choice are evaluated, an index out of bounds aborts, an  *)
(* array is passed and assigned by reference.  A bool starts with any      *)
(* value, a variable keeps its value when its declaration is passed again, *)
(* and any call may be one too many: the generated program promises no     *)
(* more.                                                                   *)
(***************************************************************************)
EXTENDS Words, SequencesExt, FiniteSetsExt, TLC

CONSTANT Main           \* the name of the function that the program starts with

VARIABLES fns,          \* the prototypes of the functions
          prog,         \* their nodes, in order
          refers,       \* the declaration each node's name refers to
          at,           \* the node whose work is next
          env,          \* the value of each variable, by its declaration
          refs,         \* the array that each array variable and value refers to
          turns,        \* how many turns each for statement has made
          val,          \* the last value of each expression
          callers,      \* the calls that wait for the function, the innermost last
          arrays,       \* the elements of each array in scope
          shown,        \* what was last printed, or returned by main
          status        \* whether the program runs, or how it has ended

program == <<fns, prog, refers>>
vars    == <<program, at, env, refs, turns, val, callers, arrays, shown, status>>

(* A node: its kind, name, operator and operands, the type of its value or *)
(* variable, and whether it is evaluated (the operand of a sizeof is not). *)
Nodes == [k : STRING, x : STRING, op : STRING, kids : Seq(Nat), res : STRING, live : BOOLEAN]

(* The declaration or the value of node n, and the parameters of the       *)
(* function at node f.                                                     *)
Cell(n)   == <<n, 0>>
params(f) == fns[prog[f].kids[1]].params
Params(f) == {<<f, j>> : j \in 1..Len(params(f))}
Cells     == {Cell(n) : n \in DOMAIN prog}
               \cup UNION {Params(f) : f \in {n \in DOMAIN prog : prog[n].k = "fn"}}

At(k)  == status = "running" /\ prog[at].k = k
kid(n) == val[prog[at].kids[n]]
decl   == refers[at]

-----------------------------------------------------------------------------
(* The shape of the program.                                               *)

Openers  == {"fn", "bare", "if", "whilebody", "for"}
Level(i) == Cardinality({j \in 1..i : prog[j].k \in Openers})
            - Cardinality({j \in 1..i : prog[j].k = "end"})

(* The node that closes the innermost block open after node i.             *)
Closer(i) == Min({j \in i + 1..Len(prog) :
                    \/ prog[j].k = "end" /\ Level(j) = Level(i) - 1
                    \/ prog[j].k = "else" /\ Level(j) = Level(i)})

(* Nothing is in scope once all a return does is return.                   *)
InScope(j, i) == j < i /\ i < Closer(j) /\ prog[i].k # "return"

(* The loop that node e ends, and the `for' of a loop variable.            *)
LoopOf(e) == Max({j \in 1..e : \/ prog[j].k = "while" /\ Level(j) = Level(e)
                               \/ prog[j].k = "for" /\ Level(j) = Level(e) + 1})
ForOf(v)  == CHOOSE j \in DOMAIN prog : prog[j].k = "for" /\ prog[j].kids[1] = v

Function(x) == CHOOSE j \in DOMAIN prog : prog[j].k = "fn" /\ prog[j].x = x

(* Nodes that do something; control passes over the others.                *)
Works(i) ==
    /\ prog[i].live
    /\ \/ prog[i].k \in {"id", "input", "binop", "unary", "ternary", "sizeof", "elem", "call",
                         "print", "assign", "elemaddr", "elemassign", "arraydecl", "if",
                         "whilebody", "forvar", "for", "return", "abort"}
       \/ prog[i].k = "end" /\ prog[i].op \in {"for", "body"}
       \/ prog[i].k = "fn" /\ params(i) # <<>>

RECURSIVE Follow(_)
Follow(i) ==
    CASE Works(i)                                    -> i
      [] ~Works(i) /\ prog[i].k = "else"             -> Follow(Closer(i) + 1)
      [] ~Works(i) /\ prog[i].k = "end"
                   /\ prog[i].op = "while"           -> Follow(LoopOf(i))
      [] OTHER                                       -> Follow(i + 1)

-----------------------------------------------------------------------------
(* Operators.                                                              *)

Apply(op, l, r) ==
    CASE op = "Op_and"    -> Truth(l = 1 /\ r = 1)
      [] op = "Op_or"     -> Truth(l = 1 \/ r = 1)
      [] op = "Op_eqeq"   -> Truth(l = r)
      [] op = "Op_neq"    -> Truth(l # r)
      [] op = "Op_gt"     -> Truth(l > r)
      [] op = "Op_gte"    -> Truth(l >= r)
      [] op = "Op_lt"     -> Truth(l < r)
      [] op = "Op_lte"    -> Truth(l <= r)
      [] op = "Op_add"    -> Wrap(l + r)
      [] op = "Op_minus"  -> Wrap(l - r)
      [] op = "Op_mult"   -> Wrap(l * r)
      [] op = "Op_divide" -> Wrap(Quot(l, r))
      [] op = "Op_mod"    -> l - r * Quot(l, r)
      [] op = "Op_exp"    -> Wrap(Power(l, r))

(* A quotient must exist and be an int; an exponent must not be negative.  *)
HasMeaning(op, l, r) ==
    CASE op \in {"Op_divide", "Op_mod"} -> r # 0 /\ ~(l = Lowest /\ r = -1)
      [] op = "Op_exp"                  -> r >= 0
      [] OTHER                          -> TRUE

Negated(op, v) == IF op = "Op_bang" THEN 1 - v ELSE Wrap(-v)

-----------------------------------------------------------------------------
(* References.  An array is known by the call that made it and the node of *)
(* its declaration; Gone stands for one whose scope has ended.             *)

Gone         == <<0, 0>>
Ref(of, len) == [of |-> of, size |-> len]
Here(n)      == <<Len(callers), n>>
IsArray(n)   == prog[n].res = "Type_array"

Within(r, n)  == n \in 0..r.size - 1
Exists(r)     == r.of # Gone
Element(r, n) == arrays[r.of][n + 1]

(* What is left of the arrays when control is at node i of a function that *)
(* has c callers, and of its references when only these arrays are left.   *)
Remaining(all, c, i) ==
    [a \in {b \in DOMAIN all : b[1] < c \/ (b[1] = c /\ InScope(b[2], i))} |-> all[a]]

Trimmed(r, left) == IF r = Nothing \/ r.of \in left THEN r ELSE Ref(Gone, r.size)
Kept(rs, left, i) ==
    [d \in Cells |-> IF prog[d[1]].k = "arraydecl" /\ ~InScope(d[1], i) THEN Nothing
                     ELSE Trimmed(rs[d], left)]

-----------------------------------------------------------------------------
Init ==
    /\ fns = <<>> /\ prog = <<>> /\ refers = <<>> /\ at = 0
    /\ env = <<>> /\ refs = <<>> /\ turns = <<>> /\ val = <<>>
    /\ callers = <<>> /\ arrays = <<>>
    /\ shown = Nothing
    /\ status = "unstarted"

ValuesOf(type) == IF type = "Type_bool" THEN {0, 1} ELSE Ints
Constant(n)    == prog[n].live /\ prog[n].k \in {"num", "bool"}

(* What a function begins with.                                            *)
Zeros    == [d \in Cells |-> IF prog[d[1]].k = "vardecl" /\ prog[d[1]].res = "Type_int"
                             THEN 0 ELSE Nothing]
NoRefs   == [d \in Cells |-> Nothing]
NoTurns  == [n \in DOMAIN prog |-> 0]

(* Any program, and any values for its literals.                           *)
Begin ==
    /\ status = "unstarted" /\ status' = "running"
    /\ prog' \in Seq(Nodes) /\ refers' \in [DOMAIN prog' -> Nat \X Nat]
    /\ at' = Follow(Function(Main))'
    /\ env' = Zeros' /\ refs' = NoRefs' /\ turns' = NoTurns'
    /\ DOMAIN val' = DOMAIN prog'
    /\ \A n \in DOMAIN prog' :
          val'[n] \in IF Constant(n)' THEN ValuesOf(prog'[n].res) ELSE {Nothing}
    /\ UNCHANGED <<callers, arrays, shown>>

(* Control goes to node n; what is out of scope there is forgotten.        *)
Goto(n, all, rs) ==
    /\ at' = Follow(n)
    /\ arrays' = Remaining(all, Len(callers), at')
    /\ refs' = Kept(rs, DOMAIN arrays', at')
    /\ UNCHANGED <<program, callers, status>>

Onward == Goto(at + 1, arrays, refs)

End(how) == status' = how /\ UNCHANGED <<program, at, env, refs, turns, val, callers, arrays>>

Abort     == End("aborted") /\ UNCHANGED shown
Undefined == End("undefined") /\ UNCHANGED shown

Yield(v) ==
    /\ val' = [val EXCEPT ![at] = v]
    /\ Onward
    /\ UNCHANGED <<env, turns, shown>>

Refer(d, r) ==
    /\ Goto(at + 1, arrays, [refs EXCEPT ![d] = r])
    /\ UNCHANGED <<env, turns, val, shown>>

-----------------------------------------------------------------------------
(* Expressions.                                                            *)

Name ==
    /\ At("id")
    /\ IF IsArray(at) THEN Refer(Cell(at), refs[decl])
       ELSE \E v \in ValuesOf(prog[at].res) : env[decl] \in {v, Nothing} /\ Yield(v)

Input == At("input") /\ \E v \in Ints : Yield(v)

Binary ==
    /\ At("binop")
    /\ IF HasMeaning(prog[at].op, kid(1), kid(2))
       THEN Yield(Apply(prog[at].op, kid(1), kid(2)))
       ELSE Undefined \/ \E v \in Ints : Yield(v)

Unary == At("unary") /\ Yield(Negated(prog[at].op, kid(1)))

Choice ==
    LET chosen == prog[at].kids[IF kid(1) = 1 THEN 2 ELSE 3] IN
    /\ At("ternary")
    /\ IF IsArray(at) THEN Refer(Cell(at), refs[Cell(chosen)]) ELSE Yield(val[chosen])

Sizeof == At("sizeof") /\ Yield(refs[decl].size)

Elem ==
    /\ At("elem")
    /\ IF ~Within(refs[decl], kid(1)) THEN Abort
       ELSE IF ~Exists(refs[decl]) THEN Undefined
       ELSE Yield(Element(refs[decl], kid(1)))

-----------------------------------------------------------------------------
(* Calls.                                                                  *)

Caller  == Last(callers)
Waiting == [at |-> at, env |-> env, refs |-> refs, turns |-> turns, val |-> val]

Call ==
    /\ At("call")
    /\ \/ Undefined
       \/ /\ callers' = Append(callers, Waiting)
          /\ at' = Follow(Function(prog[at].x))
          /\ env' = Zeros /\ refs' = NoRefs /\ turns' = NoTurns
          /\ val' = [n \in DOMAIN val |-> IF Constant(n) THEN val[n] ELSE Nothing]
          /\ UNCHANGED <<program, arrays, shown, status>>

(* The parameters get the values of the caller's operands.                 *)
Operand(d) == prog[Caller.at].kids[d[2]]

TakeArguments ==
    /\ At("fn")
    /\ env' = [d \in Cells |-> IF d \in Params(at) /\ ~IsArray(Operand(d))
                               THEN Caller.val[Operand(d)] ELSE env[d]]
    /\ Goto(at + 1, arrays, [d \in Cells |-> IF d \in Params(at) /\ IsArray(Operand(d))
                                             THEN Caller.refs[Cell(Operand(d))] ELSE refs[d]])
    /\ UNCHANGED <<turns, val, shown>>

(* The function ends, with the value v.                                    *)
GiveBack(v) ==
    IF callers = <<>>
    THEN End("ended") /\ shown' = IF v = Nothing THEN shown ELSE v
    ELSE /\ callers' = Front(callers)
         /\ at' = Follow(Caller.at + 1)
         /\ arrays' = Remaining(arrays, Len(callers) - 1, at')
         /\ refs' = Kept(Caller.refs, DOMAIN arrays', at')
         /\ val' = [Caller.val EXCEPT ![Caller.at] = v]
         /\ env' = Caller.env /\ turns' = Caller.turns
         /\ UNCHANGED <<program, shown, status>>

Return    == At("return") /\ GiveBack(IF prog[at].kids = <<>> THEN Nothing ELSE kid(1))
EndOfBody == At("end") /\ prog[at].op = "body" /\ GiveBack(Nothing)

-----------------------------------------------------------------------------
(* Statements.                                                             *)

PrintStmt == At("print") /\ shown' = kid(1) /\ Onward /\ UNCHANGED <<env, turns, val>>

Assign ==
    /\ At("assign")
    /\ IF IsArray(prog[at].kids[1]) THEN Refer(decl, refs[Cell(prog[at].kids[1])])
       ELSE /\ env' = [env EXCEPT ![decl] = kid(1)]
            /\ Onward
            /\ UNCHANGED <<turns, val, shown>>

DeclareArray ==
    /\ At("arraydecl")
    /\ IF kid(1) < 0 THEN Undefined
       ELSE /\ Goto(at + 1, (Here(at) :> [n \in 1..kid(1) |-> 0]) @@ arrays,
                    [refs EXCEPT ![Cell(at)] = Ref(Here(at), kid(1))])
            /\ UNCHANGED <<env, turns, val, shown>>

CheckIndex ==
    /\ At("elemaddr")
    /\ IF Within(refs[decl], kid(1)) THEN Onward /\ UNCHANGED <<env, turns, val, shown>>
       ELSE Abort

AssignElement ==
    /\ At("elemassign")
    /\ IF ~Exists(refs[decl]) THEN Undefined
       ELSE /\ Goto(at + 1, [arrays EXCEPT ![refs[decl].of][kid(1) + 1] = kid(2)], refs)
            /\ UNCHANGED <<env, turns, val, shown>>

(* An if, and a while once its condition is known.                         *)
Test ==
    /\ At("if") \/ At("whilebody")
    /\ IF kid(1) = 1 THEN Onward ELSE Goto(Closer(at) + 1, arrays, refs)
    /\ UNCHANGED <<env, turns, val, shown>>

(* A for runs over the array that the variable refers to at its beginning. *)
EnterFor ==
    /\ At("forvar")
    /\ turns' = [turns EXCEPT ![ForOf(at)] = 0]
    /\ Goto(at + 1, arrays, [refs EXCEPT ![Cell(at)] = refs[refers[ForOf(at)]]])
    /\ UNCHANGED <<env, val, shown>>

For ==
    LET var  == prog[at].kids[1]
        over == refs[Cell(var)]
    IN  /\ At("for")
        /\ \/ /\ turns[at] >= over.size
              /\ Goto(Closer(at) + 1, arrays, refs)
              /\ UNCHANGED <<env, turns, val, shown>>
           \/ turns[at] < over.size /\ ~Exists(over) /\ Undefined
           \/ /\ turns[at] < over.size /\ Exists(over)
              /\ env' = [env EXCEPT ![Cell(var)] = Element(over, turns[at])]
              /\ Onward
              /\ UNCHANGED <<turns, val, shown>>

NextTurn ==
    /\ At("end") /\ prog[at].op = "for"
    /\ turns' = [turns EXCEPT ![LoopOf(at)] = @ + 1]
    /\ Goto(LoopOf(at), arrays, refs)
    /\ UNCHANGED <<env, val, shown>>

AbortStmt == At("abort") /\ Abort

Next == \/ Begin
        \/ Name \/ Input \/ Binary \/ Unary \/ Choice \/ Sizeof \/ Elem
        \/ Call \/ TakeArguments \/ Return \/ EndOfBody
        \/ PrintStmt \/ Assign \/ DeclareArray \/ CheckIndex \/ AssignElement
        \/ Test \/ EnterFor \/ For \/ NextTurn \/ AbortStmt

Spec == Init /\ [][Next]_vars
=============================================================================
