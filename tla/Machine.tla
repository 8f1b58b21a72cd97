------------------------------ MODULE Machine ------------------------------
(***************************************************************************)
(* What a module of verified LLVM functions does when it runs.  LLVM and   *)
(* clang are not part of the repository; this is the part of the LLVM      *)
(* language reference that the instructions of codegenvisitor.cpp rely on, *)
(* and the functions of runtime.c.                                         *)
(*                                                                         *)
(* The stack holds the arrays that are allocated.  A pointer says which of *)
(* them it points to, or that this one has been given back, and the size   *)
(* that is kept beside it.  A variable with the value Nothing has never    *)
(* been written: a load of it may give any value.                          *)
(***************************************************************************)
EXTENDS Words, IRFunction, FiniteSetsExt

CONSTANT MaxCalls       \* the calls there is stack for

VARIABLES functions,    \* the module
          types,        \* the LLVM type of each node's value
          callees,      \* the function that each call is of
          literals,     \* the values of the constants, by their nodes
          running,      \* the function that runs
          blk, nxt,     \* the block and the instruction in it to be run
          regs,         \* its values, by the node they are of
          mem,          \* its variables, by declaration
          ptrs,         \* its pointers, in array variables and in values
          saved,        \* the stack pointers it has saved
          callers,      \* the functions that wait for it, the innermost last
          stack,        \* the arrays
          shown,        \* what was last printed, or returned by main
          status        \* whether the program runs, or how it has ended

place   == <<running, blk, nxt>>
frame   == <<regs, mem, ptrs, saved>>
machine == <<literals, place, frame, callers, stack, shown, status>>

Instructions(f) == UNION {ToSet(functions[f].blocks[b]) : b \in Blocks(functions[f])}
Declared(f)     == {j.arg : j \in Instructions(f)} \ {None}
ValueOf(n)      == <<n, 0>>

i        == functions[running].blocks[blk][nxt]
value(n) == IF n \in DOMAIN literals THEN literals[n] ELSE regs[n]
arg(n)   == value(i.vals[n])
ptr(n)   == ptrs[ValueOf(i.vals[n])]
Op(op)   == status = "running" /\ i.op = op

(* What the machine does besides going to the next instruction.            *)
Fallthrough == nxt' = nxt + 1 /\ UNCHANGED <<literals, running, blk, callers, status>>
Jump(b)     == blk' = b /\ nxt' = 1 /\ UNCHANGED <<literals, running, callers, status>>
Stop(how)   == status' = how /\ UNCHANGED <<literals, place, frame, callers, stack>>
Undefined   == Stop("undefined") /\ UNCHANGED shown

Goes(branch)  == branch /\ UNCHANGED <<frame, stack, shown>>
Writes(d, v)  == mem' = [mem EXCEPT ![d] = v]
                 /\ Fallthrough /\ UNCHANGED <<regs, ptrs, saved, stack, shown>>
Yields(v)     == regs' = [regs EXCEPT ![i.node] = v]
                 /\ Fallthrough /\ UNCHANGED <<mem, ptrs, saved, stack, shown>>
Points(d, p)  == ptrs' = [ptrs EXCEPT ![d] = p]
                 /\ Fallthrough /\ UNCHANGED <<regs, mem, saved, stack, shown>>

(* Pointers, 0 standing for an array that is not there.  Neither the       *)
(* variable nor the array may be used once it has been given back, nor     *)
(* what is beyond the array's end.                                         *)
Pointer(n, size)  == [at |-> n, size |-> size]
IsPointer(v)      == types[v] = "array"
Reaches(p, index) == p.at # 0 /\ index \in 0..Len(stack[p.at].data) - 1
Element(p, index) == stack[p.at].data[index + 1]
Usable            == ptrs[i.arg] # Nothing

-----------------------------------------------------------------------------
(* The values of instructions.                                             *)

(* __l_pow takes its exponent as unsigned.                                 *)
Pow(x, n) == LET result[k \in 0..n] == IF k = 0 THEN 1 ELSE Wrap(result[k - 1] * x)
             IN  result[n]

Compute(op, l, r) ==
    CASE op = "and"      -> l * r
      [] op = "or"       -> l + r - l * r
      [] op = "icmp ne"  -> Truth(l # r)
      [] op = "icmp eq"  -> Truth(l = r)
      [] op = "icmp sgt" -> Truth(l > r)
      [] op = "icmp sge" -> Truth(l >= r)
      [] op = "icmp slt" -> Truth(l < r)
      [] op = "icmp sle" -> Truth(l <= r)
      [] op = "add"      -> Wrap(l + r)
      [] op = "sub"      -> Wrap(l - r)
      [] op = "mul"      -> Wrap(l * r)
      [] op = "sdiv"     -> Quot(l, r)
      [] op = "srem"     -> l - r * Quot(l, r)
      [] op = "pow"      -> Pow(l, Unsigned(r))

Binaries == {"and", "or", "icmp ne", "icmp eq", "icmp sgt", "icmp sge", "icmp slt",
             "icmp sle", "add", "sub", "mul", "sdiv", "srem", "pow"}

NoQuotient(op, l, r) == op \in {"sdiv", "srem"} /\ (r = 0 \/ (l = Lowest /\ r = -1))

ValuesOf(type) == IF type = "i1" THEN {0, 1} ELSE Ints

-----------------------------------------------------------------------------
(* Memory.                                                                 *)

AllocaInstr == Op("alloca") /\ Goes(Fallthrough)

(* Memory that is cleared reads as 0, or as a null pointer of size 0.      *)
Clear ==
    /\ Op("clear")
    /\ CASE i.vals[1] = 0  -> Goes(Fallthrough)
         [] i.vals[1] = 16 -> Points(i.arg, Pointer(0, 0))
         [] OTHER          -> Writes(i.arg, 0)

Store ==
    /\ Op("store")
    /\ IF IsPointer(i.vals[1]) THEN Points(i.arg, ptr(1)) ELSE Writes(i.arg, arg(1))

Load ==
    /\ Op("load")
    /\ IF ~IsPointer(i.node)
       THEN \E v \in ValuesOf(types[i.node]) : mem[i.arg] \in {v, Nothing} /\ Yields(v)
       ELSE IF Usable THEN Points(ValueOf(i.node), ptrs[i.arg]) ELSE Undefined

Save ==
    /\ Op("save")
    /\ saved' = [saved EXCEPT ![i.arg] = Len(stack)]
    /\ Fallthrough
    /\ UNCHANGED <<regs, mem, ptrs, stack, shown>>

(* What is above the stack pointer is given back: arrays, each together    *)
(* with the variable that was allocated for it.                            *)
Above(sp)    == {stack[n].of : n \in sp + 1..Len(stack)}
Lowered(p, sp) == IF p # Nothing /\ p.at > sp THEN Pointer(0, p.size) ELSE p

Restore ==
    LET sp == saved[i.arg] IN
    /\ Op("restore")
    /\ IF sp = Nothing THEN Undefined
       ELSE /\ stack' = SubSeq(stack, 1, sp)
            /\ ptrs' = [d \in DOMAIN ptrs |->
                          IF d \in Above(sp) THEN Nothing ELSE Lowered(ptrs[d], sp)]
            /\ saved' = [d \in DOMAIN saved |-> IF d \in Above(sp) THEN Nothing ELSE saved[d]]
            /\ Fallthrough
            /\ UNCHANGED <<regs, mem, shown>>

(* An alloca of a negative number of elements has no defined result.       *)
AllocateArray ==
    /\ Op("array")
    /\ IF arg(1) < 0 THEN Undefined
       ELSE /\ stack' = Append(stack, [of |-> i.arg, data |-> [n \in 1..arg(1) |-> 0]])
            /\ ptrs' = [ptrs EXCEPT ![i.arg] = Pointer(Len(stack'), arg(1))]
            /\ Fallthrough
            /\ UNCHANGED <<regs, mem, saved, shown>>

LoadElement ==
    /\ Op("load element")
    /\ IF Usable /\ Reaches(ptrs[i.arg], arg(1)) THEN Yields(Element(ptrs[i.arg], arg(1)))
       ELSE Undefined

StoreElement ==
    /\ Op("store element")
    /\ IF ~Usable \/ ~Reaches(ptrs[i.arg], arg(1)) THEN Undefined
       ELSE /\ stack' = [stack EXCEPT ![ptrs[i.arg].at].data[arg(1) + 1] = arg(2)]
            /\ Fallthrough
            /\ UNCHANGED <<frame, shown>>

LoadSize == Op("size") /\ IF Usable THEN Yields(ptrs[i.arg].size) ELSE Undefined

-----------------------------------------------------------------------------
(* Values.                                                                 *)

Binary ==
    /\ status = "running" /\ i.op \in Binaries
    /\ IF NoQuotient(i.op, arg(1), arg(2)) THEN Undefined
       ELSE Yields(Compute(i.op, arg(1), arg(2)))

Not    == Op("not") /\ Yields(1 - arg(1))
Neg    == Op("neg") /\ Yields(Wrap(-arg(1)))

Select ==
    LET n == IF arg(1) = 1 THEN 2 ELSE 3 IN
    /\ Op("select")
    /\ IF IsPointer(i.node) THEN Points(ValueOf(i.node), ptr(n)) ELSE Yields(arg(n))

(* __l_input leaves n as it is when scanf reads no number.                 *)
Input == Op("input") /\ \E v \in Ints : Yields(v)

PrintCall ==
    /\ Op("print")
    /\ shown' = arg(1)
    /\ Fallthrough
    /\ UNCHANGED <<frame, stack>>

-----------------------------------------------------------------------------
(* Control.                                                                *)

Branch(b) == Goes(Jump(i.to[IF b THEN 1 ELSE 2]))

BrInstr == Op("br") /\ Goes(Jump(i.to[1]))
Test    == Op("test") /\ Branch(arg(1) = 1)

BelowSize   == /\ Op("below size")
               /\ IF Usable THEN Branch(arg(1) < ptrs[i.arg].size) ELSE Undefined
NotNegative == Op("not negative") /\ Branch(arg(1) >= 0)

AbortCall == Op("abort") /\ Stop("aborted") /\ UNCHANGED shown

(* A `for': its array is looked at once, before the first turn; the value  *)
(* of the node of the loop variable stands for what was found.             *)
LoadArray  == Op("array of") /\ IF Usable THEN Points(ValueOf(i.node), ptrs[i.arg])
                                ELSE Undefined
StartTurns == Op("start") /\ Writes(i.arg, 0)
More       == Op("more") /\ Branch(mem[i.arg] < ptr(1).size)
NextTurn   == Op("next") /\ Writes(i.arg, Wrap(mem[i.arg] + 1))

Item ==
    LET turn == mem[<<i.node, 1>>] IN
    /\ Op("item")
    /\ IF Reaches(ptr(1), turn) THEN Writes(i.arg, Element(ptr(1), turn)) ELSE Undefined

-----------------------------------------------------------------------------
(* Calls.                                                                  *)

(* Function f begins.                                                      *)
Enter(f) ==
    /\ running' = f /\ blk' = 1 /\ nxt' = 1
    /\ regs'  = [n \in DOMAIN types |-> Nothing]
    /\ mem'   = [d \in Declared(f) |-> Nothing]
    /\ ptrs'  = [d \in Declared(f) \cup {ValueOf(j.node) : j \in Instructions(f)} |-> Nothing]
    /\ saved' = [d \in Declared(f) |-> Nothing]

Caller == Last(callers)
Waiting == [running |-> running, blk |-> blk, nxt |-> nxt, regs |-> regs, mem |-> mem,
            ptrs |-> ptrs, saved |-> saved, base |-> Len(stack)]

Call ==
    /\ Op("call")
    /\ IF Len(callers) = MaxCalls THEN Undefined
       ELSE /\ callers' = Append(callers, Waiting)
            /\ Enter(callees[i.node])
            /\ UNCHANGED <<literals, stack, shown, status>>

(* The argument in place i.vals[1] of the call.                            *)
CallOf(c) == functions[c.running].blocks[c.blk][c.nxt]

Argument ==
    LET n == CallOf(Caller).vals[i.vals[1]] IN
    /\ Op("argument")
    /\ IF IsPointer(n) THEN Points(i.arg, Caller.ptrs[ValueOf(n)])
       ELSE Writes(i.arg, IF n \in DOMAIN literals THEN literals[n] ELSE Caller.regs[n])

(* The stack of a function goes with it.                                   *)
Returned == IF i.vals = <<>> THEN Nothing ELSE arg(1)

RetInstr ==
    /\ Op("ret")
    /\ IF callers = <<>>
       THEN /\ Stop("ended")
            /\ shown' = IF i.vals = <<>> THEN shown ELSE arg(1)
       ELSE /\ running' = Caller.running /\ blk' = Caller.blk /\ nxt' = Caller.nxt + 1
            /\ regs' = [Caller.regs EXCEPT ![CallOf(Caller).node] = Returned]
            /\ mem' = Caller.mem /\ ptrs' = Caller.ptrs /\ saved' = Caller.saved
            /\ callers' = Front(callers)
            /\ stack' = SubSeq(stack, 1, Caller.base)
            /\ UNCHANGED <<literals, shown, status>>

-----------------------------------------------------------------------------
Memory  == \/ AllocaInstr \/ Clear \/ Store \/ Load \/ Save \/ Restore \/ AllocateArray
           \/ LoadElement \/ StoreElement \/ LoadSize
Values  == Binary \/ Not \/ Neg \/ Select \/ Input \/ PrintCall
Control == \/ BrInstr \/ Test \/ BelowSize \/ NotNegative \/ AbortCall
           \/ LoadArray \/ StartTurns \/ More \/ NextTurn \/ Item
           \/ Call \/ Argument \/ RetInstr

Idle ==
    /\ literals = <<>> /\ running = 1 /\ blk = 1 /\ nxt = 1
    /\ regs = <<>> /\ mem = <<>> /\ ptrs = <<>> /\ saved = <<>>
    /\ callers = <<>> /\ stack = <<>>
    /\ shown = Nothing
    /\ status = "unstarted"

(* The program is started at function f, its constants having been given.  *)
Start(f, constants) ==
    /\ status = "unstarted" /\ status' = "running"
    /\ literals' = constants
    /\ Enter(f)
    /\ UNCHANGED <<callers, stack, shown>>

Next == Memory \/ Values \/ Control
=============================================================================
