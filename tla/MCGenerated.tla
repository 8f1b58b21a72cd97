---------------------------- MODULE MCGenerated ----------------------------
(***************************************************************************)
(* The instance of Generated for TLC.  Programs are built from selections  *)
(* of the language: for each of their functions in turn, the names it may  *)
(* use, how many nodes of each kind it may have, how many in all, and the  *)
(* kinds that it begins with.                                              *)
(* There is one in which branches, loops and variables meet; one for `for' *)
(* statements over arrays that have been written to; one for arrays in     *)
(* blocks and loops; one for expressions; two for array variables that     *)
(* refer to the arrays of others; one for recursion; and one for arrays    *)
(* that are passed to a function.                                          *)
(***************************************************************************)
EXTENDS Generated

Fn(type, name, params) == [type |-> type, name |-> name, params |-> params]
Param(type, name)      == [type |-> type, name |-> name]

VoidMain == Fn("Type_void", "main", <<>>)
Alone    == <<VoidMain>>
Recurses == <<Fn("Type_int", "f", <<Param("Type_bool", "p")>>), VoidMain>>
Refers   == <<Fn("Type_void", "f", <<Param("Type_array", "p")>>), VoidMain>>
Programs == {Alone, Recurses, Refers}

Part(names, most, size) ==
    [names |-> names, most |-> most, size |-> size, begins |-> <<>>]
Selection(program, parts) == [program |-> program, parts |-> parts]
InMain(most, size)        == Selection(Alone, <<Part({"a", "b"}, most, size)>>)
Beginning(ks, selection)  == [selection EXCEPT !.parts[1].begins = ks]

Selections ==
    {InMain([vardecl |-> 2, assign |-> 2, if |-> 1, while |-> 1, whilebody |-> 1,
             return |-> 1], 9),
     InMain([arraydecl |-> 2, elemaddr |-> 2, elemassign |-> 2, forvar |-> 1, for |-> 1], 15),
     InMain([arraydecl |-> 2, elemaddr |-> 1, elemassign |-> 1, elem |-> 1, sizeof |-> 1,
             input |-> 1, bool |-> 1, bare |-> 1, while |-> 1, whilebody |-> 1, if |-> 1,
             return |-> 1, abort |-> 1], 8),
     InMain([print |-> 1, binop |-> 2, unary |-> 1, ternary |-> 1, bool |-> 1, input |-> 1], 8),
     Beginning(<<"num", "arraydecl", "bare", "num", "arraydecl", "id", "assign">>,
        InMain([arraydecl |-> 2, bare |-> 1, assign |-> 1, elemaddr |-> 1, elemassign |-> 1], 14)),
     InMain([arraydecl |-> 2, ternary |-> 1, bool |-> 1, assign |-> 1], 11),
     Selection(Recurses, <<Part({"p", "f"}, [if |-> 1, call |-> 1, return |-> 2, bool |-> 1], 10),
                           Part({"f"}, [print |-> 1, call |-> 1, bool |-> 1], 5)>>),
     Selection(Refers, <<Part({"p"}, [elemaddr |-> 1, elemassign |-> 1], 6),
                         Part({"a", "f"}, [arraydecl |-> 1, call |-> 1, elem |-> 1,
                                           print |-> 1], 9)>>)}

(* What every part has, the names of the visits to blocks included; of     *)
(* expressions only calls are statements.                                  *)
Common == {"end", "num", "id", "body", "then", "else", "ifcond", "whilecond", "forhdr"}
Values == {"num", "bool", "id", "input", "elem", "sizeof", "unary", "binop", "ternary"}

(* What there is of the j-th function: its nodes after the first, and the  *)
(* visits in progress.  Those of blocks have their nodes already.          *)
FnAt(j)      == CHOOSE n \in DOMAIN ast : ast[n].k = "fn" /\ ast[n].kids = <<j>>
Done(j)      == SubSeq(ast, FnAt(j) + 1, IF j < fnIdx THEN FnAt(j + 1) - 1 ELSE Len(ast))
Visits(j)    == IF j < fnIdx THEN <<>> ELSE visiting
Number(s, k) == Cardinality({n \in DOMAIN s : s[n].k = k})
Count(j, k)  == Number(Done(j), k) + (IF k \in BlockKinds THEN 0 ELSE Number(Visits(j), k))

Allows(part, n) == n.k \in DOMAIN part.most \cup Common /\ n.x \in part.names \cup {NoName}

Fits(part, j) ==
    /\ Len(Done(j)) + Len(Visits(j)) < part.size
    /\ \A n \in ToSet(Done(j)) \cup ToSet(Visits(j)) : Allows(part, n)
    /\ \A n \in DOMAIN Done(j) \cap DOMAIN part.begins : Done(j)[n].k = part.begins[n]
    /\ \A k \in DOMAIN part.most : Count(j, k) <= part.most[k]
    /\ \A f \in ToSet(Visits(j)) : f.last \notin Values

Selected ==
    phase = "typecheck" =>
       \E s \in Selections : fns = s.program /\ \A j \in 1..fnIdx : Fits(s.parts[j], j)

(* The instruction made for each operator computes what it means, wherever *)
(* that is anything.                                                       *)
ASSUME OperatorsAgree ==
    \A op \in BinOps :
       \A l, r \in IF isAndOr(op) THEN {0, 1} ELSE Ints :
          Source!HasMeaning(op, l, r) =>
             /\ ~M!NoQuotient(BinopInstr(op), l, r)
             /\ M!Compute(BinopInstr(op), l, r) = Source!Apply(op, l, r)
=============================================================================
