----------------------------- MODULE MCCompiler -----------------------------
(* Instances of Compiler for TLC: the function prototypes tried.           *)
EXTENDS Scoping

Fn(type, name, params) == [type |-> type, name |-> name, params |-> params]
Par(type, name)        == [type |-> type, name |-> name]

VoidMain  == {<<Fn("Type_void", "main", <<>>)>>}
IntMain   == {<<Fn("Type_int", "main", <<>>)>>}
ArrayMain == {<<Fn("Type_void", "main", <<Par("Type_array", "b")>>)>>}

(* One function, which may call itself, with parameters of every type.     *)
OneFunction ==
    {<<Fn("Type_int", "main", <<Par("Type_array", "a"), Par("Type_int", "b")>>)>>,
     <<Fn("Type_bool", "main", <<Par("Type_bool", "b")>>)>>,
     <<Fn("Type_array", "main", <<Par("Type_array", "a")>>)>>,
     <<Fn("Type_void", "main", <<>>)>>}

(* Two functions with a parameter of the same name and different types; no *)
(* main, two of them, a name given twice, one that the runtime has.        *)
SeveralFunctions ==
    {<<Fn("Type_void", "b", <<Par("Type_int", "a")>>),
       Fn("Type_int", "main", <<Par("Type_bool", "a")>>)>>,
     <<Fn("Type_void", "b", <<>>)>>,
     <<Fn("Type_void", "main", <<>>), Fn("Type_int", "main", <<>>)>>,
     <<Fn("Type_void", "main", <<Par("Type_int", "a"), Par("Type_bool", "a")>>)>>,
     <<Fn("Type_void", "main", <<Par("Type_int", "main")>>)>>,
     <<Fn("Type_void", "lib", <<>>), Fn("Type_void", "main", <<>>)>>}

AnyFunctions == OneFunction \cup SeveralFunctions
=============================================================================
