------------------------------ MODULE MCParser ------------------------------
(* Instances of Sentences for TLC.                                         *)
EXTENDS Sentences

VoidMain == <<"Type_void", "Id", "PL", "PR", "CL", "EOL">>
EndBody  == <<"CR", "EOL", "End">>

Goal(symbols, alphabet, max) == [symbols |-> symbols, alphabet |-> alphabet, max |-> max]

(* What begins as given and goes on in any way.                            *)
Any(begin, alphabet, max) == Goal(Append(begin, AnyTokens), alphabet, max)
InMain(begin, alphabet, max) == Any(VoidMain \o begin, alphabet \cup {"EOL", "CR"}, max)

Blocks    == {InMain(<<"If", "PL", "Id", "PR", "CL", "EOL">>,
                     {"CL", "PL", "PR", "If", "Else", "Id"}, 18)}
Parens    == {InMain(<<"Return", "PL", "Id", t>>,
                     {"PL", "PR", "Id", "Op_minus", "Op_question", "Op_colon"}, 15) :
                 t \in {"Op_question", "Op_minus"}}
Arguments == {InMain(begin, {"PL", "PR", "Id", "SL", "SR", "Comma"}, 13) :
                 begin \in {<<"Id", "PL">>, <<"Print", "PL">>}}
Decls     == {InMain(begin, {"Type_array", "Id", "SL", "SR", "Comma"}, 15) :
                 begin \in {<<"Type_int">>, <<"Type_array", "Id">>}}
             \cup {InMain(<<"CL", "EOL", "CR", "Type_array">>,
                           {"Type_array", "Id", "SL", "SR"}, 17)}
Headers   == {Any(<<"Type_int", "Id", "PL">>,
                  {"EOL", "CR", "CL", "Type_int", "Type_void", "Id", "PR", "Comma"}, 13)}

Statements  == {Goal(VoidMain \o <<"stmts">> \o EndBody,
                     {"EOL", "CR", "CL", "PL", "PR", "Id", "Op_minus", "Op_assignment",
                      "SL", "SR", "Comma", "If", "While", "Print", "Literal_string",
                      "Return", "Abort", "Type_int", "Type_array"}, 17)}
Controls    == {Goal(VoidMain \o control \o <<"EOL">> \o EndBody,
                     {"EOL", "CR", "CL", "PL", "PR", "Id", "Else", "Op_minus", "Type_int"}, 23) :
                   control \in {<<"For", "PL", "Id", "Op_colon", "expr", "PR", "stmtblock">>,
                                <<"If", "PL", "expr", "PR", "stmtblock", "else">>}}
Expressions == {Goal(VoidMain \o <<"Return", "expr", "EOL">> \o EndBody,
                     {"PL", "PR", "Id", "Op_minus", "Op_bang", "Op_question", "Op_colon",
                      "SL", "SR", "Comma", "Number", "Literal_true", "Literal_false",
                      "Sizeof", "Input"}, 20)}
Programs    == {Goal(<<"program">>,
                     {"EOL", "CR", "CL", "Id", "PL", "PR", "Comma", "Op_minus",
                      "Type_int", "Type_void"}, 18)}

AllGoals == Blocks \cup Parens \cup Arguments \cup Decls \cup Headers
            \cup Statements \cup Controls \cup Expressions \cup Programs

ArrayBodies == {InMain(<<>>, {"Type_array", "Id", "SL", "SR", "Number"}, 12)}
=============================================================================
