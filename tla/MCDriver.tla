------------------------------ MODULE MCDriver ------------------------------
(* An instance of Driver for TLC: every command line of at most two        *)
(* arguments, of all the kinds that main() tells apart, and the source     *)
(* file with any two options of one name.                                  *)
EXTENDS Driver

(* One program is refused at any width, one at 32 bits only.               *)
RefusedPrograms == {<<"r", "">>, <<"r", "32">>, <<"q", "32">>}

Word(name) == [option |-> FALSE, name |-> name, value |-> NoValue]

Options ==
    {Setting("help", NoValue),
     Setting("print-ir", NoValue), Setting("print-ir", ""), Setting("print-ir", "b.ll"),
     Setting("width", ""), Setting("width", "32"), Setting("width", "none")}
Words == {Word("a.lil"), Word("-x")}

CommandLines ==
    UNION {[1..n -> Options \cup Words] : n \in 0..2}
      \cup {<<Word("a.lil"), pair[1], pair[2]>> :
               pair \in {q \in Options \X Options : q[1].name = q[2].name /\ q[1] # q[2]}}
=============================================================================
