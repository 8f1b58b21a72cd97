------------------------------ MODULE MCLexer ------------------------------
(***************************************************************************)
(* An instance of Writing for TLC: any token after any other, more of      *)
(* those that share characters, and everything that may stand between two, *)
(* a character that the language does not have included.                   *)
(***************************************************************************)
EXTENDS Writing

Selection(types, gaps, pieces, max) ==
    [types |-> types, gaps |-> gaps, pieces |-> pieces, max |-> max]

Every == DOMAIN Words \cup {"Id", "Number", "Literal_string"}
Alike == {"Id", "If", "Number", "Op_minus", "Op_colon", "Op_eqeq", "Op_assignment", "EOL"}

Texts == {Selection(Every, {"", " "}, 1, 2),
          Selection(Alike, {""}, 0, 4),
          Selection({"Literal_string", "Id", "EOL"}, {"", "\t\r "}, 2, 2),
          Selection(Alike \cup {"Literal_string"}, {"", "\\\n", "$"}, 0, 2)}
=============================================================================
