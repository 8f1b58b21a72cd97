------------------------------ MODULE Writing ------------------------------
(***************************************************************************)
(* Someone writes tokens in a file, as README.md:3-63 spells them, with or *)
(* without something between one and the next, and Lexer reads the file.   *)
(***************************************************************************)
EXTENDS Lexer

CONSTANTS Identifiers, Numbers,     \* those tried
          Selections                \* what is written, in records [types, gaps, pieces, max]:
                                    \* max tokens of these types, with gaps between them
                                    \* and strings of so many pieces

VARIABLES selection, meant,         \* the tokens written
          apart                     \* no two of them have run into one another

vars == <<text, reading, selection, meant, apart>>

-----------------------------------------------------------------------------
(* The language of the README.                                             *)

Type     == [Type_bool |-> "bool", Type_int |-> "int", Type_array |-> "array",
             Type_void |-> "void"]
Binop    == [Op_add |-> "+", Op_minus |-> "-", Op_mult |-> "*", Op_exp |-> "^",
             Op_divide |-> "/", Op_mod |-> "%", Op_and |-> "&", Op_or |-> "|",
             Op_eqeq |-> "==", Op_neq |-> "!=", Op_gt |-> ">", Op_lt |-> "<",
             Op_gte |-> ">=", Op_lte |-> "<="]
Unaryop  == [Op_minus |-> "-", Op_bang |-> "!"]
Word     == [If |-> "if", Else |-> "else", While |-> "while", For |-> "for",
             Return |-> "return", Abort |-> "abort", Sizeof |-> "sizeof",
             Input |-> "input", Literal_true |-> "true", Literal_false |-> "false"]
            @@ ("Print" :> "print")
Mark     == [Op_assignment |-> ":=", Op_colon |-> ":", Op_question |-> "?",
             Comma |-> ",", PL |-> "(", PR |-> ")", SL |-> "[", SR |-> "]", CL |-> "{",
             CR |-> "}", EOL |-> "\n"]

Words == Type @@ Binop @@ Unaryop @@ Word @@ Mark

(* A string: its pieces as they are written, and what each one stands for. *)
Piece == ("n" :> "n") @@ (";" :> ";") @@ ("\\n" :> "\n") @@ ("\\t" :> "\t")
           @@ ("\\\"" :> "\"") @@ ("\\\\" :> "\\")

Strings == UNION {[1..n -> DOMAIN Piece] : n \in 0..selection.pieces}
Joined(s) == FoldLeft(LAMBDA r, p : r \o p, "", s)

(* The tokens of a type, each with the text that it is written as.         *)
Written(type) ==
    CASE type = "Id"     -> {<<Token("Id", x), x>> : x \in Identifiers}
      [] type = "Number" -> {<<Token("Number", n), n>> : n \in Numbers}
      [] type = "Literal_string" ->
            {<<Token(type, Joined([n \in DOMAIN s |-> Piece[s[n]]])),
               "\"" \o Joined(s) \o "\"">> : s \in Strings}
      [] OTHER -> {<<Token(type, Words[type]), Words[type]>>}

(* Before the end of a line there may be a comment.                        *)
Comment == ";(\"x"

(* The pairs that are read as something else when nothing is between them: *)
(* words and numbers, a minus and a number, and two marks that begin as    *)
(* another one does.                                                       *)
IsWord(t) == t.type \in {"Id"} \cup DOMAIN Word \cup DOMAIN Type
Signed(t) == Char(t.token, 1) = "-"

RunTogether(s, t) ==
    \/ IsWord(s) /\ (IsWord(t) \/ (t.type = "Number" /\ ~Signed(t)))
    \/ s.type \in {"Number", "Op_minus"} /\ t.type = "Number" /\ ~Signed(t)
    \/ s.type \in {"Op_colon", "Op_bang", "Op_lt", "Op_gt"} /\ t.type = "Op_eqeq"

-----------------------------------------------------------------------------
Init ==
    /\ text = "" /\ pos = 1 /\ tokens = <<>> /\ phase = "writing"
    /\ selection \in Selections
    /\ meant = <<>> /\ apart = TRUE

Write ==
    /\ phase = "writing" /\ Len(meant) < selection.max
    /\ \E type \in selection.types : \E w \in Written(type) :
          \E gap \in selection.gaps \cup (IF type = "EOL" THEN {Comment} ELSE {}) :
             /\ text' = text \o gap \o w[2]
             /\ meant' = Append(meant, w[1])
             /\ apart' = (apart /\ (meant = <<>> \/ gap # "" \/ ~RunTogether(Last(meant), w[1])))
    /\ UNCHANGED <<reading, selection>>

Open ==
    /\ phase = "writing" /\ phase' = "reading"
    /\ UNCHANGED <<text, pos, tokens, selection, meant, apart>>

Read == (Match \/ EndOfFile) /\ UNCHANGED <<selection, meant, apart>>

Ended == phase = "read" /\ UNCHANGED vars

Next == Write \/ Open \/ Read \/ Ended

Spec == Init /\ [][Next]_vars

-----------------------------------------------------------------------------
(* Of the escapes only \n, and of that only where no backslash is before   *)
(* it, is read as what it stands for.                                      *)
EscapesUnderstood ==
    \A i \in DOMAIN meant :
       meant[i].type = "Literal_string" =>
          \A n \in 1..Len(meant[i].token) : Char(meant[i].token, n) \notin {"\"", "\t", "\\"}

AsMeant == tokens = Append(meant, Token("End", "EOF"))

(* The buffer the parser gets is what was written, whatever stands between *)
(* the tokens, as long as no two of them have run together and no string   *)
(* has an escape other than \n; and in no other case (the rules of lexer.l *)
(* and their order, and the loop at parser.cpp:721).                       *)
ReadAsWritten == phase = "read" => (AsMeant <=> apart /\ EscapesUnderstood)

(* What runs together does so within its line: the parser's ends of        *)
(* statements are where they were written (lexer.l:82).                    *)
Lines(s) == SelectSeq(s, LAMBDA t : t.type = "EOL")
LinesKept == phase = "read" => Len(Lines(tokens)) = Len(Lines(meant))
=============================================================================
