------------------------------- MODULE Lexer -------------------------------
(***************************************************************************)
(* lexer.l, and the loop of main() that fills the buffer of tokens with    *)
(* what yylex() returns.  flex is external: of the rules that match at the *)
(* present position it takes one that matches most characters, and of      *)
(* those the first.                                                        *)
(***************************************************************************)
EXTENDS Integers, FiniteSetsExt, SequencesExt, TLC

CONSTANTS DIGIT, ALPHA  \* the characters of these two classes that are tried

VARIABLES text,         \* the file
          pos,          \* where yylex() goes on
          tokens,       \* the buffer
          phase         \* "writing" the file, "reading" it, "read"

reading == <<pos, tokens, phase>>

Skipped == "skipped"

(* TokenInfo, without the number of the line.                              *)
Token(type, val) == [type |-> type, token |-> val]

-----------------------------------------------------------------------------
(* The rules.                                                              *)

Spelled ==
    [PL |-> "(", PR |-> ")", SL |-> "[", SR |-> "]", CL |-> "{", CR |-> "}",
     Op_add |-> "+", Op_minus |-> "-", Op_mult |-> "*", Op_exp |-> "^", Op_divide |-> "/",
     Op_mod |-> "%", Op_and |-> "&", Op_or |-> "|", Op_assignment |-> ":=",
     Op_neq |-> "!=", Op_eqeq |-> "==", Op_gt |-> ">", Op_gte |-> ">=", Op_lt |-> "<",
     Op_lte |-> "<=", Op_colon |-> ":", Op_question |-> "?", Op_bang |-> "!",
     Comma |-> ",",
     Type_bool |-> "bool", Type_int |-> "int", Type_array |-> "array",
     Type_void |-> "void", Literal_true |-> "true", Literal_false |-> "false",
     Sizeof |-> "sizeof", Input |-> "input", If |-> "if",
     Else |-> "else", While |-> "while", For |-> "for", Return |-> "return",
     Abort |-> "abort", EOL |-> "\n"] @@ ("Print" :> "print")

Char(s, i)    == SubSeq(s, i, i)
Only(s, C, i) == \A n \in i..Len(s) : Char(s, n) \in C

IsID(s)     == Char(s, 1) \in ALPHA /\ Only(s, ALPHA \cup DIGIT, 2)
IsNUMBER(s) == LET first == IF Char(s, 1) = "-" THEN 2 ELSE 1
               IN  first <= Len(s) /\ Only(s, DIGIT, first)

(* Mutated form of IsBlank: any white space.                               *)
IsSpace(s)   == Only(s, {"\t", "\r", " ", "\n"}, 1)

IsBlank(s)   == Only(s, {"\t", "\r", " "}, 1)
IsComment(s) == Char(s, 1) = ";" /\ \A n \in 2..Len(s) : Char(s, n) # "\n"

(* A quote, then characters that are no quote or backslash, or have a      *)
(* backslash before them and are no end of a line, and a quote.            *)
IsString(s) ==
    LET escaped[n \in 1..Len(s)] == n > 1 /\ Char(s, n - 1) = "\\" /\ ~escaped[n - 1]
    IN  /\ Len(s) >= 2 /\ Char(s, 1) = "\"" /\ Char(s, Len(s)) = "\"" /\ ~escaped[Len(s)]
        /\ \A n \in 2..Len(s) - 1 : IF escaped[n] THEN Char(s, n) # "\n"
                                    ELSE Char(s, n) # "\""

(* Each rule: the token it returns for s, if it matches s.                 *)
Rule(matches, token) == IF matches THEN {token} ELSE {}

(* Mutated form of Rules: the rule for identifiers before the keywords.    *)
RulesIDFirst(s) ==
    << Rule(s = "\\\n", Skipped),
       Rule(IsID(s), "Id"),
       {t \in DOMAIN Spelled : Spelled[t] = s},
       Rule(IsString(s), "Literal_string"),
       Rule(IsBlank(s), Skipped),
       Rule(IsComment(s), Skipped),
       Rule(IsNUMBER(s), "Number"),
       Rule(Len(s) = 1, Skipped) >>

Rules(s) ==
    << Rule(s = "\\\n", Skipped),
       {t \in DOMAIN Spelled : Spelled[t] = s},
       Rule(IsString(s), "Literal_string"),
       Rule(IsBlank(s), Skipped),
       Rule(IsComment(s), Skipped),
       Rule(IsNUMBER(s), "Number"),
       Rule(IsID(s), "Id"),
       Rule(Len(s) = 1, Skipped) >>

Matching(s) == SelectSeq(Rules(s), LAMBDA rule : rule # {})

(* tokenVal: what a string literal stands for.  Quotes are left out, the   *)
(* escaped ones too, whose backslash stays; of \n a line's end is made,    *)
(* also of the n after an escaped backslash.                               *)
tokenVal(s) ==
    LET res[i \in 1..Len(s) + 1] ==
          IF i > Len(s) THEN ""
          ELSE IF Char(s, i) = "\"" THEN res[i + 1]
          ELSE IF i < Len(s) /\ SubSeq(s, i, i + 1) = "\\n" THEN "\n" \o res[i + 2]
          ELSE Char(s, i) \o res[i + 1]
    IN  res[1]

-----------------------------------------------------------------------------
(* yylex() and the loop around it.                                         *)

yytext(n) == SubSeq(text, pos, pos + n - 1)
yyleng    == Max({n \in 1..Len(text) - pos + 1 : Matching(yytext(n)) # <<>>})

Match ==
    /\ phase = "reading" /\ pos <= Len(text)
    /\ LET s == yytext(yyleng)
           t == CHOOSE t \in Matching(s)[1] : TRUE
       IN  tokens' = IF t = Skipped THEN tokens
                     ELSE Append(tokens, Token(t, IF t = "Literal_string" THEN tokenVal(s)
                                                  ELSE s))
    /\ pos' = pos + yyleng
    /\ UNCHANGED <<text, phase>>

EndOfFile ==
    /\ phase = "reading" /\ pos > Len(text)
    /\ phase' = "read"
    /\ tokens' = Append(tokens, Token("End", "EOF"))
    /\ UNCHANGED <<text, pos>>
=============================================================================
