----------------------------- MODULE Sentences -----------------------------
(***************************************************************************)
(* The parser over the buffers of given goals: the text of a goal is       *)
(* derived leftmost symbol first, by the rules of Grammar, and again only  *)
(* as far as the parser has looked.  The symbol AnyTokens stands for any   *)
(* tokens of the goal's alphabet up to End, so a goal is a sentence of the *)
(* grammar, or a beginning of one that may go on in any way, right or      *)
(* wrong.                                                                  *)
(***************************************************************************)
EXTENDS Parsing

CONSTANTS Goals         \* records [symbols, alphabet, max]: max bounds the tokens

AnyTokens == "any"
Symbols   == Tokens \cup Nonterminals \cup {"End", AnyTokens}

ASSUME GoalsAssumption ==
    Goals \subseteq [symbols : Seq(Symbols), alphabet : SUBSET Tokens, max : Nat]

VARIABLES goal,         \* what the buffer holds
          pending       \* the symbols still to be derived, the next one first

text == <<goal, pending>>

InitSentence == Init /\ goal \in Goals /\ pending = goal.symbols

Wanted == phase = "parsing" /\ ~Known /\ pending # <<>>

(* A nonterminal is replaced by one of its right-hand sides, of those that *)
(* fit in the alphabet and in the buffer.                                  *)
Derive ==
    /\ Wanted /\ Head(pending) \in Nonterminals
    /\ \E rhs \in Rules[Head(pending)] :
          /\ {rhs[i] : i \in DOMAIN rhs} \subseteq goal.alphabet \cup Nonterminals \cup {"End"}
          /\ Len(tokens) + LeastLength(rhs \o Tail(pending)) <= goal.max
          /\ pending' = rhs \o Tail(pending)
    /\ UNCHANGED <<goal, vars>>

(* A token is the parser's to look at.                                     *)
Write ==
    /\ Wanted /\ Head(pending) \in Tokens \cup {"End"}
    /\ ReadToken(Head(pending))
    /\ pending' = Tail(pending)
    /\ UNCHANGED goal

WriteAny ==
    /\ Wanted /\ Head(pending) = AnyTokens
    /\ \/ \E t \in goal.alphabet : Len(tokens) < goal.max /\ ReadToken(t)
       \/ ReadToken("End")
    /\ UNCHANGED text

NextSentence ==
    \/ Derive
    \/ Write
    \/ WriteAny
    \/ Step /\ UNCHANGED text
    \/ Ended /\ UNCHANGED text

SentenceSpec == InitSentence /\ [][NextSentence]_<<vars, text>>

(* One thread runs, and the file ends: the next step is always taken.      *)
Fairness == WF_<<vars, text>>(NextSentence)

FairSpec == SentenceSpec /\ Fairness

Grammatical == AnyTokens \notin {goal.symbols[i] : i \in DOMAIN goal.symbols}

(* Every program of the grammar is accepted: no order of the alternatives, *)
(* no prefix that two of them share and no token left consumed by one that *)
(* failed makes parseProgram throw (parser.cpp:521-583, 648-684).          *)
Accepted == Grammatical => phase # "error"

(* The tree of a program of the grammar is that program, with an           *)
(* expression in every place and nothing passed over.                      *)
RoundTrip == Grammatical /\ phase = "parsed" => Tree = Written
=============================================================================
