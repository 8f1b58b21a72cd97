---------------------------- MODULE SymbolTable ----------------------------
(***************************************************************************)
(* The scoped symbol table (symtab.hpp).  A SymbolTable owns its _parent,  *)
(* so the tables reachable from the typechecker's _symTab form a chain; it *)
(* is a sequence here, the top-level table first and the current scope     *)
(* last.  A table maps every key to the SymbolInfo it holds or to NoSym.   *)
(***************************************************************************)
EXTENDS LilTypes, Naturals, SequencesExt

CONSTANTS Names,        \* identifiers a program may use
          LilfnNames    \* those whose first six characters are "lilfn_"

ASSUME NamesAssumption ==
    /\ LilfnNames \subseteq Names
    /\ "lilfn_ " \notin Names    \* no identifier contains a space

(* TypecheckerVisitor enters a function's prototype under "lilfn_ <name>". *)
(* At most one such key is on the chain, and no identifier is equal to it. *)
FnMarker == "lilfn_ "
Keys     == Names \cup {FnMarker}

(* SymbolInfo: its type, the index of the FunctionPrototype getFnProto     *)
(* returns (0 is nullptr) and `decl', which names the object: the node of  *)
(* the program that declared it and the position in that node's list.      *)
SymbolInfo == [type : SymbolTypes, proto : Nat, decl : Nat \X Nat]
NoSym      == [type |-> "Err", proto |-> 0, decl |-> <<0, 0>>]
IsSym(s)   == s # NoSym

EmptyTable == [n \in Keys |-> NoSym]
Chains     == Seq([Keys -> SymbolInfo])

VarInfo(type, decl) == [type |-> TokenToSymbolType(type), proto |-> 0, decl |-> decl]
FnInfo(proto)       == [type |-> "Function", proto |-> proto, decl |-> <<0, 0>>]

-----------------------------------------------------------------------------
(* Lookups.                                                                *)

hasSymbolInCurrentScope(symTab, n) == Last(symTab)[n]

Declares(symTab, n) == \E L \in 1..Len(symTab) : IsSym(symTab[L][n])

(* The innermost entry for n, walking the _parent pointers outwards.       *)
hasSymbol(symTab, n) ==
    IF Declares(symTab, n)
    THEN LET L == CHOOSE L \in 1..Len(symTab) :
                    /\ IsSym(symTab[L][n])
                    /\ \A M \in (L+1)..Len(symTab) : ~IsSym(symTab[M][n])
         IN  symTab[L][n]
    ELSE NoSym

(* getFnProto looks only in the top-level table; 0 where it throws.        *)
getFnProto(symTab, n) ==
    IF symTab[1][n].type = "Function" THEN symTab[1][n].proto ELSE 0

(* getEnclosingFnProto takes the innermost scope below the top level that  *)
(* holds one symbol and no other, when that symbol's name starts with      *)
(* "lilfn_", and asserts that the symbol carries a prototype.              *)
OnlyKey(table, n)  == \A m \in Keys : IsSym(table[m]) <=> m = n
IsFnScope(table)   == \E n \in LilfnNames \cup {FnMarker} : OnlyKey(table, n)

(* Mutated form of FnScopes: the walk ends one table too early.            *)
FnScopesShort(symTab) == {L \in 3..Len(symTab) : IsFnScope(symTab[L])}
FnScopes(symTab)   == {L \in 2..Len(symTab) : IsFnScope(symTab[L])}

getEnclosingFnProto(symTab) ==
    LET L == CHOOSE L \in FnScopes(symTab) : \A M \in FnScopes(symTab) : M <= L
        n == CHOOSE n \in LilfnNames \cup {FnMarker} : OnlyKey(symTab[L], n)
    IN  IF FnScopes(symTab) = {} THEN 0 ELSE symTab[L][n].proto

-----------------------------------------------------------------------------
(* Updates.  addSymbol and addFnSymbol return false, changing nothing,     *)
(* when the name is anywhere on the chain: no scope shadows another.       *)

(* Mutated forms of CanAdd, with hasSymbolInCurrentScope for hasSymbol,    *)
(* and of LeaveScopes, with one LeaveScope too few.                        *)
CanAddHere(symTab, n)     == ~IsSym(hasSymbolInCurrentScope(symTab, n))
LeaveScopesOnce(symTab, k) == SubSeq(symTab, 1, Len(symTab) - 1)

CanAdd(symTab, n)    == ~Declares(symTab, n)
Add(symTab, n, info) == [symTab EXCEPT ![Len(symTab)][n] = info]

EnterScope(symTab)    == Append(symTab, EmptyTable)
LeaveScope(symTab)    == SubSeq(symTab, 1, Len(symTab) - 1)
LeaveScopes(symTab,k) == SubSeq(symTab, 1, Len(symTab) - k)
=============================================================================
