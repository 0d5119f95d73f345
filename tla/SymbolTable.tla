---------------------------- MODULE SymbolTable ----------------------------
(***************************************************************************)
(* symbol.c (and symbol.cpp) of project 2: a stack of scopes, each with a  *)
(* uthash map from names to allocas.  A stack is a sequence of scopes, the *)
(* innermost first; a scope is the sequence of its entries, the latest     *)
(* first.  HASH_ADD_KEYPTR does not look for the name it adds, so a scope  *)
(* may hold a name twice; HASH_FIND_STR then finds the latest entry, which *)
(* UtHash shows (NewestUntilExpanded) for tables that have not grown:      *)
(* those of the bounded inputs here never do.                              *)
(***************************************************************************)
EXTENDS Integers, Sequences, FiniteSetsExt

CONSTANT NoSymbol       \* NULL

symbol_push_scope(head) == <<(<<>>)>> \o head

symbol_pop_scope(head) == Tail(head)

is_global_scope(head) == head = <<>>

symbol_insert(head, name, val) ==
    IF is_global_scope(head)
    THEN head
    ELSE [head EXCEPT ![1] = <<[name |-> name, val |-> val]>> \o @]

Entries(scope, name) == {k \in DOMAIN scope : scope[k].name = name}

ScopesWith(head, name) == {k \in DOMAIN head : Entries(head[k], name) # {}}

(* Mutant: the search starts at the outermost scope.                       *)
symbol_find_outermost(head, name) ==
    IF ScopesWith(head, name) = {}
    THEN NoSymbol
    ELSE LET scope == head[Max(ScopesWith(head, name))]
         IN  scope[Min(Entries(scope, name))].val

(* get_symbol_in_scope goes down the stack to the first scope that has the *)
(* name; past the last one the named globals of the module are asked, and  *)
(* as the grammar's global declarations add none there is nothing to find. *)
symbol_find(head, name) ==
    IF ScopesWith(head, name) = {}
    THEN NoSymbol
    ELSE LET scope == head[Min(ScopesWith(head, name))]
         IN  scope[Min(Entries(scope, name))].val
=============================================================================
