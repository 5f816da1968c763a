-------------------------------- MODULE Scopes --------------------------------
(***************************************************************************)
(* Block scope as C has it: a stack of scopes, each with its own names.    *)
(* This is what the table of src/src/analysis/sema_scope.c has to provide. *)
(***************************************************************************)
EXTENDS Integers, Sequences

CONSTANTS
  Names,    \* identifiers
  Ids       \* declarations

VARIABLE scopes   \* innermost last; a scope maps names to declarations

NoNames == [name \in {} |-> 0]

(* The names a parameter list declares and those of the outermost block    *)
(* share a scope.                                                          *)
BeginFunction == scopes' = <<NoNames>>

Enter == scopes' = Append(scopes, NoNames)

Leave == scopes # <<>> /\ scopes' = SubSeq(scopes, 1, Len(scopes) - 1)

(* A name is declared once in a scope; it hides the same name further out. *)
Declare(name, id) ==
  /\ scopes # <<>>
  /\ name \notin DOMAIN scopes[Len(scopes)]
  /\ scopes' = [scopes EXCEPT ![Len(scopes)] =
                  [n \in DOMAIN @ \cup {name} |-> IF n = name THEN id ELSE @[n]]]

Init == scopes = <<>>

Next ==
  \/ BeginFunction \/ Enter \/ Leave
  \/ scopes' # scopes /\ \E name \in Names, id \in Ids : Declare(name, id)

Spec == Init /\ [][Next]_scopes

-----------------------------------------------------------------------------
(* Declaration id is what name means: no scope further in declares it.     *)
Means(name, id) ==
  \E k \in DOMAIN scopes :
    /\ name \in DOMAIN scopes[k] /\ scopes[k][name] = id
    /\ \A j \in k + 1 .. Len(scopes) : name \notin DOMAIN scopes[j]
=============================================================================
