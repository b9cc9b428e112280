------------------------------- MODULE MCRefs -------------------------------
(* Refs for TLC: a button and a text of the same words, a button that takes *)
(* the words of a text in it, and a cell with an identifier.                *)
EXTENDS Refs

MCElementKind == {[role |-> "button", id |-> "", text |-> "Add"],
           [role |-> "button", id |-> "", text |-> ""],
           [role |-> "text", id |-> "", text |-> "Add"],
           [role |-> "cell", id |-> "tile", text |-> ""]}
=============================================================================
