------------------------------- MODULE MCFill -------------------------------
(* A form of two fields, one called "name" and one before it "username".   *)
EXTENDS Fill

MCEndsWith == <<{1}, {1, 2}>>
=============================================================================
