------------------------------ MODULE MCPages ------------------------------
(* Small instances of App for TLC. *)
EXTENDS App

CONSTANTS ab, abBlank, shoes

const_Params == {"q", "category"}
const_Values == [p \in const_Params |-> IF p = "q" THEN {ab} ELSE {shoes}]
const_Texts == {Empty, ab, abBlank}
const_ShortTexts == {Empty}
const_Trim == [t \in const_Texts |-> IF t = abBlank THEN ab ELSE t]
=============================================================================
