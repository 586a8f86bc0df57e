--------------------------- MODULE MCSqlStatement ---------------------------
(***************************************************************************)
(* Two calls on a pool of one connection: one of any kind, and a           *)
(* transaction that competes with it.  The texts are checked in the state  *)
(* before the first statement.                                             *)
(***************************************************************************)
EXTENDS SqlValues, TLC

CONSTANTS c1, c2

MCCalls == {c1, c2}
MCKindsOf == (c1 :> Kinds) @@ (c2 :> {"tx"})

SeqUpTo(S, n) == UNION {[1 .. m -> S] : m \in 0 .. n}

-----------------------------------------------------------------------------
(* Texts: strings with every character that is treated specially, and      *)
(* texts that no backend sends.                                            *)

MCStringArrays == SeqUpTo(SeqUpTo({"a", "NULL", "\"", "\\", ",", "}"}, 2), 2)
MCFloats == {"0", "-1.5", "NaN"}
MCFloat32Arrays == SeqUpTo(MCFloats, 3)
MCArrayTexts == SeqUpTo({"{", "}", ",", "\"", "a"}, 7)

\* Two characters of a kind are escaped instead of 100.
MCConnStrings ==
  {cs \in [host : SeqUpTo({"a", "'", "\\", " ", ";", "="}, 3),
           database : {<<>>, <<"b">>, <<"'">>}, user : {<<>>, <<"\\">>},
           password : {<<"'", "'", "\\">>}, port : {"5"}, sslMode : {<<>>, <<"a">>}] :
     AllEscaped(cs)}

MCCharacters == Written \cup {"a", "b", "NULL", ";", "5"} \cup MCFloats
=============================================================================
