----------------------------- MODULE MCKeyModes -----------------------------
(***************************************************************************)
(* KeyModes with keys of two words: the bytes of IV, the way a caller      *)
(* could choose them, a key that shares its first word and one that        *)
(* shares its second.                                                      *)
(***************************************************************************)
EXTENDS KeyModes

WithOnes(S) == [j \in 1..8 |-> IF j \in S THEN 1 ELSE 0]

MCKeys == {WithOnes({1, 5}), WithOnes({1, 8}), WithOnes({5})}

MCIV == load_key_words(WithOnes({1, 5}))
=============================================================================
