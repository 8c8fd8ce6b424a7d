----------------------------- MODULE MCHashMany -----------------------------
(* Instance of HashMany for TLC: the modes that reach blake3_hash_many. *)
EXTENDS HashMany

MCModeFlags == {{}, {"KEYED_HASH"}, {"DERIVE_KEY_CONTEXT"}, {"DERIVE_KEY_MATERIAL"}}
=============================================================================
