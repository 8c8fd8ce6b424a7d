------------------------------ MODULE KeyModes ------------------------------
(***************************************************************************)
(* The modes of a hasher (native/blake3_c/blake3.c and blake3_impl.h): how *)
(* each initialisation chooses key words and flags, and what every         *)
(* compression made of them.                                               *)
(*                                                                         *)
(* A compression is known by its key words and its flags byte alone, as if *)
(* everything else in it were equal; it also says what it was made for:    *)
(* the mode asked of the hasher, and the block's place in the tree.  Keys  *)
(* are short sequences of small bytes, so that a key made of the bytes of  *)
(* IV, or equal to a context's, is among them.  update and finalize are    *)
(* reduced to the compressions they may make; reset keeps key and flags.   *)
(* The names of the state machine differ from RootOutput's, with which it  *)
(* shares a module of proofs.                                              *)
(***************************************************************************)
EXTENDS Integers, Sequences

CONSTANTS
  KEY_LEN,        \* bytes of a key (32 in the code)
  Keys,           \* keys: sequences of KEY_LEN bytes
  IV,             \* the words of the initialisation vector
  Contexts        \* contexts for deriving keys

ASSUME KeysAssumption ==
  /\ KEY_LEN \in Nat
  /\ KEY_LEN % 4 = 0
  /\ Keys \subseteq [1..KEY_LEN -> 0..255]

VARIABLES
  context_key,    \* the 32 bytes the hash of each context is
  key, flags,     \* self->key and self->chunk.flags
  mode,           \* what the caller initialised the hasher for
  last, earlier   \* the last compression made, and any one before it

modesVars == <<context_key, key, flags, mode, last, earlier>>

\* enum blake3_flags
CHUNK_START == 1
CHUNK_END == 2
PARENT == 4
ROOT == 8
KEYED_HASH == 16
DERIVE_KEY_CONTEXT == 32
DERIVE_KEY_MATERIAL == 64

\* A word from four bytes, the lowest first.
load32(bytes, i) ==
  bytes[i + 1] + 256 * bytes[i + 2] + 65536 * bytes[i + 3] + 16777216 * bytes[i + 4]

load_key_words(bytes) == [w \in 1..(KEY_LEN \div 4) |-> load32(bytes, 4 * (w - 1))]

\* Where a block may be in the tree, and the flags its compression gets for
\* it.  A chunk's blocks may be its first, its last or both; the root is the
\* last block of the only chunk, or a parent.
Parts ==
  [kind : {"chunk"}, start : BOOLEAN, end : BOOLEAN, root : {FALSE}]
    \cup [kind : {"chunk"}, start : BOOLEAN, end : {TRUE}, root : {TRUE}]
    \cup [kind : {"parent"}, start : {FALSE}, end : {FALSE}, root : BOOLEAN]

PartFlags(p) ==
  (IF p.start THEN CHUNK_START ELSE 0) + (IF p.end THEN CHUNK_END ELSE 0)
    + (IF p.kind = "parent" THEN PARENT ELSE 0) + (IF p.root THEN ROOT ELSE 0)

\* The compression of a block in this place; the bits of a mode and those of
\* a place are different ones, so that | adds them up.
Compression(words, bits, for, p) ==
  [key |-> words, flags |-> (bits + PartFlags(p)) % 256, for |-> for, part |-> p]

\* It is made; whether the one before it is remembered is free.
Made(compression) ==
  /\ last' = compression
  /\ earlier' \in {earlier, last}
-----------------------------------------------------------------------------
\* hasher_init_base, over whatever the memory held.
hasher_init_base_Stale(words, bits) ==
  /\ key' = words
  /\ flags' = IF flags = 0 THEN bits ELSE flags
hasher_init_base(words, bits) ==
  /\ key' = words
  /\ flags' = bits

ModesInit ==
  /\ context_key \in [Contexts -> Keys]
  /\ \A c, d \in Contexts : context_key[c] = context_key[d] => c = d
  /\ key = IV /\ flags = 0 /\ mode = <<"hash">>
  /\ \E p \in Parts : last = Compression(IV, 0, <<"hash">>, p)
  /\ earlier = last

hasher_init ==
  /\ hasher_init_base(IV, 0)
  /\ mode' = <<"hash">>
  /\ UNCHANGED <<context_key, last, earlier>>

hasher_init_keyed(k) ==
  /\ hasher_init_base(load_key_words(k), KEYED_HASH)
  /\ mode' = <<"keyed", k>>
  /\ UNCHANGED <<context_key, last, earlier>>

(***************************************************************************)
(* A hasher of its own hashes the context; the first 32 bytes of its       *)
(* output are the key.                                                     *)
(***************************************************************************)
hasher_init_derive_key(c) ==
  /\ hasher_init_base(load_key_words(context_key[c]), DERIVE_KEY_MATERIAL)
  /\ mode' = <<"derive", c>>
  /\ \E p \in Parts : Made(Compression(IV, DERIVE_KEY_CONTEXT, <<"context">>, p))
  /\ UNCHANGED context_key

\* A block of a chunk is compressed, or a parent.
Compress(p) ==
  /\ Made(Compression(key, flags, mode, p))
  /\ UNCHANGED <<context_key, key, flags, mode>>
-----------------------------------------------------------------------------
ModesNext ==
  \/ hasher_init
  \/ \E k \in Keys : hasher_init_keyed(k)
  \/ \E c \in Contexts : hasher_init_derive_key(c)
  \/ \E p \in Parts : Compress(p)

ModesSpec == ModesInit /\ [][ModesNext]_modesVars
-----------------------------------------------------------------------------
(***************************************************************************)
(* Two compressions of equal key words and flags were made for the same:   *)
(* messages hashed in different modes, with different keys or contexts, or *)
(* nodes that differ in kind, place or being the root, share none, in      *)
(* whatever order one piece of memory was initialised for them.            *)
(***************************************************************************)
ModesApart ==
  last.key = earlier.key /\ last.flags = earlier.flags =>
    last.for = earlier.for /\ last.part = earlier.part
=============================================================================
