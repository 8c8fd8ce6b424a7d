--------------------------- MODULE MCCompression ----------------------------
(***************************************************************************)
(* Compression on the messages of the repository's tests, each a single    *)
(* block, which is start, end and root at once; and on a block, a counter  *)
(* and flags whose every half word is set.                                 *)
(***************************************************************************)
EXTENDS Compression

Padded(message) ==
  [j \in 1..64 |-> IF j <= Len(message) THEN message[j] ELSE 0]

OneBlock(cv, mode_flags, message, expected) ==
  [cv |-> cv, block |-> Padded(message), block_len |-> Len(message),
   counter |-> <<<<0, 0>>, <<0, 0>>>>, flags |-> 1 + 2 + 8 + mode_flags,
   expected |-> expected]

\* "3bc471e75b7fbc99531eb3fbe146aabc"
Key ==
  <<51, 98, 99, 52, 55, 49, 101, 55, 53, 98, 55, 102, 98, 99, 57, 57, 53, 
    51, 49, 101, 98, 51, 102, 98, 101, 49, 52, 54, 97, 97, 98, 99>>

\* "BLAKE3 - JVM Custom Output Length" (commonTest/.../Blake3Test.kt:20)
JvmLong ==
  OneBlock(IV, 0,
    <<66, 76, 65, 75, 69, 51, 32, 45, 32, 74, 86, 77, 32, 67, 117, 115, 116, 
    111, 109, 32, 79, 117, 116, 112, 117, 116, 32, 76, 101, 110, 103, 116, 
    104>>,
    <<172, 67, 13, 164, 148, 216, 96, 251, 210, 115, 18, 60, 139, 198, 0, 72, 
    113, 254, 209, 43, 111, 117, 92, 8, 246, 212, 193, 74, 194, 4, 184, 
    235, 55, 202, 254, 77, 73, 45, 216, 34>>)

\* "BLAKE3 - JVM Keyed Hash Test" (commonTest/.../Blake3Test.kt:35)
JvmKeyed ==
  OneBlock(load_key_words(Key), 16,
    <<66, 76, 65, 75, 69, 51, 32, 45, 32, 74, 86, 77, 32, 75, 101, 121, 101, 
    100, 32, 72, 97, 115, 104, 32, 84, 101, 115, 116>>,
    <<118, 149, 189, 57, 115, 68, 206, 103, 164, 93, 237, 188, 25, 205, 85, 
    63, 201, 182, 11, 63, 91, 30, 66, 8, 2, 212, 56, 196, 37, 73, 144, 182>>)

\* "BLAKE3-FFM - JVM Keyed Hash Test" (blake3-ffm/.../Blake3Test.kt:37)
FfmKeyed ==
  OneBlock(load_key_words(Key), 16,
    <<66, 76, 65, 75, 69, 51, 45, 70, 70, 77, 32, 45, 32, 74, 86, 77, 32, 75, 
    101, 121, 101, 100, 32, 72, 97, 115, 104, 32, 84, 101, 115, 116>>,
    <<166, 35, 229, 217, 141, 24, 97, 18, 174, 193, 176, 108, 74, 18, 106, 
    103, 42, 140, 51, 173, 93, 70, 155, 49, 43, 82, 15, 205, 90, 156, 144, 
    205>>)

\* "BLAKE3 - Android Custom Output Length" (androidDeviceTest/.../Blake3AndroidDeviceTest.kt:28)
AndroidLong ==
  OneBlock(IV, 0,
    <<66, 76, 65, 75, 69, 51, 32, 45, 32, 65, 110, 100, 114, 111, 105, 100, 
    32, 67, 117, 115, 116, 111, 109, 32, 79, 117, 116, 112, 117, 116, 32, 
    76, 101, 110, 103, 116, 104>>,
    <<43, 160, 9, 130, 6, 204, 147, 229, 55, 199, 159, 157, 130, 112, 252, 
    182, 121, 141, 246, 234, 19, 134, 131, 148, 76, 246, 37, 98, 190, 247, 
    118, 183, 26, 172, 13, 87, 249, 194, 133, 167>>)

Extreme ==
  [cv |-> [i \in 0..7 |-> <<65535 - i, 257 * i>>], block |-> [j \in 1..64 |-> 256 - j],
   block_len |-> 64, counter |-> <<<<65535, 65535>>, <<65535, 65534>>>>,
   flags |-> 127, expected |-> <<>>]

MCInputs == {JvmLong, JvmKeyed, FfmKeyed, AndroidLong, Extreme}
=============================================================================
