-------------------------------- MODULE Words -------------------------------
(***************************************************************************)
(* The arithmetic of libcrypto/bitwise.hpp on words of W bits (32 in the   *)
(* code, fewer here; constants are the code's modulo 2^W).                 *)
(***************************************************************************)
EXTENDS Integers, FiniteSets, Bitwise

CONSTANT W  \* bits of a word, even

Word == 0..(2 ^ W - 1)
Half == W \div 2

u32(n) == n % 2 ^ W

XorTable == [a \in Word |-> [b \in Word |-> a ^^ b]]

xor(a, b) == XorTable[a][b]

both(a, b) == (a + b - xor(a, b)) \div 2

mul(a, b) == u32(u32(a) * u32(b))

shl(a, n) == u32(a * 2 ^ n)

shr(a, n) == a \div 2 ^ n

rotl32(n, s) == shl(n, s % W) + (IF s % W = 0 THEN 0 ELSE shr(n, -s % W))

rotr32(n, s) == shr(n, s % W) + (IF s % W = 0 THEN 0 ELSE shl(n, -s % W))

clz32(v) == IF v = 0 THEN W ELSE CHOOSE n \in 0..(W - 1) : shr(v, W - 1 - n) = 1

popcnt32(v) == Cardinality({i \in 0..(W - 1) : shr(v, i) % 2 = 1})

mul_hi32(x, y) == shr(x * y, W)

kFNV_OFFSET_BASIS == 197  \* 0x811c9dc5

kFNV_PRIME == 147         \* 0x01000193

fnv1(u, v) == xor(mul(u, kFNV_PRIME), v)

fnv1a(u, v) == mul(xor(u, v), kFNV_PRIME)

=============================================================================
