------------------------------- MODULE Targets -------------------------------
(***************************************************************************)
(* The targets of a block.  libpoolprotocols/stratum/arith_uint256.cpp     *)
(* (base_uint: limbs pn[0..WIDTH-1], least significant first) expands the  *)
(* "bits" of a stratum job, libcrypto/hash_types.hpp (hash256: elements of *)
(* two limbs, most significant first) those of a getwork answer.           *)
(*                                                                         *)
(* A byte has B bits (8 in the code): a limb 4 bytes, an element 8, and a  *)
(* compact target is a size in bytes with a word of 3 bytes whose top bit  *)
(* is the sign.                                                            *)
(***************************************************************************)
EXTENDS Integers

CONSTANTS B, WIDTH, CompactSizes, Samples

ASSUME WidthAssumption == B > 0 /\ WIDTH > 0 /\ WIDTH % 2 = 0

VARIABLE target

L == 4 * B
N == L * WIDTH
Bytes == 4 * WIDTH
Limbs == 0..(WIDTH - 1)
Elements == 0..(WIDTH \div 2 - 1)

zero == [i \in Limbs |-> 0]

(* base_uint(uint64_t)                                                     *)
ofWord(w) == [zero EXCEPT ![0] = w % 2 ^ L, ![1] = (w \div 2 ^ L) % 2 ^ L]

(* operator<<=, operator>>=; the two parts of a limb have no common bit.   *)
shiftedLeft(a, n) ==
    LET k == n \div L
        s == n % L
    IN  [j \in Limbs |->
            (IF j - k >= 0 THEN (a[j - k] * 2 ^ s) % 2 ^ L ELSE 0)
                + (IF j - k - 1 >= 0 /\ s # 0 THEN a[j - k - 1] \div 2 ^ (L - s) ELSE 0)]

shiftedRight(a, n) ==
    LET k == n \div L
        s == n % L
    IN  [j \in Limbs |->
            (IF j + k < WIDTH THEN a[j + k] \div 2 ^ s ELSE 0)
                + (IF j + k + 1 < WIDTH /\ s # 0 THEN (a[j + k + 1] * 2 ^ (L - s)) % 2 ^ L ELSE 0)]

(* bits(): the position after the highest bit.                             *)
bits(a) ==
    IF a = zero THEN 0
    ELSE LET pos == CHOOSE i \in Limbs : a[i] # 0 /\ \A j \in Limbs : j > i => a[j] = 0
             nbits == CHOOSE n \in 0..(L - 1) : a[pos] \div 2 ^ n = 1
         IN  L * pos + nbits + 1

(* operator+=: the carry ripples from limb to limb.                        *)
plus(a, b) ==
    LET sum[i \in -1..(WIDTH - 1)] ==
            IF i = -1 THEN [pn |-> zero, carry |-> 0]
            ELSE LET p == sum[i - 1]
                     n == p.carry + a[i] + b[i]
                 IN  [pn |-> [p.pn EXCEPT ![i] = n % 2 ^ L], carry |-> n \div 2 ^ L]
    IN  sum[WIDTH - 1].pn

(* operator-(): the complement plus one; operator-= adds it.               *)
negative(a) == plus([i \in Limbs |-> 2 ^ L - 1 - a[i]], ofWord(1))

minus(a, b) == plus(a, negative(b))

(* CompareTo: the most significant limb that differs decides.              *)
CompareTo(a, b) ==
    IF a = b THEN 0
    ELSE LET i == CHOOSE k \in Limbs : a[k] # b[k] /\ \A j \in Limbs : j > k => a[j] = b[j]
         IN  IF a[i] < b[i] THEN -1 ELSE 1

(* One row of operator*=: pn += a[j] * b, shifted by j limbs.              *)
row(pn, a, b, j) ==
    LET r[i \in -1..(WIDTH - 1 - j)] ==
            IF i = -1 THEN [pn |-> pn, carry |-> 0]
            ELSE LET p == r[i - 1]
                     n == p.carry + p.pn[i + j] + a[j] * b[i]
                 IN  [pn |-> [p.pn EXCEPT ![i + j] = n % 2 ^ L], carry |-> n \div 2 ^ L]
    IN  r[WIDTH - 1 - j].pn

-----------------------------------------------------------------------------
(* A compact target [size, word].                                          *)
mantissa(c) == c.word % 2 ^ (3 * B - 1)

(* *pfOverflow, from the word as shifted for a short size.                 *)
isOverflow(c) ==
    LET w == IF c.size <= 3 THEN mantissa(c) \div 2 ^ (B * (3 - c.size)) ELSE mantissa(c)
    IN  w # 0 /\ \/ c.size > Bytes + 2
                 \/ w >= 2 ^ B /\ c.size > Bytes + 1
                 \/ w >= 2 ^ (2 * B) /\ c.size > Bytes

SetCompact(c) ==
    IF c.size <= 3 THEN ofWord(mantissa(c) \div 2 ^ (B * (3 - c.size)))
    ELSE shiftedLeft(ofWord(mantissa(c)), B * (c.size - 3))

(* A mantissa whose top bit is set would read as negative: it gives up its *)
(* last byte and the size grows.                                           *)
GetCompact(a) ==
    LET size == (bits(a) + B - 1) \div B
        word == IF size <= 3 THEN a[0] * 2 ^ (B * (3 - size)) ELSE shiftedRight(a, B * (size - 3))[0]
    IN  IF word >= 2 ^ (3 * B - 1) THEN [size |-> size + 1, word |-> word \div 2 ^ B]
        ELSE [size |-> size, word |-> word]

-----------------------------------------------------------------------------
(* Mutant: the bits that leave an element are lost.                        *)
shiftLeftNoCarry(h, n, undefined) ==
    LET bits_of_element == 2 * L
        jump == n \div bits_of_element
        s == n % bits_of_element
        last == WIDTH \div 2 - 1
    IN  [e \in Elements |-> IF e + jump <= last THEN (h[e + jump] * 2 ^ s) % 2 ^ bits_of_element ELSE 0]

(* shiftLeft on the elements, 0 the most significant.  A shift by a whole  *)
(* number of elements also shifts right by all the bits of an element,     *)
(* which C++ leaves undefined: the build gives 0 or the element.           *)
shiftLeft(h, n, undefined) ==
    LET bits_of_element == 2 * L
        jump == n \div bits_of_element
        s == n % bits_of_element
        last == WIDTH \div 2 - 1
        over(x) == IF s = 0 THEN (IF undefined = "zero" THEN 0 ELSE x) ELSE x \div 2 ^ (bits_of_element - s)
    IN  IF n = 0 THEN h
        ELSE [e \in Elements |->
                (IF e + jump + 1 <= last THEN over(h[e + jump + 1]) ELSE 0)
                    + (IF e + jump <= last THEN (h[e + jump] * 2 ^ s) % 2 ^ bits_of_element ELSE 0)]

from_compact(c, undefined) ==
    LET word(w) == [e \in Elements |-> IF e = WIDTH \div 2 - 1 THEN w ELSE 0]
    IN  IF c.size <= 3 THEN word(mantissa(c) \div 2 ^ (B * (3 - c.size)))
        ELSE shiftLeft(word(mantissa(c)), B * (c.size - 3), undefined)

(* The limbs of a hash256, as both targets reach the miners.               *)
limbsOf(h) ==
    [i \in Limbs |->
        LET e == h[WIDTH \div 2 - 1 - i \div 2] IN IF i % 2 = 0 THEN e % 2 ^ L ELSE e \div 2 ^ L]

-----------------------------------------------------------------------------
(* processResponse of the stratum client, then of the getwork client, on   *)
(* the same bits.                                                          *)
stratumTarget ==
    /\ target.phase = "stratum"
    /\ target' = [target EXCEPT !.phase = "getwork", !.stratum = SetCompact(target.c)]

getworkTarget ==
    /\ target.phase = "getwork"
    /\ \E undefined \in {"zero", "element"} :
        target' = [target EXCEPT !.phase = "contract", !.getwork = limbsOf(from_compact(target.c, undefined))]

contract ==
    /\ target.phase = "contract"
    /\ target' = [target EXCEPT !.phase = "done", !.again = GetCompact(target.stratum)]

(* operator*= row by row, then operator+= of a remainder.                  *)
multiplyRow ==
    /\ target.phase = "multiply"
    /\ target' = [target EXCEPT !.num = row(@, target.a, target.b, target.j), !.j = @ + 1,
                    !.phase = IF target.j = WIDTH - 1 THEN "add" ELSE @]

addRemainder ==
    /\ target.phase = "add"
    /\ target' = [target EXCEPT !.num = plus(@, target.r), !.phase = "divide"]

(* operator/=: b is aligned with the number, then shifted back bit by bit. *)
alignDivisor ==
    /\ target.phase = "divide"
    /\ LET shift == bits(target.num) - bits(target.b)
       IN  target' = IF shift < 0 THEN [target EXCEPT !.phase = "quotient"]
                     ELSE [target EXCEPT !.phase = "subtract", !.div = shiftedLeft(target.b, shift), !.j = shift]

subtractStep ==
    /\ target.phase = "subtract"
    /\ LET fits == CompareTo(target.num, target.div) >= 0
       IN  target' = [target EXCEPT
                !.num = IF fits THEN minus(@, target.div) ELSE @,
                !.quot = IF fits THEN [@ EXCEPT ![target.j \div L] = @ + 2 ^ (target.j % L)] ELSE @,
                !.div = shiftedRight(@, 1),
                !.j = @ - 1,
                !.phase = IF target.j = 0 THEN "quotient" ELSE @]

TargetInit ==
    \/ \E n \in CompactSizes, w \in 0..(2 ^ (3 * B) - 1) :
        target = [phase |-> "stratum", c |-> [size |-> n, word |-> w], stratum |-> zero, getwork |-> zero,
                  again |-> [size |-> 0, word |-> 0]]
    \/ \E a, b \in Samples, r \in Samples \cup {zero} :
        /\ b # zero /\ CompareTo(r, b) < 0 /\ bits(a) + bits(b) <= N
        /\ target = [phase |-> "multiply", a |-> a, b |-> b, r |-> r, num |-> zero, div |-> zero, quot |-> zero,
                     j |-> 0]

TargetNext ==
    \/ stratumTarget \/ getworkTarget \/ contract
    \/ multiplyRow \/ addRemainder \/ alignDivisor \/ subtractStep

-----------------------------------------------------------------------------
(* The sizes at which shiftLeft moves the word by whole elements and some  *)
(* element is left to shift right: 11 and 19 of the sizes 0 to 255.        *)
UndefinedSizes == {3 + 8 * k : k \in 1..(WIDTH \div 2 - 2)}

(***************************************************************************)
(* A block's bits give the same target whether they come in a stratum job  *)
(* (SetCompact) or in a getwork answer (from_compact), for every size at   *)
(* which from_compact's shifts are defined.                                *)
(***************************************************************************)
SameTarget ==
    target.phase = "contract" /\ target.c.size \notin UndefinedSizes => target.stratum = target.getwork

(***************************************************************************)
(* Contracting an expanded target and expanding it again gives the target, *)
(* so the compact form loses nothing that did not overflow, the sign bit's *)
(* extra byte included.                                                    *)
(***************************************************************************)
CompactRoundTrip ==
    target.phase = "done" /\ ~ isOverflow(target.c) => SetCompact(target.again) = target.stratum

(***************************************************************************)
(* The overflow flag is raised exactly for the compact targets whose value *)
(* does not fit the WIDTH limbs.                                           *)
(***************************************************************************)
OverflowFlag ==
    target.phase = "contract" =>
        (isOverflow(target.c) <=> target.c.size > 3 /\ mantissa(target.c) # 0
                                    /\ bits(ofWord(mantissa(target.c))) + B * (target.c.size - 3) > N)

(***************************************************************************)
(* Long division inverts multiplication: (a * b + r) / b = a, remainder r, *)
(* for every product that fits and r < b.                                  *)
(***************************************************************************)
DivisionInverts == target.phase = "quotient" => target.quot = target.a /\ target.num = target.r
=============================================================================
