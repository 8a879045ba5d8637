------------------------------- MODULE Base32 -------------------------------
(***************************************************************************)
(* Nix base-32 and the store path names written in it                      *)
(* (crates/niphas-core/src/nix/hash.rs and store_path.rs).  A text is its  *)
(* bytes: a character of the alphabet is its 5-bit value, every other byte *)
(* a number above 31, that of UTF-8 where it is above 127.                 *)
(***************************************************************************)
EXTENDS Integers, Sequences

CONSTANT HashLen   \* HASH_LEN, 32 in the code: characters of a path's hash

(* As 32 does, a hash fills whole bytes. *)
ASSUME HashLenAssumption == HashLen \in Nat \ {0} /\ HashLen % 8 = 0

IsDigit(c) == c < 32
Dash       == 32

(* str::is_char_boundary: a byte that continues a character. *)
InCharacter(c) == c \in 128..191

Err   == [tag |-> "err"]
Panic == [tag |-> "panic"]   \* an index out of bounds, a slice inside a character
Ok(v) == [tag |-> "ok", value |-> v]

(* The operators on u8: bit k of x, x << k, x >> k and x | y. *)
Bit(x, k)    == (x \div 2^k) % 2
ShiftL(x, k) == (x * 2^k) % 256
ShiftR(x, k) == x \div 2^k
Or(x, y) ==
  LET B(k) == IF Bit(x, k) = 1 \/ Bit(y, k) = 1 THEN 2^k ELSE 0
  IN  B(0) + B(1) + B(2) + B(3) + B(4) + B(5) + B(6) + B(7)

-----------------------------------------------------------------------------
(* The n-th character from the end. *)
Digit(input, n) ==
  LET byte == (n * 5) \div 8
      bit  == (n * 5) % 8
      c    == ShiftR(input[byte + 1], bit) % 32
  IN  IF bit > 3 /\ byte + 1 < Len(input)
      THEN Or(c, ShiftL(input[byte + 2], 8 - bit)) % 32
      ELSE c

(* Mutant: the number of characters is rounded down. *)
ToNixBase32_Floor(input) ==
  LET len == (Len(input) * 8) \div 5
  IN  [k \in 1..len |-> Digit(input, len - k)]

ToNixBase32(input) ==
  LET len == (Len(input) * 8 + 4) \div 5
  IN  [k \in 1..len |-> Digit(input, len - k)]

(* Mutant: a character that straddles two bytes only fills the first. *)
PutDigit_NoCarry(out, i, digit) ==
  [out EXCEPT ![((i * 5) \div 8) + 1] = Or(@, ShiftL(digit, (i * 5) % 8))]

(* One turn of the loop: character i, counted from the end, goes into out. *)
PutDigit(out, i, digit) ==
  LET byte == (i * 5) \div 8
      bit  == (i * 5) % 8
      low  == [out EXCEPT ![byte + 1] = Or(@, ShiftL(digit, bit))]
  IN  IF bit > 3 /\ byte + 1 < Len(out)
      THEN [low EXCEPT ![byte + 2] = Or(@, ShiftR(digit, 8 - bit))]
      ELSE low

(***************************************************************************)
(* from_nix_base32.  The loop runs from the last character to the first;   *)
(* it returns at a character outside the alphabet, and panics where out    *)
(* has no byte for a character's bits.                                     *)
(***************************************************************************)
FromNixBase32(input) ==
  LET len    == Len(input)
      outLen == (len * 5) \div 8
      Turn(r, i) == IF r.tag # "ok" THEN r
                    ELSE IF ~IsDigit(input[len - i]) THEN Err
                    ELSE IF (i * 5) \div 8 >= outLen THEN Panic
                    ELSE Ok(PutDigit(r.value, i, input[len - i]))
      after[n \in 0..len] == IF n = 0 THEN Ok([k \in 1..outLen |-> 0])
                             ELSE Turn(after[n - 1], n - 1)
  IN  after[len]

-----------------------------------------------------------------------------
(* StorePath::parse_basename.  The hash is sliced off before its end is     *)
(* looked at, and a slice that ends inside a character panics.              *)
ParseBasename(s) ==
  LET hash == FromNixBase32(SubSeq(s, 1, HashLen))
  IN  IF Len(s) < HashLen + 2 THEN Err
      ELSE IF InCharacter(s[HashLen + 1]) THEN Panic
      ELSE IF s[HashLen + 1] # Dash THEN Err
      ELSE IF hash.tag # "ok" THEN hash
      ELSE Ok([hash |-> hash.value, name |-> SubSeq(s, HashLen + 2, Len(s))])

(* StorePath::basename *)
Basename(p) == ToNixBase32(p.hash) \o <<Dash>> \o p.name

-----------------------------------------------------------------------------
(* Both ends as strings of bits, least significant first. *)
BitOfBytes(bs, n) == Bit(bs[(n \div 8) + 1], n % 8)
BitOfText(s, n)   == Bit(s[Len(s) - (n \div 5)], n % 5)

=============================================================================
