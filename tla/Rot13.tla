------------------------------- MODULE Rot13 -------------------------------
(* The encryption routine of the security demo's Crypto component           *)
(* (security_demo/components/Crypto/src/crypto.c).  A C char is its code.   *)
EXTENDS Integers

UC_A == 65
UC_Z == 90
LC_a == 97
LC_z == 122

\* Every value a char takes, whichever signedness the target gives it.
CharCodes == -128..255

IsLower(src) == src >= LC_a /\ src <= LC_z
IsUpper(src) == src >= UC_A /\ src <= UC_Z

\* Mutant: the upper bound of the inner upper-case test is dropped, so lower
\* case letters of the first half are taken for letters that wrap around.
rot_13_no_upper_bound(src) ==
  IF IsLower(src) \/ IsUpper(src)
  THEN IF src >= LC_a + 13 \/ src >= UC_A + 13 THEN src - 13 ELSE src + 13
  ELSE src

rot_13(src) ==
  IF IsLower(src) \/ IsUpper(src)
  THEN IF src >= LC_a + 13 \/ (src >= UC_A + 13 /\ src <= UC_Z)
       THEN src - 13
       ELSE src + 13
  ELSE src

\* What the name promises: the letter thirteen places on, cyclically, in the
\* same case; anything else unchanged.
Rotate13(src) ==
  CASE IsLower(src) -> LC_a + ((src - LC_a + 13) % 26)
    [] IsUpper(src) -> UC_A + ((src - UC_A + 13) % 26)
    [] OTHER        -> src
=============================================================================
