------------------------------- MODULE Barcode -------------------------------
(***************************************************************************)
(* catalog/barcode.py: which item codes are public barcodes, and in which  *)
(* one spelling.  A code is a sequence of characters; a character that is  *)
(* not a digit is any value outside 0..9.                                  *)
(***************************************************************************)
EXTENDS Integers, Sequences, Functions, Ordering

CONSTANT None   \* not a public barcode: not compared across chains

Digit == 0..9

\* The two-digit prefixes 02 and 20 to 29 are reserved for in-store use.
INTERNAL_PREFIXES == {<<0, 2>>} \cup {<<2, d>> : d \in Digit}

Zeros(n) == [i \in 1..n |-> 0]

\* Weights alternate 3, 1 from the digit before the check digit.
WeightedSum(body) ==
  FoldFunction(LAMBDA x, y : x + y, 0,
               [i \in DOMAIN body |->
                  body[i] * (IF (Len(body) - i) % 2 = 0 THEN 3 ELSE 1)])

valid_check_digit(code) ==
  Len(code) >= 2 /\
    (10 - (WeightedSum(SubSeq(code, 1, Len(code) - 1)) % 10)) % 10 = code[Len(code)]

\* Leading zeros that an export dropped are put back; EAN-8 is kept as it is.
Padded(code) ==
  IF Len(code) \in {11, 12, 13} THEN Zeros(13 - Len(code)) \o code
  ELSE IF Len(code) = 8 THEN code ELSE None

\* The digits of a code in the order of their places, whatever stands between them.
DigitsOf(raw) ==
  LET places == Ordered({k \in DOMAIN raw : raw[k] \in Digit}, LAMBDA j, k : j < k)
  IN  [k \in DOMAIN places |-> raw[places[k]]]

\* Mutant: the in-store prefixes are looked up before the code is padded.
PrefixBeforePadding(raw) ==
  LET code == DigitsOf(raw)
      full == Padded(code)
  IN  IF full = None THEN None
      ELSE IF \/ Len(code) # 12 /\ SubSeq(code, 1, 2) \in INTERNAL_PREFIXES
              \/ ~valid_check_digit(full)
           THEN None ELSE full

normalize_barcode(raw) ==
  LET code == Padded(DigitsOf(raw))
  IN  IF code = None THEN None
      ELSE IF SubSeq(code, 1, 2) \in INTERNAL_PREFIXES \/ ~valid_check_digit(code)
           THEN None ELSE code
=============================================================================
