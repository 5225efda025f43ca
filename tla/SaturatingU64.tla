--------------------------- MODULE SaturatingU64 ---------------------------
(***************************************************************************)
(* Rust u64 arithmetic that clamps at the ends instead of wrapping.        *)
(***************************************************************************)
EXTENDS Integers

CONSTANTS U64Max   \* u64::MAX, scaled down

ASSUME U64Assumption == U64Max \in Nat

SatAdd(x, y) == IF x + y > U64Max THEN U64Max ELSE x + y
SatSub(x, y) == IF x < y THEN 0 ELSE x - y
SatMul(x, y) == IF x * y > U64Max THEN U64Max ELSE x * y
=============================================================================
