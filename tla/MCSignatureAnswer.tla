--------------------------- MODULE MCSignatureAnswer ---------------------------
(***************************************************************************)
(* Instances of SignatureAnswer for TLC: components of the bytes that are  *)
(* escaped and spell escapes (LF, CR, "%", "2", "5"), components of the    *)
(* bytes that spell a tag ("(", "1", ":", "s"), and a component whose      *)
(* length has two digits.                                                  *)
(***************************************************************************)
EXTENDS SignatureAnswer, SequencesExt

MCFirsts ==
  BoundedSeq({10, 37, 50, 53}, 3) \union BoundedSeq({40, 49, 58, 115}, 4)
    \union {[i \in 1..11 |-> 37]}
MCSeconds == BoundedSeq({13, 37, 53}, 2) \union {<<40, 49, 58, 114>>, <<40, 49, 58, 115>>}
MCPoints == TupleOf({10, 37, 64, 113}, 2)

MCSignatureHead == <<40, 51, 58, 101, 99, 99, 40, 49>>  \* "(3:ecc(1"
MCKeyHead == <<40, 49, 58>>                             \* "(1:"
MCEnding == <<41, 41>>                                  \* "))"
=============================================================================
