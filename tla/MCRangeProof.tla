----------------------------- MODULE MCRangeProof -----------------------------
(***************************************************************************)
(* A small instance of RangeProof for TLC: the curve y^2 = x^3 + 3 modulo  *)
(* 7, whose 13 points form a group of prime order.                         *)
(***************************************************************************)
EXTENDS RangeProof, TLC

Generator == <<1, 2>>

\* An abscissa plus P is written, one plus 2 * P is not.
MCNumeral == [x \in 0..N |-> ToString(x)]

\* The first digest of the second sequence is not the abscissa of a point.
MCDigests == {<<3>>, <<0, 5>>}

Str(chars) == [kind |-> "str", text |-> chars]
Item(key, value) == [key |-> key, value |-> value]

\* One item; the same characters cut elsewhere; a number instead of a text.
MCOwn == <<Item(<<"n", "o">>, Str(<<"1">>))>>
MCContexts ==
    {MCOwn,
     <<Item(<<"n">>, Str(<<"o", "1">>))>>,
     <<Item(<<"n", "o">>, [kind |-> "int", text |-> <<"1">>])>>}

MCMessages == {<<"m">>, <<"m", "n">>}

\* Two triples, and two bits of a proof draw different ones.
MCNonces ==
    LET one == <<1, 5, 9>>  other == <<6, 2, 3>>
    IN {<<one>>, <<other>>, <<one, other>>, <<other, one>>, <<one, other, one>>}

\* Every pair of digits 0..2 in one bit, every pair of vectors in two; and in
\* three, which leave room for N, what comes to 13, to 14 and to neither.
Claims(caps, digits, n) ==
    [cap : caps, bitsv : [1..n -> digits], bitsd : [1..n -> digits]]
Wide(cap, bitsv, bitsd) == [cap |-> cap, bitsv |-> bitsv, bitsd |-> bitsd]
MCWide ==
    {Wide(0, <<1, 1, 1>>, <<0, 1, 1>>), Wide(1, <<1, 1, 1>>, <<1, 1, 1>>),
     Wide(7, <<1, 0, 1>>, <<0, 1, 1>>), Wide(5, <<1, 0, 1>>, <<0, 0, 0>>)}
MCUnchecked == Claims(0..1, 0..2, 1) \cup Claims({2}, 0..1, 2) \cup MCWide
=============================================================================
