------------------------------- MODULE RingCases -------------------------------
(***************************************************************************)
(* The arithmetic under the ring operations against its definition:        *)
(* word reduction, big integers and the number-theoretic transform, for    *)
(* operands made from the walk's x.                                        *)
(***************************************************************************)
EXTENDS CaseWalk, Ntt, Bignum, RingPoly

CONSTANTS NttModuli,   \* primes that support a transform of Degree places
          DenseCases   \* whole polynomials are made from x below this bound

\* The operands of BignumExact fit the four limbs it gives them, and the moduli
\* of the transforms are primes of a word, as every modulus in the repository
\* is, for which NttTable::new finds its root.
ASSUME RingCasesAssumption ==
    /\ DenseCases \in Nat
    /\ Cases * Cases + 37 * Cases + Word <= 2^(4 * WordBits)
    /\ \A q \in NttModuli : /\ q \in 2..(Word - 1) /\ \A d \in 2..(q - 1) : q % d # 0
                            /\ SupportsNtt(q, Degree) /\ RootFound(2 * Degree, q)

\* Barrett reduction, whose quotient is an estimate from a truncated
\* reciprocal, is exact for every modulus of a word and every value below
\* m * 2^WordBits, the bound reduce asserts.
BarrettExact ==
    \A m \in 2..(Word - 1) : x < m * Word => BarrettReduce(x, m) = x % m

\* Montgomery reduction divides by the word modulo m, and the product taken
\* through Montgomery form is the product, for every odd modulus below
\* MONTGOMERY_MAX_MODULUS: the sum in redc never passes a double word.
MontgomeryExact ==
    \A m \in {n \in 3..(MontgomeryMax - 1) : n % 2 = 1} :
        LET a == x % m
            b == (x \div m) % m
        IN  /\ x < m * Word => (Redc(x, m) * Word - x) % m = 0 /\ Redc(x, m) < m
            /\ MontgomeryMul(a, b, m) = (a * b) % m

\* BigUint's limb loops are integer arithmetic: sums, differences, products by
\* a word and both divisions, carries and borrows through every limb included,
\* and results carry no leading zero limb, which cmp relies on.
BignumExact ==
    LET Limbs(n) == Normalized([i \in 1..4 |-> (n \div 2^((i - 1) * WordBits)) % Word])
        a == x * x
        b == 37 * x + Word
        quotient == Divmod(Limbs(a), Limbs(b))
        scalar == x % Word
        Is(limbs, n) == Value(limbs) = n /\ limbs = Normalized(limbs)
    IN  /\ Is(BigAdd(Limbs(a), Limbs(b)), a + b)
        /\ Is(BigSub(Limbs(a + b), Limbs(b)), a)
        /\ Is(MulWord(Limbs(a), scalar), a * scalar)
        /\ Is(quotient.quotient, a \div b)
        /\ Is(quotient.remainder, a % b)
        /\ scalar > 0 => /\ Is(DivmodWord(Limbs(a), scalar).quotient, a \div scalar)
                         /\ Is(DivmodWord(Limbs(a), scalar).remainder, a % scalar)

\* Both word-by-word arithmetics of the ring crate are exact: the reducer that
\* stays in Montgomery form, and the big integers the CRT values live in.
WordsExact == MontgomeryExact /\ BignumExact

\* The transform evaluates a polynomial at the odd powers of psi, its inverse
\* undoes it, and so a product taken place by place is the negacyclic product
\* schoolbook_mul computes: Ring::mul's two paths agree.
NttMultiplies ==
    x < DenseCases =>
    \A q \in NttModuli :
        LET table == NttTable(Degree, q)
            psi == PrimitiveRoot(2 * Degree, q)
            a == [i \in Coeffs |-> (x * (i + 3) + x \div (i + 2)) % q]
            b == [i \in Coeffs |-> (x * x + 7 * i * x + i) % q]
            At(f, point) == SumOf([i \in 1..Degree |->
                                      f[i - 1] * PowMod(point, i - 1, q)]) % q
            Single(f) == [i \in Coeffs |-> <<f[i]>>]
            product == NttMul(a, b, table)
        IN  /\ Forward(a, table) = [i \in Coeffs |-> At(a, PowMod(psi, 2 * i + 1, q))]
            /\ InverseTransform(Forward(a, table), table) = a
            /\ Single(product) = PolyMul(Single(a), Single(b), <<q>>)
=============================================================================
