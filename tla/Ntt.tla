--------------------------------- MODULE Ntt ---------------------------------
(***************************************************************************)
(* The negacyclic number-theoretic transform, phantom-ring/src/ntt, for    *)
(* one prime modulus q: a buffer is a function from 0..n-1 to residues.    *)
(* The code overwrites its buffer pair by pair; a stage touches every      *)
(* place once, so it is one function of the stage before.                  *)
(***************************************************************************)
EXTENDS Words

\* Modulus::supports_ntt
SupportsNtt(q, n) == (q - 1) % (2 * n) = 0

\* mul_residue: Barrett on reduced operands, the plain product otherwise.
MulResidue(a, b, q) ==
    IF a < q /\ b < q THEN BarrettReduce(a * b, q) ELSE MulMod(a, b, q)

\* SEARCH_LIMIT of primitive_root_of_order.
SearchLimit == 10000

\* Tested at order / 2 only, which is enough for a power of two and prime q.
HasOrder(r, order, q) == PowMod(r, order, q) = 1 /\ PowMod(r, order \div 2, q) # 1

Candidates(q) == {c \in 2..(q - 1) : c < SearchLimit}
CofactorPower(c, order, q) == PowMod(c, (q - 1) \div order, q)

\* The candidates the first loop accepts, and those the second accepts for
\* their power.
DirectRoots(order, q) == {c \in Candidates(q) : HasOrder(c, order, q)}
CofactorRoots(order, q) ==
    {c \in Candidates(q) : HasOrder(CofactorPower(c, order, q), order, q)}

\* Otherwise primitive_root_of_order fails with MissingRoot.
RootFound(order, q) == DirectRoots(order, q) # {} \/ CofactorRoots(order, q) # {}

Least(found) == CHOOSE c \in found : \A d \in found : c <= d

PrimitiveRoot(order, q) ==
    IF DirectRoots(order, q) # {} THEN Least(DirectRoots(order, q))
    ELSE CofactorPower(Least(CofactorRoots(order, q)), order, q)

\* power_table: one running product.
PowerTable(root, n, q) ==
    LET power[i \in 0..(n - 1)] ==
            IF i = 0 THEN 1 ELSE MulMod(power[i - 1], root, q)
    IN  power

\* NttTable::new
NttTable(n, q) ==
    LET psi == PrimitiveRoot(2 * n, q)
        omega == MulMod(psi, psi, q)
    IN  [q |-> q, n |-> n, omega |-> omega,
         invOmega |-> InvMod(omega, q), invDegree |-> InvMod(n % q, q),
         psiPowers |-> PowerTable(psi, n, q),
         invPsiPowers |-> PowerTable(InvMod(psi, q), n, q)]

\* reverse_bits of a place of a buffer of n.
ReverseBits(i, n) ==
    LET rev[m \in 1..n] ==
            [p \in Nat |-> IF m = 1 THEN 0
                           ELSE (p % 2) * (m \div 2) + rev[m \div 2][p \div 2]]
    IN  rev[n][i]

\* Mutated form of BitReversed: the permutation is left out.
NotReversed(a, n) == a

\* bit_reverse_permute
BitReversed(a, n) == [i \in 0..(n - 1) |-> a[ReverseBits(i, n)]]

\* One stage of radix2_ntt_inplace: butterflies between the halves of each
\* block of m places, with the powers of the block's own root.
Butterflies(a, m, n, root, q) ==
    LET half == m \div 2
        wm == PowMod(root, n \div m, q)
        w[j \in 0..(half - 1)] == IF j = 0 THEN 1 ELSE MulResidue(w[j - 1], wm, q)
        twisted(i) == MulResidue(w[i % half], a[i], q)
    IN  [i \in 0..(n - 1) |->
            IF i % m < half THEN AddMod(a[i], twisted(i + half), q)
                            ELSE SubMod(a[i - half], twisted(i), q)]

\* radix2_ntt_inplace: blocks of 2, 4, ... n places.
Radix2(a, n, root, q) ==
    LET stage[m \in 1..n] ==
            IF m = 1 THEN BitReversed(a, n)
            ELSE Butterflies(stage[m \div 2], m, n, root, q)
    IN  stage[n]

\* forward_transform_in_place: twist by the powers of psi, then transform.
Forward(a, table) ==
    Radix2([i \in 0..(table.n - 1) |-> MulResidue(a[i], table.psiPowers[i], table.q)],
           table.n, table.omega, table.q)

\* inverse_transform_in_place: transform, scale by 1/n and untwist.
InverseTransform(a, table) ==
    LET b == Radix2(a, table.n, table.invOmega, table.q)
    IN  [i \in 0..(table.n - 1) |->
            MulResidue(MulResidue(b[i], table.invDegree, table.q),
                       table.invPsiPowers[i], table.q)]

\* One component of Ring::mul, the path taken when the modulus has a table.
NttMul(a, b, table) ==
    LET fa == Forward(a, table)
        fb == Forward(b, table)
    IN  InverseTransform([i \in 0..(table.n - 1) |-> MulResidue(fa[i], fb[i], table.q)], table)
=============================================================================
