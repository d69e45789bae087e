----------------------------- MODULE EcRecover -----------------------------
(***************************************************************************)
(* The signer recovery of verifier-py/verify_vh.py: ECDSA public-key       *)
(* recovery over the curve y^2 = x^3 + 7 in affine coordinates.            *)
(*                                                                         *)
(* The field's prime P, the group's prime order N and the generator are    *)
(* parameters: the code's are 256 bits wide, the arithmetic is the same    *)
(* for small ones.  P = 3 (mod 4), as the square root needs; N < P, so     *)
(* that some points have an x the signature stores only modulo N.  The     *)
(* point at infinity is <<>>.  A digest is its value modulo N; the address *)
(* is the public key itself, keccak256 being injective.                    *)
(***************************************************************************)
EXTENDS Integers, Sequences, SequencesExt

CONSTANTS
    P, N, GX, GY,   \* the curve
    Bits,           \* 2^Bits > N
    Keys, Digests,  \* private keys and digests tried
    Vs              \* the values of a signature's last byte

VARIABLES signature, signer
vars == <<signature, signer>>

Infinity == <<>>
Failed == <<"failed">>

InvMod(a, m) == CHOOSE b \in 0..(m - 1) : (a * b) % m = 1

PointAdd(p, q) ==
    IF p = Infinity THEN q ELSE IF q = Infinity THEN p
    ELSE IF p[1] = q[1] /\ (p[2] + q[2]) % P = 0 THEN Infinity
    ELSE LET m == IF p = q THEN (3 * p[1] * p[1] * InvMod((2 * p[2]) % P, P)) % P
                  ELSE ((q[2] - p[2]) * InvMod((q[1] - p[1]) % P, P)) % P
             x == (m * m - p[1] - q[1]) % P
         IN <<x, (m * (p[1] - x) - p[2]) % P>>

\* Double and add, from the low bit.
ScalarMul(k, point) ==
    FoldLeft(LAMBDA acc, i :
                [sum |-> IF ((k % N) \div (2 ^ (i - 1))) % 2 = 1 THEN PointAdd(acc.sum, acc.addend)
                         ELSE acc.sum,
                 addend |-> PointAdd(acc.addend, acc.addend)],
             [sum |-> Infinity, addend |-> point], [i \in 1..Bits |-> i]).sum

PowMod(a, e) ==
    LET pow[n \in 0..e] == IF n = 0 THEN 1 ELSE (pow[n - 1] * a) % P IN pow[e]

LiftX(x, parity) ==
    LET alpha == (x * x * x + 7) % P
        y == PowMod(alpha, (P + 1) \div 4)
    IN IF (y * y) % P # alpha THEN Failed
       ELSE <<x, IF y % 2 # parity THEN P - y ELSE y>>

Negated(p) == IF p = Infinity THEN Infinity ELSE <<p[1], P - p[2]>>

RecoverPublicKey(e, r, s, recId) ==
    LET x == r + (IF recId \div 2 = 1 THEN N ELSE 0)
        point == LiftX(x, recId % 2)
    IN IF r \notin 1..(N - 1) \/ s \notin 1..(N - 1) \/ recId \notin 0..3 \/ x >= P \/ point = Failed
       THEN Failed
       ELSE LET eG == ScalarMul(e, <<GX, GY>>)
                q == ScalarMul(InvMod(r, N), PointAdd(ScalarMul(s, point), Negated(eG)))
            IN IF q = Infinity THEN Failed ELSE q

\* Mutant: the byte is taken as it stands.
RecoveryIdRaw(v) == v

\* 27 and 28 mean 0 and 1; anything else is cut to its last bit.
RecoveryId(v) ==
    LET id == IF v >= 27 THEN v - 27 ELSE v IN IF id \in {0, 1} THEN id ELSE id % 2

TryRecover(sig) == RecoverPublicKey(sig.e, sig.r, sig.s, RecoveryId(sig.v))

----------------------------------------------------------------------------
\* A signature: a signer's with a nonce k, or any 65 bytes.

G == <<GX, GY>>
Sign(d, e, k) ==
    LET R == ScalarMul(k, G)
        r == R[1] % N
    IN [e |-> e, r |-> r, s |-> (InvMod(k, N) * (e + r * d)) % N,
        id |-> (R[2] % 2) + (IF R[1] >= N THEN 2 ELSE 0)]

Nothing == [e |-> 0, r |-> 0, s |-> 0, v |-> 0]
Init == signature = Nothing /\ signer = 0

Honest ==
    /\ signature = Nothing
    /\ \E d \in Keys, e \in Digests, k \in 1..(N - 1) :
         LET sig == Sign(d, e, k)
         IN /\ sig.r # 0 /\ sig.s # 0 /\ sig.id < 2
            /\ \E v \in {sig.id, sig.id + 27} :
                  signature' = [e |-> e, r |-> sig.r, s |-> sig.s, v |-> v]
            /\ signer' = d

AnyBytes ==
    /\ signature = Nothing
    /\ signature' \in [e : Digests, r : 0..N, s : 0..N, v : Vs]
    /\ UNCHANGED signer

Next == Honest \/ AnyBytes
Spec == Init /\ [][Next]_vars

----------------------------------------------------------------------------
\* The multiples of a point by repeated addition along the tangent and the chord,
\* from the group's definition: three points of the curve on a line sum to infinity.
OnCurve(p) == p = Infinity \/ (p[2] * p[2]) % P = (p[1] * p[1] * p[1] + 7) % P
Collinear(p, q, r) ==
    ((q[1] - p[1]) * (r[2] - p[2]) - (r[1] - p[1]) * (q[2] - p[2])) % P = 0

\* SEC 1 verification: r = x(u1 G + u2 Q) modulo N.
Verifies(sig, Q) ==
    LET w == InvMod(sig.s, N)
        R == PointAdd(ScalarMul((sig.e * w) % N, G), ScalarMul((sig.r * w) % N, Q))
    IN R # Infinity /\ R[1] % N = sig.r

\* A signature made by a key recovers to that key (recover_personal_sign_address), for
\* every nonce, digest and either form of the last byte.
SignerIsRecovered == signer # 0 => TryRecover(signature) = ScalarMul(signer, G)

\* Whatever 65 bytes are given, a recovered key is a point of the curve under which
\* they verify: the recovery names nobody who could not have signed (try_recover).
RecoveredVerifies ==
    signature # Nothing /\ TryRecover(signature) # Failed =>
        /\ OnCurve(TryRecover(signature))
        /\ Verifies(signature, TryRecover(signature))

\* The multiples of the generator are N different points that close up, and three in
\* arithmetic progression satisfy the chord law: PointAdd and ScalarMul are a group's.
MultiplesFormGroup ==
    signature = Nothing =>
        /\ P % 4 = 3 /\ N < P /\ N < 2 ^ Bits
        /\ ScalarMul(N - 1, G) = Negated(G)
        /\ \A j, k \in 1..(N - 1) :
             /\ OnCurve(ScalarMul(k, G))
             /\ ScalarMul(j, G) = ScalarMul(k, G) => j = k
             /\ PointAdd(ScalarMul(j, G), ScalarMul(k, G)) = ScalarMul(j + k, G)
             /\ j # k /\ (j + k) % N # 0 =>
                  Collinear(ScalarMul(j, G), ScalarMul(k, G), Negated(ScalarMul(j + k, G)))
============================================================================
