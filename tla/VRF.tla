-------------------------------- MODULE VRF --------------------------------
(***************************************************************************)
(* The verifiable random function of pkg/identity/vrf.go, as the leader    *)
(* election uses it through uid0.go.                                       *)
(*                                                                         *)
(* Ristretto255 is a group of prime order; it is modelled by the integers  *)
(* modulo a small prime L with base point 1, so that the arithmetic of     *)
(* Prove and Verify is done and not assumed.  The two hashes and the nonce *)
(* derivation are external and deterministic: each is a table that is      *)
(* filled with any value when an input is first hashed.  A scalar has two  *)
(* encodings below 2L, of which the canonical one is below L; a point has  *)
(* one encoding, and L .. 2L-1 decode to none.                             *)
(***************************************************************************)
EXTENDS Integers, FiniteSets

CONSTANTS L,      \* the group order, a prime
          Alpha   \* inputs of the function

\* What the constants must satisfy.
OrderAssumption ==
    /\ L \in Nat /\ L > 1
    /\ \A d \in 2 .. L - 1 : L % d # 0

VARIABLES sk,       \* the prover's secret scalar
          curve,    \* HashToCurve as far as it was asked
          nonce,    \* deriveNonce as far as it was asked
          oracle,   \* hashToScalar as far as it was asked: pairs of query and answer
          proof,    \* what Prove returned, with its input
          wire,     \* its encoding as received
          verdict   \* what Verify answered, with the key and the input

vrfVars == <<sk, curve, nonce, oracle, proof, wire, verdict>>

Scalar == 0 .. L - 1

Unasked == -1

Enc == [gamma |-> Unasked, c |-> Unasked, s |-> Unasked]

NoProof == [alpha |-> "none", gamma |-> Unasked, c |-> Unasked, s |-> Unasked]

NoVerdict == [pk |-> Unasked, alpha |-> "none", ok |-> FALSE, gamma |-> Unasked]

isIdentity(p) == p = 0

\* GenerateVRFKeyFromSeed and VRFPrivateKeyFromBytes: any 32 bytes are folded.
KeyFromSeed(seed) == seed % L

PublicKey(x) == x

VRFInit ==
    /\ \E seed \in 0 .. 2 * L - 1 : sk = KeyFromSeed(seed)
    /\ curve = [a \in Alpha |-> Unasked]
    /\ nonce = [a \in Alpha |-> Unasked]
    /\ oracle = {}
    /\ proof = NoProof /\ wire = Enc /\ verdict = NoVerdict

\* A table asked for its value at an input: the value it has, or any.
Hashed(f, a) == IF f[a] # Unasked THEN {f[a]} ELSE Scalar

Challenge(q) ==
    IF \E e \in oracle : e.q = q THEN {e.c : e \in {x \in oracle : x.q = q}} ELSE Scalar

Asked(q, c) == oracle' = oracle \cup {[q |-> q, c |-> c]}

\* What the challenge covers, without the public key.
QueryNoKey(y, h, gamma, u, v) == <<h, gamma, v>>

Query(y, h, gamma, u, v) == <<y, h, gamma, u, v>>

-----------------------------------------------------------------------------
Response(k, c, x) == (k + c * x) % L

\* Prove: an error and no proof when a point is the identity.
Prove(a) ==
    /\ proof = NoProof
    /\ \E h \in Hashed(curve, a), k \in Hashed(nonce, a) :
         LET gamma == (sk * h) % L
             u == k
             v == (k * h) % L
             q == Query(PublicKey(sk), h, gamma, u, v)
         IN /\ curve' = [curve EXCEPT ![a] = h]
            /\ nonce' = [nonce EXCEPT ![a] = k]
            /\ IF \E p \in {h, PublicKey(sk), gamma, u, v} : isIdentity(p)
               THEN /\ proof' = [NoProof EXCEPT !.alpha = a]
                    /\ UNCHANGED oracle
               ELSE \E c \in Challenge(q) :
                      /\ Asked(q, c)
                      /\ proof' = [alpha |-> a, gamma |-> gamma, c |-> c,
                                   s |-> Response(k, c, sk)]
    /\ UNCHANGED <<sk, wire, verdict>>

Proved == proof.gamma # Unasked

\* A number's encoding, which is not the canonical one where it is lifted.
Encode(x, lifted) == IF lifted THEN x + L ELSE x

\* MarshalVRFProof and UnmarshalVRFProof lay the three parts side by side.  A
\* receiver may be handed any encoding of the same numbers.
Receive ==
    /\ Proved /\ wire = Enc
    /\ \E part \in {"none", "gamma", "c", "s"} :
         wire' = [gamma |-> Encode(proof.gamma, part = "gamma"),
                  c |-> Encode(proof.c, part = "c"), s |-> Encode(proof.s, part = "s")]
    /\ UNCHANGED <<sk, curve, nonce, oracle, proof, verdict>>

\* SetBytesStrict against SetBytes, which folds.
Strict(b) == b < L

\* UnmarshalBinary accepts canonical point encodings only.
PointDecodes(b) == b < L

\* The commitments that a challenge and a response stand for.
CommitU(y, c, s) == (s - c * y) % L

CommitV(h, gamma, c, s) == (s * h - c * gamma) % L

\* Verify for a public key y that VRFPublicKeyFromBytes decoded, and input a.
Verify(y, a) ==
    /\ wire # Enc /\ verdict = NoVerdict
    /\ \E h \in Hashed(curve, a) :
         LET c == wire.c % L
             s == wire.s % L
             u == CommitU(y, c, s)
             v == CommitV(h, wire.gamma, c, s)
             q == Query(y, h, wire.gamma, u, v)
             wellFormed == /\ Strict(wire.c) /\ Strict(wire.s) /\ PointDecodes(wire.gamma)
                           /\ \A p \in {y, wire.gamma, h, u, v} : ~isIdentity(p)
         IN /\ curve' = [curve EXCEPT ![a] = h]
            /\ IF wellFormed
               THEN \E expectedC \in Challenge(q) :
                      /\ Asked(q, expectedC)
                      /\ verdict' = [pk |-> y, alpha |-> a, ok |-> c = expectedC,
                                     gamma |-> wire.gamma]
               ELSE /\ verdict' = [pk |-> y, alpha |-> a, ok |-> FALSE, gamma |-> Unasked]
                    /\ UNCHANGED oracle
    /\ UNCHANGED <<sk, nonce, proof, wire>>

VRFNext ==
    \/ \E a \in Alpha : Prove(a)
    \/ Receive
    \/ \E y \in Scalar, a \in Alpha : Verify(y, a)

VRFSpec == VRFInit /\ [][VRFNext]_vrfVars

-----------------------------------------------------------------------------
VRFTypeOK ==
    /\ sk \in Scalar
    /\ curve \in [Alpha -> Scalar \cup {Unasked}]
    /\ Proved => {proof.gamma, proof.c, proof.s} \subseteq Scalar
    /\ \A e1, e2 \in oracle : e1.q = e2.q => e1.c = e2.c

Honest == wire = [gamma |-> proof.gamma, c |-> proof.c, s |-> proof.s]

\* A proof made by Prove is accepted under the prover's public key for its
\* input, and yields the prover's output.
ProofAccepted ==
    verdict # NoVerdict /\ Honest /\ verdict.pk = PublicKey(sk) /\ verdict.alpha = proof.alpha
        => verdict.ok /\ verdict.gamma = (sk * curve[proof.alpha]) % L

\* The comment on Verify: "a proof made under a different secret key recomputes
\* a different challenge and is rejected".  A proof is accepted under another
\* key, or for an input with another point, only where hash_to_scalar collides.
KeyBinding ==
    verdict.ok =>
        \/ verdict.pk = PublicKey(sk) /\ curve[verdict.alpha] = curve[proof.alpha]
        \/ \E e1, e2 \in oracle : e1.q # e2.q /\ e1.c = e2.c

\* Of all the encodings of one proof, which SetBytes would fold together, only
\* the canonical one is accepted.
OneEncoding == verdict.ok => Honest

\* The output for a key and an input is unique: for any other value of Gamma,
\* whatever commitments U and V are hashed, at most one answer of
\* hash_to_scalar can be completed to a proof, so the answer decides and not
\* the prover.  Stated for the prover's key and the point it proved for.
UniqueOutput ==
    \A a \in {proof.alpha} \cap Alpha : Proved /\ wire = Enc =>
        \A gamma \in Scalar \ {0, (sk * curve[a]) % L}, u, v \in Scalar :
            Cardinality({c \in Scalar : \E s \in Scalar :
                /\ CommitU(PublicKey(sk), c, s) = u
                /\ CommitV(curve[a], gamma, c, s) = v}) <= 1

\* A proof made by Prove is accepted and yields the prover's output; one made under
\* another key is not, but where hash_to_scalar collides; of its encodings only the
\* canonical one is; and hash_to_scalar, not the prover, decides whether another output
\* can be proved (Prove, Verify).
VRFSound ==
    /\ VRFTypeOK
    /\ ProofAccepted
    /\ KeyBinding
    /\ OneEncoding
    /\ UniqueOutput
=============================================================================
