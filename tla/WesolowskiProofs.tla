-------------------------- MODULE WesolowskiProofs --------------------------
(***************************************************************************)
(* TLAPS proofs about Wesolowski: the discriminant adjustment of           *)
(* start_with_discriminant, the equation the prover's pi satisfies, and    *)
(* the acceptance of honest proofs whose blob and discriminant survive the *)
(* round trip.                                                             *)
(***************************************************************************)
EXTENDS Wesolowski, FiniteSetTheorems, TLAPS

-----------------------------------------------------------------------------
(* Modular arithmetic.                                                     *)

\* x mod M is the remainder of any division of x by M.
LEMMA ModUnique ==
    ASSUME NEW X \in Int, NEW M \in Nat \ {0}, NEW q \in Int,
           NEW r \in 0..(M - 1), X = M * q + r
    PROVE  X % M = r
BY SMT

\* Euclidean division by a positive divisor.
LEMMA DivModInt ==
    ASSUME NEW X \in Int, NEW M \in Nat \ {0}
    PROVE  /\ X = M * (X \div M) + (X % M)
           /\ X % M \in 0..(M - 1)
           /\ X \div M \in Int
BY SMT

\* Adding a multiple of M does not change a residue.
LEMMA ModShift ==
    ASSUME NEW X \in Int, NEW k \in Int, NEW M \in Nat \ {0}
    PROVE  (X + M * k) % M = X % M
<1>1. PICK q \in Int, r \in 0..(M - 1) : X = M * q + r
    BY DivModInt
<1>2. X % M = r
    BY <1>1, ModUnique
<1>3. X + M * k = M * (q + k) + r
    BY <1>1, SMT
<1>4. (X + M * k) % M = r
    BY <1>1, <1>3, ModUnique
<1>. QED  BY <1>2, <1>4

\* A factor may be reduced mod M before multiplying.
LEMMA ModMul ==
    ASSUME NEW a \in Int, NEW b \in Int, NEW M \in Nat \ {0}
    PROVE  ((a % M) * b) % M = (a * b) % M
<1>1. PICK q \in Int, r \in 0..(M - 1) : a = M * q + r
    BY DivModInt
<1>2. a % M = r
    BY <1>1, ModUnique
<1>3. a * b = r * b + M * (q * b)
    BY <1>1, SMT
<1>4. r * b \in Int /\ q * b \in Int
    BY <1>1, SMT
<1>5. (r * b + M * (q * b)) % M = (r * b) % M
    BY <1>4, ModShift
<1>. QED  BY <1>2, <1>3, <1>5

\* Both terms of a sum may be reduced mod M.
LEMMA ModAdd ==
    ASSUME NEW a \in Int, NEW b \in Int, NEW M \in Nat \ {0}
    PROVE  ((a % M) + (b % M)) % M = (a + b) % M
<1>1. PICK qa \in Int, ra \in 0..(M - 1) : a = M * qa + ra
    BY DivModInt
<1>2. PICK qb \in Int, rb \in 0..(M - 1) : b = M * qb + rb
    BY DivModInt
<1>3. a % M = ra /\ b % M = rb
    BY <1>1, <1>2, ModUnique
<1>4. a + b = (ra + rb) + M * (qa + qb)
    BY <1>1, <1>2, SMT
<1>5. ra + rb \in Int /\ qa + qb \in Int
    BY <1>1, <1>2, SMT
<1>6. ((ra + rb) + M * (qa + qb)) % M = (ra + rb) % M
    BY <1>5, ModShift
<1>. QED  BY <1>3, <1>4, <1>6

-----------------------------------------------------------------------------
(* The group model.                                                        *)

\* The group order is positive and the generator's exponent is in range.
LEMMA NFacts == N \in Nat \ {0} /\ 1 \in 0..(N - 1)
BY GroupAssumption, SMT

\* The Wesolowski identity: with q = floor(P / l) and r = P mod l,
\* (x^q)^l * x^r = x^P for x = generator(D).
LEMMA WesolowskiEquation ==
    ASSUME NEW D \in Int, NEW P \in Nat, NEW l \in Nat \ {0}
    PROVE  LET x == Generator(D)
           IN  Compose(FastPow(FastPow(x, P \div l), l), FastPow(x, P % l))
               = FastPow(x, P)
<1> DEFINE Q == P \div l
           R == P % l
<1>1. Q \in Int /\ R \in Int /\ P = l * Q + R /\ l \in Int
    BY DivModInt, SMT
<1>2. N \in Nat \ {0}
    BY NFacts
<1>3. ((Q % N) * l) % N = (Q * l) % N
    BY <1>1, <1>2, ModMul
<1>4. Q * l \in Int
    BY <1>1, SMT
<1>5. (((Q * l) % N) + (R % N)) % N = (Q * l + R) % N
    BY <1>1, <1>2, <1>4, ModAdd
<1>6. Q * l + R = P
    BY <1>1, SMT
<1>. QED  BY <1>1, <1>3, <1>5, <1>6 DEF Generator, Compose, FastPow

-----------------------------------------------------------------------------
(* The discriminant adjustment.                                            *)

\* start_with_discriminant turns every |D| byte string, zero included, into
\* a negative discriminant that is 1 mod 4: its INVALID_DISCRIMINANT branch
\* (streamer.cpp:481) can never be taken.
THEOREM AdjustDiscCorrect ==
    \A B \in Nat : AdjustDisc(B) < 0 /\ AdjustDisc(B) % 4 = 1
<1> SUFFICES ASSUME NEW B \in Nat
             PROVE  AdjustDisc(B) < 0 /\ AdjustDisc(B) % 4 = 1
    OBVIOUS
<1>1. CASE (-B) % 4 = 1
    BY <1>1, SMT DEF AdjustDisc
<1>2. CASE (-B) % 4 # 1 /\ -B - ((-B) % 4) + 1 > 0
    BY <1>2, SMT DEF AdjustDisc
<1>3. CASE (-B) % 4 # 1 /\ ~(-B - ((-B) % 4) + 1 > 0)
    BY <1>3, SMT DEF AdjustDisc
<1>. QED  BY <1>1, <1>2, <1>3

-----------------------------------------------------------------------------
(* The inductive invariant.                                                *)

\* The |D| bytes a verdict's discriminant was rebuilt from.
ArgBytes(v) == IF v.via = "seed" THEN -SeedDisc(v.arg) ELSE v.arg

\* An honest record is what cpu_vdf_generate_proof returns for the
\* discriminant its client's start computed.
HonestOK(h) ==
    \E D \in ProverDiscs, t \in Targets, lvl \in Levels :
        /\ h.proof = GenerateProof(D, t, lvl)
        /\ \/ h.via = "seed" /\ h.arg \in Seeds /\ D = SeedDisc(h.arg)
           \/ h.via = "bytes" /\ h.arg \in ClientBytes /\ D = AdjustDisc(h.arg)

\* A verdict is what cpu_vdf_verify_proof returns on its arguments.
VerdictOK(v) ==
    /\ \/ v.via = "seed" /\ v.arg \in Seeds
       \/ v.via = "bytes" /\ v.arg \in ClientBytes
    /\ v.out = VerifyProof(ArgBytes(v), v.blob, v.t, v.lvl)

WInv == (\A h \in honest : HonestOK(h)) /\ (\A v \in verdict : VerdictOK(v))

\* Every byte string a client holds encodes a natural number.
LEMMA ClientBytesNat == ClientBytes \subseteq Nat
<1>1. DiscBytes \subseteq Nat
    BY WesolowskiAssumption
<1>2. ASSUME NEW s \in Seeds PROVE CreateDiscriminant(s) \in Nat
    <2>1. SeedDisc(s) \in Int /\ SeedDisc(s) < 0
        BY WesolowskiAssumption
    <2>. QED  BY <2>1, SMT DEF CreateDiscriminant
<1>. QED  BY <1>1, <1>2 DEF ClientBytes

\* Every discriminant a prover runs with is negative and 1 mod 4.
LEMMA ProverDiscsValid ==
    \A D \in ProverDiscs : D \in Int /\ D < 0 /\ D % 4 = 1
<1> SUFFICES ASSUME NEW D \in ProverDiscs
             PROVE  D \in Int /\ D < 0 /\ D % 4 = 1
    OBVIOUS
<1>1. CASE \E s \in Seeds : D = SeedDisc(s)
    BY <1>1, WesolowskiAssumption
<1>2. CASE \E B \in ClientBytes : D = AdjustDisc(B)
    <2>1. PICK B \in ClientBytes : D = AdjustDisc(B)
        BY <1>2
    <2>2. B \in Nat
        BY ClientBytesNat
    <2>3. AdjustDisc(B) \in Int
        BY <2>2, SMT DEF AdjustDisc
    <2>. QED  BY <2>1, <2>2, <2>3, AdjustDiscCorrect
<1>. QED  BY <1>1, <1>2 DEF ProverDiscs

\* Exporting a form keeps its exponent in range.
LEMMA ExportRange ==
    ASSUME NEW f, f.e \in 0..(N - 1)
    PROVE  Export(f).e \in 0..(N - 1)
BY GroupAssumption, SMT DEF Export

\* The fields of a proof cpu_vdf_generate_proof returns.
LEMMA ProofFacts ==
    ASSUME NEW D \in ProverDiscs, NEW t \in Targets, NEW lvl \in Levels
    PROVE  /\ GenerateProof(D, t, lvl).disc = D
           /\ GenerateProof(D, t, lvl).t = t
           /\ GenerateProof(D, t, lvl).lvl = lvl
           /\ GenerateProof(D, t, lvl).l \in Nat \ {0}
           /\ GenerateProof(D, t, lvl).x = Generator(D)
           /\ GenerateProof(D, t, lvl).y = Squarings(Generator(D), t)
           /\ GenerateProof(D, t, lvl).pi =
                  FastPow(Generator(D), 2^t \div GenerateProof(D, t, lvl).l)
<1> DEFINE x == Generator(D)
           y == Squarings(x, t)
<1>1. 2^t \in Nat /\ N \in Nat \ {0} /\ x.e = 1 /\ 1 \in 0..(N - 1)
    BY WesolowskiAssumption, NFacts DEF Generator
<1>2. y.e \in 0..(N - 1)
    BY <1>1, SMT DEF Squarings, FastPow
<1>3. Export(x).e \in 0..(N - 1) /\ Export(y).e \in 0..(N - 1)
    BY <1>1, <1>2, ExportRange
<1>4. Challenge(D, x, y, t) \in Nat \ {0}
    BY <1>3, HashAssumption DEF Challenge
<1>. QED  BY <1>4 DEF GenerateProof

\* The blob of a proof cpu_vdf_generate_proof returns.
LEMMA BlobFacts ==
    ASSUME NEW D \in ProverDiscs, NEW n \in Targets, NEW lv \in Levels
    PROVE  GenerateProof(D, n, lv).blob =
               [ver |-> 2, level |-> lv, t |-> n,
                l |-> GenerateProof(D, n, lv).l,
                pi |-> Export(GenerateProof(D, n, lv).pi)]
BY DEF GenerateProof

\* No proof and no verdict exist initially.
LEMMA InitWInv == Init => WInv
BY DEF Init, WInv

\* Every call keeps records and verdicts faithful to the code's results.
LEMMA NextWInv == WInv /\ [Next]_vars => WInv'
<1> SUFFICES ASSUME WInv, [Next]_vars PROVE WInv'
    OBVIOUS
<1>1. CASE ProveWithChallenge
    <2>1. PICK s \in Seeds, t \in Targets, lvl \in Levels :
                Issue("seed", s, SeedDisc(s), t, lvl)
        BY <1>1 DEF ProveWithChallenge
    <2>2. SeedDisc(s) \in ProverDiscs
        BY DEF ProverDiscs
    <2>3. HonestOK([via |-> "seed", arg |-> s,
                    proof |-> GenerateProof(SeedDisc(s), t, lvl)])
        BY <2>2 DEF HonestOK
    <2>. QED  BY <1>1, <2>1, <2>3 DEF ProveWithChallenge, Issue, WInv
<1>2. CASE ProveWithDiscriminant
    <2>1. PICK B \in ClientBytes, t \in Targets, lvl \in Levels :
                /\ AdjustDisc(B) < 0
                /\ Issue("bytes", B, AdjustDisc(B), t, lvl)
        BY <1>2 DEF ProveWithDiscriminant
    <2>2. AdjustDisc(B) \in ProverDiscs
        BY <2>1 DEF ProverDiscs
    <2>3. HonestOK([via |-> "bytes", arg |-> B,
                    proof |-> GenerateProof(AdjustDisc(B), t, lvl)])
        BY <2>2 DEF HonestOK
    <2>. QED  BY <1>2, <2>1, <2>3 DEF ProveWithDiscriminant, Issue, WInv
<1>3. CASE Forge
    BY <1>3 DEF Forge, WInv, HonestOK, VerdictOK
<1>4. CASE Verify
    <2>1. PICK blob \in Blobs, B \in ClientBytes, t \in Targets,
               lvl \in Levels :
                verdict' = {[via |-> "bytes", arg |-> B, blob |-> blob,
                             t |-> t, lvl |-> lvl,
                             out |-> VerifyProof(B, blob, t, lvl)]}
        BY <1>4 DEF Verify
    <2>2. \A v \in verdict' : VerdictOK(v)
        BY <2>1 DEF VerdictOK, ArgBytes
    <2>. QED  BY <1>4, <2>2 DEF Verify, WInv
<1>5. CASE VerifyWithChallenge
    <2>1. PICK blob \in Blobs, s \in Seeds, t \in Targets,
               lvl \in Levels :
                verdict' = {[via |-> "seed", arg |-> s, blob |-> blob,
                             t |-> t, lvl |-> lvl,
                             out |-> VerifyProofWithChallenge(s, blob, t, lvl)]}
        BY <1>5 DEF VerifyWithChallenge
    <2>2. \A v \in verdict' : VerdictOK(v)
        BY <2>1 DEF VerdictOK, ArgBytes, VerifyProofWithChallenge
    <2>. QED  BY <1>5, <2>2 DEF VerifyWithChallenge, WInv
<1>6. CASE UNCHANGED vars
    BY <1>6 DEF vars, WInv, HonestOK, VerdictOK
<1>. QED  BY <1>1, <1>2, <1>3, <1>4, <1>5, <1>6 DEF Next

\* WInv holds in every reachable state.
LEMMA WInvHolds == Spec => []WInv
BY InitWInv, NextWInv, PTL DEF Spec

-----------------------------------------------------------------------------
(* The properties.                                                         *)

\* The proof of an honest record satisfies the Wesolowski equation.
LEMMA RelationOfProof ==
    ASSUME NEW D \in ProverDiscs, NEW t \in Targets, NEW lvl \in Levels
    PROVE  Compose(FastPow(GenerateProof(D, t, lvl).pi,
                           GenerateProof(D, t, lvl).l),
                   FastPow(GenerateProof(D, t, lvl).x,
                           2^t % GenerateProof(D, t, lvl).l))
           = GenerateProof(D, t, lvl).y
<1> DEFINE p == GenerateProof(D, t, lvl)
<1>1. /\ p.l \in Nat \ {0}
      /\ p.x = Generator(D) /\ p.y = Squarings(Generator(D), t)
      /\ p.pi = FastPow(Generator(D), 2^t \div p.l)
    BY ProofFacts DEF p
<1>2. D \in Int /\ 2^t \in Nat
    BY ProverDiscsValid, WesolowskiAssumption
<1>. QED  BY <1>1, <1>2, WesolowskiEquation DEF Squarings, p

\* Every engine computes with a negative discriminant that is 1 mod 4,
\* whether it came from a seed or from caller bytes: for all constants.
THEOREM DiscValidHolds == Spec => []DiscValid
<1>1. WInv => DiscValid
    <2> SUFFICES ASSUME WInv, NEW h \in honest
                 PROVE  h.proof.disc < 0 /\ h.proof.disc % 4 = 1
        BY DEF DiscValid
    <2>1. PICK D \in ProverDiscs, t \in Targets, lvl \in Levels :
                h.proof = GenerateProof(D, t, lvl)
        BY DEF WInv, HonestOK
    <2>2. GenerateProof(D, t, lvl).disc = D
        BY ProofFacts
    <2>3. h.proof.disc = D
        BY <2>1, <2>2
    <2>. QED  BY <2>3, ProverDiscsValid
<1>. QED  BY <1>1, WInvHolds, PTL

\* Every proof cpu_vdf_generate_proof returns satisfies pi^l * x^r = y:
\* for all constants.
THEOREM HonestRelationHolds == Spec => []HonestRelation
<1>1. WInv => HonestRelation
    <2> SUFFICES ASSUME WInv, NEW h \in honest
                 PROVE  LET p == h.proof
                        IN  Compose(FastPow(p.pi, p.l),
                                    FastPow(p.x, 2^p.t % p.l)) = p.y
        BY DEF HonestRelation
    <2>1. PICK D \in ProverDiscs, t \in Targets, lvl \in Levels :
                h.proof = GenerateProof(D, t, lvl)
        BY DEF WInv, HonestOK
    <2>2. GenerateProof(D, t, lvl).t = t
        BY ProofFacts
    <2>3. h.proof.t = t
        BY <2>1, <2>2
    <2>. QED  BY <2>1, <2>3, RelationOfProof
<1>. QED  BY <1>1, WInvHolds, PTL

\* cpu_vdf_verify_proof accepts an honest proof called with the run's own
\* discriminant, T and level whenever pi.b was not negative (so the blob
\* carries pi itself) and -bytes is the engine's D: for all constants.
THEOREM CompleteWhenIntactHolds == Spec => []CompleteWhenIntact
<1>1. WInv => CompleteWhenIntact
    <2> SUFFICES ASSUME WInv, NEW v \in verdict, NEW h \in honest,
                        Matches(h, v), VerifierDisc(v) = h.proof.disc,
                        Export(h.proof.pi) = h.proof.pi
                 PROVE  v.out = "accept"
        BY DEF CompleteWhenIntact
    <2>1. PICK D \in ProverDiscs, t \in Targets, lvl \in Levels :
                h.proof = GenerateProof(D, t, lvl)
        BY DEF WInv, HonestOK
    <2>2. VerdictOK(v)
        BY DEF WInv
    <2> DEFINE p == GenerateProof(D, t, lvl)
               B == ArgBytes(v)
    <2>3. /\ p.disc = D /\ p.t = t /\ p.lvl = lvl /\ p.l \in Nat \ {0}
          /\ p.x = Generator(D) /\ p.y = Squarings(Generator(D), t)
          /\ p.pi = FastPow(Generator(D), 2^t \div p.l)
          /\ p.blob = [ver |-> 2, level |-> lvl, t |-> t, l |-> p.l,
                       pi |-> Export(p.pi)]
        BY ProofFacts, BlobFacts DEF p
    <2>4. v.blob = p.blob /\ v.t = t /\ v.lvl = lvl /\ Export(p.pi) = p.pi
        BY <2>1, <2>3 DEF Matches, p
    <2>5. VerifierDisc(v) = -B
        <3>1. CASE v.via = "seed"
            <4>1. v.arg \in Seeds
                BY <2>2, <3>1 DEF VerdictOK
            <4>2. SeedDisc(v.arg) \in Int
                BY <4>1, WesolowskiAssumption
            <4>. QED  BY <3>1, <4>2, SMT DEF VerifierDisc, ArgBytes, B
        <3>2. CASE v.via # "seed"
            BY <3>2 DEF VerifierDisc, ArgBytes, B
        <3>. QED  BY <3>1, <3>2
    <2>6. -B = D
        BY <2>1, <2>3, <2>5 DEF p
    <2>7. /\ v.blob.ver = 2 /\ v.blob.level = v.lvl /\ v.blob.t = v.t
          /\ v.blob.l = p.l /\ v.blob.pi = p.pi
        BY <2>3, <2>4
    <2>8. CheckValid(v.blob.pi, -B)
        BY <2>3, <2>6, <2>7 DEF CheckValid, FastPow, Generator
    <2>9. Compose(FastPow(p.pi, p.l), FastPow(p.x, 2^t % p.l)) = p.y
        BY RelationOfProof DEF p
    <2>10. Compose(FastPow(v.blob.pi, v.blob.l),
                   FastPow(Generator(-B), 2^(v.t) % v.blob.l))
           = Squarings(Generator(-B), v.t)
        BY <2>3, <2>4, <2>6, <2>7, <2>9
    <2>11. v.blob.l # 0
        BY <2>3, <2>7
    <2>12. VerifyProof(B, v.blob, v.t, v.lvl) = "accept"
        BY <2>7, <2>8, <2>10, <2>11 DEF VerifyProof
    <2>. QED  BY <2>2, <2>12 DEF VerdictOK, B
<1>. QED  BY <1>1, WInvHolds, PTL

-----------------------------------------------------------------------------
(* Type correctness.                                                       *)

\* Every discriminant a prover may hold is an integer.
LEMMA ProverDiscsInt == ProverDiscs \subseteq Int
BY ProverDiscsValid

\* cpu_vdf_generate_proof returns a well-formed proof record and blob.
LEMMA ProofType ==
    ASSUME NEW D \in ProverDiscs, NEW t \in Targets, NEW lvl \in Levels
    PROVE  GenerateProof(D, t, lvl) \in ProofRec
<1> DEFINE p == GenerateProof(D, t, lvl)
<1>1. /\ p.disc = D /\ p.t = t /\ p.lvl = lvl /\ p.l \in Nat \ {0}
      /\ p.x = Generator(D) /\ p.y = Squarings(Generator(D), t)
      /\ p.pi = FastPow(Generator(D), 2^t \div p.l)
      /\ p.blob = [ver |-> 2, level |-> lvl, t |-> t, l |-> p.l,
                   pi |-> Export(p.pi)]
  BY ProofFacts, BlobFacts DEF p
<1>2. D \in Int /\ t \in Nat /\ lvl \in 0..255 /\ 2^t \in Nat
  BY ProverDiscsInt, WesolowskiAssumption
<1>3. N \in Nat \ {0} /\ 1 \in 0..(N - 1)
  BY NFacts
<1>4. Generator(D) \in Elem
  BY <1>2, <1>3 DEF Generator, Elem
<1>5. p.y \in Elem /\ p.pi \in Elem
  <2>1. 2^t \div p.l \in Nat
    BY <1>1, <1>2, SMT
  <2> QED
    BY <1>1, <1>2, <1>3, <2>1, SMT DEF Squarings, FastPow, Generator, Elem
<1>6. Export(p.pi) \in Elem
  <2>1. Export(p.pi).e \in 0..(N - 1)
    BY <1>5, ExportRange DEF Elem
  <2>2. Export(p.pi).d = p.pi.d
    BY DEF Export
  <2> QED
    BY <1>5, <2>1, <2>2 DEF Elem, Export
<1>7. p.blob \in Blob
  BY <1>1, <1>2, <1>6 DEF Blob
<1>8. p = [disc |-> p.disc, t |-> p.t, lvl |-> p.lvl, x |-> p.x, y |-> p.y,
           l |-> p.l, pi |-> p.pi, blob |-> p.blob]
  BY DEF p, GenerateProof
<1> QED
  BY <1>1, <1>2, <1>4, <1>5, <1>7, <1>8 DEF ProofRec

\* A hand-made blob has the layout of a blob.
LEMMA ForgeableType == Forgeable \subseteq Blob
<1>1. Levels \subseteq 0..255 /\ Targets \subseteq Nat /\ LValues \subseteq Nat
  BY WesolowskiAssumption
<1> QED
  BY <1>1, ProverDiscsInt DEF Forgeable, Blob, Elem

\* The verifier's outcome is accept, reject or a crash.
LEMMA VerifyOutcome ==
    ASSUME NEW B, NEW blob, NEW t, NEW lvl
    PROVE  VerifyProof(B, blob, t, lvl) \in {"accept", "reject", "crash"}
BY DEF VerifyProof

\* Every step keeps the proofs, blobs and verdicts well formed.
LEMMA NextTypeOK == TypeOK /\ [Next]_vars => TypeOK'
<1> SUFFICES ASSUME TypeOK, [Next]_vars PROVE TypeOK'
  OBVIOUS
<1>0. Blobs \subseteq Blob
  BY DEF TypeOK, Blobs, ProofRec
<1>1. ASSUME NEW via, NEW arg \in Int, NEW D \in ProverDiscs,
             NEW t \in Targets, NEW lvl \in Levels,
             via \in {"bytes", "seed"}, Issue(via, arg, D, t, lvl)
      PROVE  honest' \subseteq [via : {"bytes", "seed"}, arg : Int,
                                proof : ProofRec]
  <2>1. GenerateProof(D, t, lvl) \in ProofRec
    BY ProofType
  <2> QED
    BY <1>1, <2>1 DEF Issue, TypeOK
<1>2. CASE ProveWithChallenge
  <2>1. PICK s \in Seeds, t \in Targets, lvl \in Levels :
            Issue("seed", s, SeedDisc(s), t, lvl)
    BY <1>2 DEF ProveWithChallenge
  <2>2. s \in Int /\ SeedDisc(s) \in ProverDiscs
    BY WesolowskiAssumption DEF ProverDiscs
  <2> QED
    BY <1>1, <1>2, <2>1, <2>2 DEF ProveWithChallenge, TypeOK
<1>3. CASE ProveWithDiscriminant
  <2>1. PICK B \in ClientBytes, t \in Targets, lvl \in Levels :
            AdjustDisc(B) < 0 /\ Issue("bytes", B, AdjustDisc(B), t, lvl)
    BY <1>3 DEF ProveWithDiscriminant
  <2>2. B \in Int /\ AdjustDisc(B) \in ProverDiscs
    BY <2>1, ClientBytesNat DEF ProverDiscs
  <2> QED
    BY <1>1, <1>3, <2>1, <2>2 DEF ProveWithDiscriminant, TypeOK
<1>4. CASE Forge
  BY <1>4, ForgeableType DEF Forge, TypeOK
\* A verification leaves one verdict, of the verdict type.
<1>5. ASSUME NEW v \in Verdict, verdict' = {v},
             UNCHANGED <<honest, forged>>
      PROVE  TypeOK'
  <2>1. Cardinality({v}) = 1
    BY FS_Singleton
  <2> QED
    BY <1>5, <2>1 DEF TypeOK
<1>6. CASE Verify
  <2>1. PICK blob \in Blobs, B \in ClientBytes, t \in Targets,
             lvl \in Levels :
          verdict' = {[via |-> "bytes", arg |-> B, blob |-> blob, t |-> t,
                       lvl |-> lvl, out |-> VerifyProof(B, blob, t, lvl)]}
    BY <1>6 DEF Verify
  <2>2. B \in Int /\ t \in Nat /\ lvl \in 0..255
    BY ClientBytesNat, WesolowskiAssumption
  <2>3. VerifyProof(B, blob, t, lvl) \in {"accept", "reject", "crash"}
    BY VerifyOutcome
  <2> QED
    BY <1>0, <1>5, <1>6, <2>1, <2>2, <2>3 DEF Verify, Verdict
<1>7. CASE VerifyWithChallenge
  <2>1. PICK blob \in Blobs, s \in Seeds, t \in Targets, lvl \in Levels :
          verdict' = {[via |-> "seed", arg |-> s, blob |-> blob, t |-> t,
                       lvl |-> lvl,
                       out |-> VerifyProofWithChallenge(s, blob, t, lvl)]}
    BY <1>7 DEF VerifyWithChallenge
  <2>2. s \in Int /\ t \in Nat /\ lvl \in 0..255
    BY WesolowskiAssumption
  <2>3. VerifyProofWithChallenge(s, blob, t, lvl)
            \in {"accept", "reject", "crash"}
    BY VerifyOutcome DEF VerifyProofWithChallenge
  <2> QED
    BY <1>0, <1>5, <1>7, <2>1, <2>2, <2>3 DEF VerifyWithChallenge, Verdict
<1>8. CASE UNCHANGED vars
  BY <1>8 DEF vars, TypeOK
<1> QED
  BY <1>2, <1>3, <1>4, <1>6, <1>7, <1>8 DEF Next

\* Type correctness of the prover and verifier model, for every value of
\* the constants: the records cpu_vdf_generate_proof returns, the blobs it
\* and anyone else write, and at most one verdict of cpu_vdf_verify_proof.
THEOREM WesolowskiTypeCorrect == Spec => []TypeOK
<1>1. Init => TypeOK
  BY FS_EmptySet DEF Init, TypeOK
<1> QED
  BY <1>1, NextTypeOK, PTL DEF Spec

=============================================================================
