----------------------------- MODULE Wesolowski -----------------------------
(***************************************************************************)
(* The Wesolowski prover, the proof blob and the verifier of               *)
(* src/vdf/src/c_bindings/streamer.cpp, end to end: clients obtain a       *)
(* discriminant (from a challenge seed, or as |D| bytes that               *)
(* start_with_discriminant adjusts), run the engine to completion and call *)
(* cpu_vdf_generate_proof; anyone then calls cpu_vdf_verify_proof or       *)
(* cpu_vdf_verify_proof_with_challenge on an honest blob or on a blob of   *)
(* their own making.  The scheduling of the engine is the subject of       *)
(* Engine.tla; here a run that completes has final_form = x^(2^T).         *)
(*                                                                         *)
(* Group elements.  Every form the code handles is a power of             *)
(* x = generator(D), so a form is named by [d |-> D, e |-> e] meaning      *)
(* x^e, with e taken modulo the order N of x.  composition adds exponents  *)
(* and FastPowFormNucomp multiplies them.  The reduced form of x^e has a   *)
(* negative b exactly when e is in NegB; its inverse x^(N-e) is the same   *)
(* form with b negated.  mpz_export writes |b|, so exporting a form whose  *)
(* b is negative and importing it back yields its inverse.                 *)
(***************************************************************************)
EXTENDS Integers, FiniteSets

CONSTANTS
    N,            \* order of x = generator(D) in the class group
    NegB,         \* exponents e whose reduced form x^e has b < 0
    DiscBytes,    \* |D| byte strings passed to start_with_discriminant
    Seeds,        \* the first 4 bytes of a challenge, as the int seed
    SeedDisc(_),  \* generate_discriminant(bits, seed), in vdf.h
    HashPrime(_, _, _, _), \* NextPrime(setbit(sha256(bytes), 263))
    Targets,      \* iteration counts T
    Levels,       \* recursion_level bytes
    LValues,      \* values the l field of a hand-made blob may carry
    MaxProofs,    \* honest proofs generated (bounds the model)
    MaxForged     \* hand-made blobs (bounds the model)

\* generator(D) = (2, 1, c): b = 1 > 0.  A reduced form and its inverse
\* have opposite signs of b, the identity has b = 1.
ASSUME GroupAssumption ==
    /\ N \in Nat \ {0, 1}
    /\ NegB \subseteq 2..(N - 1)
    /\ \A e \in NegB : N - e \notin NegB

ASSUME WesolowskiAssumption ==
    /\ DiscBytes \subseteq Nat
    /\ Seeds \subseteq Int
    /\ \A s \in Seeds : SeedDisc(s) \in Int /\ SeedDisc(s) < 0
                        /\ SeedDisc(s) % 4 = 1
    /\ Targets \subseteq Nat \ {0}
    /\ \A t \in Targets : 2^t \in Nat
    /\ Levels \subseteq 0..255
    /\ LValues \subseteq Nat
    /\ MaxProofs \in Nat /\ MaxForged \in Nat

Elem == [d : Int, e : 0..(N - 1)]

\* form::generator, operator* and FastPowFormNucomp (vdf.h), and
\* check_valid: b^2 - 4ac = D holds of a form of discriminant D only.
Generator(D) == [d |-> D, e |-> 1]
Compose(f, g) == [d |-> f.d, e |-> (f.e + g.e) % N]
FastPow(f, k) == [d |-> f.d, e |-> (f.e * k) % N]
CheckValid(f, D) == f.d = D

\* t applications of square(), as in the verifier's loop.
Squarings(f, t) == FastPow(f, 2^t)

\* Mutant: b exported as its negation.
ExportNegated(f) == IF f.e \in NegB THEN [f EXCEPT !.e = -f.e] ELSE f

\* mpz_export of a, b, c: magnitudes only, so b loses its sign.
Export(f) == IF f.e \in NegB THEN [f EXCEPT !.e = N - f.e] ELSE f

\* Fiat-Shamir: hash |D|, the exported x and y, and T; set bit 263; take
\* the next prime.  The hash is the unspecified function HashPrime.
Challenge(D, x, y, t) == HashPrime(-D, Export(x).e, Export(y).e, t)

\* Mutant: the residue added instead of subtracted.
AdjustDiscAddMod(B) ==
    LET D == -B
        m == D % 4
    IN  IF m = 1 THEN D
        ELSE IF D + m + 1 > 0 THEN D + m + 1 - 4 ELSE D + m + 1

\* start_with_discriminant: D = -|bytes|, then forced to 1 mod 4
\* (mpz_mod_ui returns 0..3), stepping down by 4 if it became positive.
AdjustDisc(B) ==
    LET D == -B
        m == D % 4
    IN  IF m = 1 THEN D
        ELSE IF D - m + 1 > 0 THEN D - m + 1 - 4 ELSE D - m + 1

\* cpu_vdf_create_discriminant exports the negative D: |D| bytes.
CreateDiscriminant(s) == -SeedDisc(s)

\* |D| byte strings a client may hold: its own, or create_discriminant's.
ClientBytes == DiscBytes \cup {CreateDiscriminant(s) : s \in Seeds}

\* Discriminants a prover may have run with.
ProverDiscs == {SeedDisc(s) : s \in Seeds} \cup
               {AdjustDisc(B) : B \in {b \in ClientBytes : AdjustDisc(b) < 0}}

ASSUME HashAssumption ==
    \A D \in ProverDiscs, a, b \in 0..(N - 1), t \in Targets :
        HashPrime(-D, a, b, t) \in Nat \ {0}

Blob == [ver : {2}, level : 0..255, t : Nat, l : Nat, pi : Elem]
ProofRec == [disc : Int, t : Nat, lvl : 0..255, x : Elem, y : Elem,
             l : Nat, pi : Elem, blob : Blob]

\* Mutant: the quotient rounded up (mpz_cdiv_qr for mpz_fdiv_qr).
GenerateProofCeilQ(D, t, lvl) ==
    LET x == Generator(D)
        y == Squarings(x, t)
        l == Challenge(D, x, y, t)
        pi == FastPow(x, (2^t + l - 1) \div l)
    IN  [disc |-> D, t |-> t, lvl |-> lvl, x |-> x, y |-> y, l |-> l,
         pi |-> pi,
         blob |-> [ver |-> 2, level |-> lvl, t |-> t, l |-> l,
                   pi |-> Export(pi)]]

\* cpu_vdf_generate_proof on a completed run of T iterations from
\* x = generator(D): l by Fiat-Shamir, q = floor(2^T / l), pi = x^q, and
\* the blob 0x02, level, T, l, pi.a, |pi.b|, pi.c.
GenerateProof(D, t, lvl) ==
    LET x == Generator(D)
        y == Squarings(x, t)
        l == Challenge(D, x, y, t)
        pi == FastPow(x, 2^t \div l)
    IN  [disc |-> D, t |-> t, lvl |-> lvl, x |-> x, y |-> y, l |-> l,
         pi |-> pi,
         blob |-> [ver |-> 2, level |-> lvl, t |-> t, l |-> l,
                   pi |-> Export(pi)]]

\* Mutant: the verifier's squaring loop stops one short.
VerifyProofShortLoop(B, blob, t, lvl) ==
    LET D == -B
        x == Generator(D)
        y == Squarings(x, t - 1)
    IN  CASE blob.ver # 2 \/ blob.level # lvl \/ blob.t # t
                \/ ~CheckValid(blob.pi, D)                  -> "reject"
          [] blob.l = 0                                     -> "crash"
          [] Compose(FastPow(blob.pi, blob.l),
                     FastPow(x, 2^t % blob.l)) = y          -> "accept"
          [] OTHER                                          -> "reject"

\* cpu_vdf_verify_proof(bytes, proof, T, level): header checks, D = -bytes,
\* x = generator(D), check_valid(pi), y by T squarings, r = 2^T mod l
\* (mpz_mod by l = 0 raises SIGFPE), then pi^l * x^r == y.
VerifyProof(B, blob, t, lvl) ==
    LET D == -B
        x == Generator(D)
        y == Squarings(x, t)
    IN  CASE blob.ver # 2 \/ blob.level # lvl \/ blob.t # t
                \/ ~CheckValid(blob.pi, D)                  -> "reject"
          [] blob.l = 0                                     -> "crash"
          [] Compose(FastPow(blob.pi, blob.l),
                     FastPow(x, 2^t % blob.l)) = y          -> "accept"
          [] OTHER                                          -> "reject"

\* Mutant: the discriminant exported without mpz_abs, as its negative.
VerifyProofWithChallengeNoAbs(s, blob, t, lvl) ==
    VerifyProof(SeedDisc(s), blob, t, lvl)

\* cpu_vdf_verify_proof_with_challenge: D from the seed, exported as |D|.
VerifyProofWithChallenge(s, blob, t, lvl) ==
    VerifyProof(-SeedDisc(s), blob, t, lvl)

\* Blobs anyone can write without running the engine.
Forgeable == [ver : {2}, level : Levels, t : Targets, l : LValues,
           pi : [d : ProverDiscs, e : 0..(N - 1)]]

Verdict == [via : {"bytes", "seed"}, arg : Int, blob : Blob, t : Nat,
            lvl : 0..255, out : {"accept", "reject", "crash"}]

VARIABLES
    honest,    \* proofs returned by cpu_vdf_generate_proof, with how the
               \* client obtained D: via "seed" (arg = seed) or "bytes"
    forged,    \* hand-made blobs
    verdict    \* {} or the last verification: its arguments and result

vars == <<honest, forged, verdict>>

TypeOK ==
    /\ honest \subseteq [via : {"bytes", "seed"}, arg : Int, proof : ProofRec]
    /\ forged \subseteq Blob
    /\ verdict \subseteq Verdict /\ Cardinality(verdict) <= 1

Init == honest = {} /\ forged = {} /\ verdict = {}

Issue(via, arg, D, t, lvl) ==
    honest' = honest \cup {[via |-> via, arg |-> arg,
                            proof |-> GenerateProof(D, t, lvl)]}

\* cpu_vdf_start_computation(challenge, T) run to completion, then
\* cpu_vdf_generate_proof(level).
ProveWithChallenge ==
    /\ Cardinality(honest) < MaxProofs
    /\ \E s \in Seeds, t \in Targets, lvl \in Levels :
           Issue("seed", s, SeedDisc(s), t, lvl)
    /\ UNCHANGED <<forged, verdict>>

\* cpu_vdf_start_computation_with_discriminant(bytes, T) run to completion,
\* then cpu_vdf_generate_proof(level); INVALID_DISCRIMINANT if D >= 0.
ProveWithDiscriminant ==
    /\ Cardinality(honest) < MaxProofs
    /\ \E B \in ClientBytes, t \in Targets, lvl \in Levels :
           /\ AdjustDisc(B) < 0
           /\ Issue("bytes", B, AdjustDisc(B), t, lvl)
    /\ UNCHANGED <<forged, verdict>>

\* Someone writes a blob of their own.
Forge ==
    /\ Cardinality(forged) < MaxForged
    /\ \E b \in Forgeable : forged' = forged \cup {b}
    /\ UNCHANGED <<honest, verdict>>

Blobs == {h.proof.blob : h \in honest} \cup forged

\* cpu_vdf_verify_proof on any blob, with any bytes, T and level.
Verify ==
    /\ \E blob \in Blobs, B \in ClientBytes, t \in Targets, lvl \in Levels :
           verdict' = {[via |-> "bytes", arg |-> B, blob |-> blob, t |-> t,
                        lvl |-> lvl, out |-> VerifyProof(B, blob, t, lvl)]}
    /\ UNCHANGED <<honest, forged>>

\* cpu_vdf_verify_proof_with_challenge on any blob.
VerifyWithChallenge ==
    /\ \E blob \in Blobs, s \in Seeds, t \in Targets, lvl \in Levels :
           verdict' = {[via |-> "seed", arg |-> s, blob |-> blob, t |-> t,
                        lvl |-> lvl,
                        out |-> VerifyProofWithChallenge(s, blob, t, lvl)]}
    /\ UNCHANGED <<honest, forged>>

Next == ProveWithChallenge \/ ProveWithDiscriminant \/ Forge \/ Verify
        \/ VerifyWithChallenge

Spec == Init /\ [][Next]_vars

-----------------------------------------------------------------------------
\* The proof cpu_vdf_generate_proof computes satisfies the Wesolowski
\* equation pi^l * x^r = y with r = 2^T mod l, before it is serialized:
\* the quotient of mpz_fdiv_qr and the verifier's mpz_mod agree.
HonestRelation ==
    \A h \in honest :
        LET p == h.proof
        IN  Compose(FastPow(p.pi, p.l), FastPow(p.x, 2^p.t % p.l)) = p.y

\* Every discriminant an engine computes with, from a seed or after the
\* adjustment of caller bytes in start_with_discriminant, is negative and
\* 1 mod 4, as form::generator requires.
DiscValid ==
    \A h \in honest : h.proof.disc < 0 /\ h.proof.disc % 4 = 1

\* The discriminant the verifier rebuilds from its arguments.
VerifierDisc(v) == IF v.via = "seed" THEN SeedDisc(v.arg) ELSE -v.arg

\* A verification of the blob of an honest proof, with the arguments the
\* prover was started with.
Matches(h, v) ==
    /\ h.proof.blob = v.blob /\ h.via = v.via /\ h.arg = v.arg
    /\ h.proof.t = v.t /\ h.proof.lvl = v.lvl

\* The prover/verifier law of the spec: cpu_vdf_verify_proof (or
\* _with_challenge) accepts every proof of cpu_vdf_generate_proof when
\* called with the discriminant, T and level the run was started with.
Complete ==
    \A v \in verdict : (\E h \in honest : Matches(h, v)) => v.out = "accept"

\* The same law where the blob carries pi unchanged (b >= 0) and the
\* verifier's -bytes is the engine's D: the codec and the arithmetic of
\* the prover and the verifier agree.
CompleteWhenIntact ==
    \A v \in verdict :
        (\E h \in honest : /\ Matches(h, v)
                          /\ VerifierDisc(v) = h.proof.disc
                          /\ Export(h.proof.pi) = h.proof.pi)
        => v.out = "accept"

\* Spec 4.G step 5: the verifier accepts only a blob whose l is the
\* Fiat-Shamir prime of (D, x, y, T) it recomputes.
ChallengeBound ==
    \A v \in verdict :
        v.out = "accept" =>
            LET D == VerifierDisc(v)
                x == Generator(D)
            IN  v.blob.l = Challenge(D, x, Squarings(x, v.t), v.t)

\* cpu_vdf_verify_proof returns false on a bad blob; it never kills the
\* process (the codec section: a typed failure on malformed input).
NoVerifierCrash == \A v \in verdict : v.out # "crash"

\* A hostile blob is harmless (spec 4.G step 5 and the codec's typed
\* failures): cpu_vdf_verify_proof accepts no blob whose l is not the
\* recomputed challenge, and no blob kills the verifying process.
HostileBlobRejected == ChallengeBound /\ NoVerifierCrash
=============================================================================
