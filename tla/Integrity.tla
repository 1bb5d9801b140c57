----------------------------- MODULE Integrity -----------------------------
(***************************************************************************)
(* The integrity attribute of a media element (src/src/integrity.rs).  An  *)
(* attribute is the sequence of its tokens, a token an algorithm's name    *)
(* and a digest; the digest of bytes under an algorithm is the pair of the *)
(* two (external: SHA-2, which is taken to be injective).                  *)
(***************************************************************************)
EXTENDS Integers, Sequences, SequencesExt

\* SriAlgorithm, in the order of strength; other names are not known.
Algorithms == <<"sha256", "sha384", "sha512">>
Strength(algorithm) == CHOOSE n \in DOMAIN Algorithms : Algorithms[n] = algorithm

DigestOf(algorithm, bytes) == <<algorithm, bytes>>

\* A token without "-" or with an unknown algorithm is skipped: the positions of the
\* tokens that are kept.
ParseIntegrityAttr(attr) ==
    {i \in DOMAIN attr : \E n \in DOMAIN Algorithms : attr[i].algorithm = Algorithms[n]}

\* max_by_key: of several strongest tokens, the last.
FaultySelectStrongest(attr) ==
    attr[CHOOSE i \in ParseIntegrityAttr(attr) : \A j \in ParseIntegrityAttr(attr) : i <= j]

SelectStrongest(attr) ==
    LET strength(i) == Strength(attr[i].algorithm)
    IN  attr[CHOOSE i \in ParseIntegrityAttr(attr) :
                \A j \in ParseIntegrityAttr(attr) :
                    \/ strength(j) < strength(i)
                    \/ strength(j) = strength(i) /\ j <= i]

VerifyIntegrity(bytes, attr) ==
    LET strongest == SelectStrongest(attr)
    IN  CASE ParseIntegrityAttr(attr) = {} -> "malformed"
          [] ParseIntegrityAttr(attr) # {}
                /\ strongest.digest = DigestOf(strongest.algorithm, bytes) -> "ok"
          [] OTHER -> "mismatch"

\* enforce_inference_integrity; an optional attribute is a set of at most one.
EnforceInferenceIntegrity(inference, integrity) ==
    IF inference = {"required"} /\ integrity = {} THEN "malformed" ELSE "ok"
=============================================================================
