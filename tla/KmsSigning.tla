----------------------------- MODULE KmsSigning -----------------------------
(***************************************************************************)
(* BlockchainSigningService: one signHash call against AWS KMS, with the   *)
(* DER parsers.  Bytes are bytes; a coordinate has Width of them instead   *)
(* of 32.  The key behind KMS_SIGNING_KEY_ID may be an alias that is       *)
(* pointed at another key between the two KMS calls of one signHash.       *)
(***************************************************************************)
EXTENDS Integers, Sequences, FiniteSets

CONSTANTS
  Width,    \* bytes of r, s, x and y (32 in the code)
  Digits,   \* byte values the coordinates are made of
  PointOf   \* KMS key -> public point, 2 * Width bytes; it names the address

Bytes == 0..255
Keys  == DOMAIN PointOf

ASSUME KmsAssumption ==
  /\ Width \in 1..60   \* two INTEGERs of 60 bytes just fit the short length field
  /\ Digits \subseteq Bytes
  /\ \A k \in Keys : PointOf[k] \in Seq(Bytes) /\ Len(PointOf[k]) = 2 * Width
  /\ \A j, k \in Keys : PointOf[j] = PointOf[k] => j = k

VARIABLES
  sign,       \* "idle", "kms", "parse", "key", "recover" or how it ended
  key,        \* the key behind KMS_SIGNING_KEY_ID
  signer,     \* the key that signed
  truth,      \* the signature as numbers: r, s and its recovery value
  der,        \* response.Signature or response.PublicKey
  rs, v,      \* what parseDerSignature and recoverV returned
  disturbed   \* a KMS call failed or the alias was moved

signVars == <<sign, key, signer, truth, der, rs, v, disturbed>>

Coordinates == [1..Width -> Digits]

----------------------------------------------------------------------------
(* What KMS sends: DER *)

\* The first byte that is not a leading zero.
FirstByte(bytes) == CHOOSE k \in 1..Width : /\ \A j \in 1..(k - 1) : bytes[j] = 0
                                            /\ bytes[k] # 0 \/ k = Width

\* The shortest two's complement form of a natural number.
Shortest(bytes) ==
  LET short == SubSeq(bytes, FirstByte(bytes), Width)
  IN  IF short[1] >= 128 THEN <<0>> \o short ELSE short

DerInteger(bytes) == <<2, Len(Shortest(bytes))>> \o Shortest(bytes)

\* SEQUENCE of two INTEGERs, with a short or a long length field.
DerSignature(r, s, long) ==
  LET body == DerInteger(r) \o DerInteger(s)
  IN  <<48>> \o (IF long THEN <<129, Len(body)>> ELSE <<Len(body)>>) \o body

\* SubjectPublicKeyInfo: a header of some length, then the uncompressed point.
DerPublicKey(point) == <<48, 2 * Width + 3, 3>> \o <<4>> \o point

----------------------------------------------------------------------------
(* The parsers *)

Invalid == <<>>

\* padStart(64, '0').
PadStart(bytes) == [k \in 1..(Width - Len(bytes)) |-> 0] \o bytes

\* The INTEGER whose tag is at index at: one leading zero byte is dropped.
ParseInteger(d, at) ==
  LET zero  == IF d[at + 2] = 0 THEN 1 ELSE 0
      start == at + 2 + zero
      len   == d[at + 1] - zero
  IN  [bytes |-> SubSeq(d, start, start + len - 1), next |-> start + len]

\* The index behind the SEQUENCE's length field.
AfterLength(d) == IF d[2] >= 128 THEN 3 + (d[2] % 128) ELSE 3

\* parseDerSignature: r and s, or an error at a wrong tag.
ParseDerSignature(d) ==
  LET at == AfterLength(d)
      r  == ParseInteger(d, at)
      s  == ParseInteger(d, r.next)
  IN  IF d[1] # 48 \/ d[at] # 2 \/ d[r.next] # 2 THEN Invalid
      ELSE <<PadStart(r.bytes), PadStart(s.bytes)>>

\* Mutant: the prefix is looked for one byte too late.
PublicKeyOffByOne(d) ==
  LET point == SubSeq(d, Len(d) - 2 * Width + 1, Len(d))
  IN  IF point[1] # 4 THEN Invalid ELSE Tail(point)

\* parseDerPublicKey: the last 65 bytes, without their 0x04 prefix.
ParseDerPublicKey(d) ==
  LET point == SubSeq(d, Len(d) - 2 * Width, Len(d))
  IN  IF point[1] # 4 THEN Invalid ELSE Tail(point)

----------------------------------------------------------------------------
(* signHash *)

SignInit ==
  /\ sign = "idle"
  /\ key \in Keys
  /\ signer = key
  /\ truth = <<>>
  /\ der = <<>>
  /\ rs = <<>>
  /\ v = 0
  /\ disturbed = FALSE

SignHash ==
  /\ sign = "idle"
  /\ sign' = "kms"
  /\ UNCHANGED <<key, signer, truth, der, rs, v, disturbed>>

\* SignCommand: some r and s with one recovery value, in DER.
KmsSigns ==
  /\ sign = "kms"
  /\ \E r, s \in Coordinates, bit \in {27, 28}, long \in BOOLEAN :
       /\ truth' = <<r, s, bit>>
       /\ der' = DerSignature(r, s, long)
  /\ signer' = key
  /\ sign' = "parse"
  /\ UNCHANGED <<key, rs, v, disturbed>>

Parse ==
  /\ sign = "parse"
  /\ rs' = ParseDerSignature(der)
  /\ sign' = IF rs' = Invalid THEN "failed" ELSE "key"
  /\ UNCHANGED <<key, signer, truth, der, v, disturbed>>

\* getSignerAddress: GetPublicKeyCommand for the key the id names by now.
GetSignerAddress ==
  /\ sign = "key"
  /\ der' = ParseDerPublicKey(DerPublicKey(PointOf[key]))
  /\ sign' = IF der' = Invalid THEN "failed" ELSE "recover"
  /\ UNCHANGED <<key, signer, truth, rs, v, disturbed>>

\* recoverAddress gives the signer's point for the very r, s and recovery
\* value; for any other it throws or gives a point of nobody.
RecoverAddress(w) == IF truth = <<rs[1], rs[2], w>> THEN PointOf[signer] ELSE <<>>

\* Mutant: whatever is not 27 is taken to be 28.
RecoverOr28 ==
  /\ sign = "recover"
  /\ v' = IF RecoverAddress(27) = der THEN 27 ELSE 28
  /\ sign' = "signed"
  /\ UNCHANGED <<key, signer, truth, der, rs, disturbed>>

\* recoverV: the first of 27 and 28 that recovers the address, else an error.
RecoverV ==
  /\ sign = "recover"
  /\ LET fits == {w \in {27, 28} : RecoverAddress(w) = der}
     IN  \/ /\ fits # {}
            /\ v' = CHOOSE w \in fits : \A u \in fits : w <= u
            /\ sign' = "signed"
         \/ /\ fits = {}
            /\ sign' = "failed"
            /\ UNCHANGED v
  /\ UNCHANGED <<key, signer, truth, der, rs, disturbed>>

\* A KMS call throws, answers nothing, or the key id is not configured.
KmsFails ==
  /\ sign \in {"kms", "key"}
  /\ sign' = "failed"
  /\ disturbed' = TRUE
  /\ UNCHANGED <<key, signer, truth, der, rs, v>>

\* The alias is pointed at another key while the call runs.
AliasMoves ==
  /\ sign \in {"kms", "parse", "key", "recover"}
  /\ key' \in Keys \ {key}
  /\ disturbed' = TRUE
  /\ UNCHANGED <<sign, signer, truth, der, rs, v>>

SignNext ==
  \/ SignHash \/ KmsSigns
  \/ Parse \/ GetSignerAddress \/ RecoverV \/ KmsFails \/ AliasMoves

SignSpec == SignInit /\ [][SignNext]_signVars

----------------------------------------------------------------------------
(* Safety *)

\* A signature that is returned is the one KMS made, r and s at full width
\* whatever zeros and sign bytes DER dropped and added, and recovers the key
\* that made it, also when the alias moved between the two KMS calls
\* (parseDerSignature, recoverV).
SignatureRecovers ==
  sign = "signed" => /\ rs = <<truth[1], truth[2]>>
                     /\ v = truth[3] /\ der = PointOf[signer]

\* Without a KMS fault and a moving alias signHash succeeds for every signature
\* KMS can produce: neither parser nor the search for v loses one.
FailsOnlyWhenDisturbed == sign = "failed" => disturbed

----------------------------------------------------------------------------
(* Inductive invariant *)

Steps == {"idle", "kms", "parse", "key", "recover", "signed", "failed"}

\* What signHash holds at each of its steps: the DER signature, then its two
\* numbers, then the point of the key the id named when it was asked for.
Holds ==
  /\ sign \in {"parse", "key", "recover", "signed"} =>
       \E r, s \in Coordinates, bit \in {27, 28} :
         /\ truth = <<r, s, bit>>
         /\ IF sign = "parse" THEN \E long \in BOOLEAN : der = DerSignature(r, s, long)
                              ELSE rs = <<r, s>>
  /\ sign = "recover" => \E k \in Keys : der = PointOf[k] /\ (disturbed \/ k = signer)

\* The inductive invariant: without a fault the id still names the signer.
SignInv ==
  /\ sign \in Steps /\ key \in Keys /\ signer \in Keys /\ disturbed \in BOOLEAN
  /\ disturbed \/ key = signer
  /\ Holds
  /\ SignatureRecovers
  /\ FailsOnlyWhenDisturbed
=============================================================================
