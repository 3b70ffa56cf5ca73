---------------------------- MODULE WirePathProofs ----------------------------
(***************************************************************************)
(* The two decoders agree, the sections they cut tile the frame, what      *)
(* either library encodes both decode, and a cut frame is not mistaken for *)
(* a whole one: for every length, every pad length and every byte string.  *)
(***************************************************************************)
EXTENDS WirePath, SequenceTheorems, WellFoundedInduction, TLAPS

-----------------------------------------------------------------------------
(* The first check that fails.                                             *)

ErrorNames ==
  { "TruncatedFrame", "InvalidMagic", "UnsupportedVersion", "InvalidNSigned",
    "InvalidSigFlag", "UnsupportedAlgorithm", "SigningMismatch", "InvalidSignature",
    "CiphertextTooShort", "AeadAuthFailed", "InvalidPadLength" }
Checks == [fails : BOOLEAN, error : ErrorNames]

\* Every set of naturals that is not empty has a least element.
LEMMA LeastNatural ==
  ASSUME NEW T \in SUBSET Nat, T # {}
  PROVE  \E m \in T : \A k \in T : m <= k
<1>1. PICK m \in T : \A k \in T : ~(<<k, m>> \in OpToRel(<, Nat))
  BY NatLessThanWellFounded, WFMin
<1>2. \A k \in T : ~(k < m)
  BY <1>1 DEF OpToRel
<1> QED BY <1>2

LEMMA FirstFailureAt ==
  ASSUME NEW cs, NEW n \in Nat, DOMAIN cs = 1..n, NEW i \in 1..n, cs[i].fails,
         \A j \in 1..n : j < i => ~cs[j].fails
  PROVE  FirstFailure(cs) = cs[i].error
<1> DEFINE failed == {j \in DOMAIN cs : cs[j].fails}
           first == CHOOSE j \in failed : \A k \in failed : j <= k
<1>1. i \in failed /\ failed \subseteq Int
  OBVIOUS
<1>2. \A k \in failed : ~(k < i)
  OBVIOUS
<1>3. \A k \in failed : i <= k
  BY <1>1, <1>2
<1>4. first \in failed /\ \A k \in failed : first <= k
  BY <1>1, <1>3
<1>5. first = i
  BY <1>1, <1>3, <1>4
<1> QED BY <1>1, <1>5 DEF FirstFailure

LEMMA NoFailure ==
  ASSUME NEW cs, \A i \in DOMAIN cs : ~cs[i].fails
  PROVE  FirstFailure(cs) = "ok"
BY DEF FirstFailure

\* A sequence of checks passes, or has a first check that fails.
LEMMA FirstFailureCases ==
  ASSUME NEW cs \in Seq(Checks)
  PROVE  \/ (\A i \in DOMAIN cs : ~cs[i].fails) /\ FirstFailure(cs) = "ok"
         \/ \E i \in 1..Len(cs) :
              /\ cs[i].fails /\ \A j \in 1..Len(cs) : j < i => ~cs[j].fails
              /\ FirstFailure(cs) = cs[i].error
              /\ FirstFailure(cs) # "ok"
<1>1. Len(cs) \in Nat /\ DOMAIN cs = 1..Len(cs)
  BY LenProperties
<1>2. CASE \A i \in DOMAIN cs : ~cs[i].fails
  BY <1>2, NoFailure
<1>3. CASE \E i \in DOMAIN cs : cs[i].fails
  <2> DEFINE failed == {i \in 1..Len(cs) : cs[i].fails}
  <2>1. failed \in SUBSET Nat /\ failed # {}
    BY <1>1, <1>3
  <2>2. PICK i \in failed : \A k \in failed : i <= k
    BY <2>1, LeastNatural
  <2>3. i \in 1..Len(cs) /\ cs[i].fails /\ \A j \in 1..Len(cs) : j < i => ~cs[j].fails
    BY <2>1, <2>2
  <2>4. FirstFailure(cs) = cs[i].error
    BY <1>1, <2>3, FirstFailureAt
  <2>5. cs[i] \in Checks
    BY <2>3, ElementOfSeq
  <2>6. cs[i].error # "ok"
    BY <2>5 DEF Checks, ErrorNames
  <2> QED BY <2>3, <2>4, <2>6
<1> QED BY <1>2, <1>3

\* Checks made one list after the other.
LEMMA FirstFailureConcat ==
  ASSUME NEW s \in Seq(Checks), NEW t \in Seq(Checks)
  PROVE  FirstFailure(s \o t) = IF FirstFailure(s) = "ok" THEN FirstFailure(t)
                                                          ELSE FirstFailure(s)
<1> DEFINE u == s \o t
<1>1. /\ Len(s) \in Nat /\ DOMAIN s = 1..Len(s)
      /\ Len(t) \in Nat /\ DOMAIN t = 1..Len(t)
  BY LenProperties
<1>2. /\ u \in Seq(Checks) /\ Len(u) = Len(s) + Len(t)
      /\ \A i \in 1 .. Len(s) + Len(t) : u[i] = IF i <= Len(s) THEN s[i] ELSE t[i - Len(s)]
  BY ConcatProperties
<1> HIDE DEF u
<1>3. DOMAIN u = 1..(Len(s) + Len(t)) /\ Len(s) + Len(t) \in Nat
  BY <1>1, <1>2, LenProperties
<1>4. \A i \in 1..Len(s) : u[i] = s[i] /\ i \in DOMAIN u
  BY <1>1, <1>2, <1>3
<1>5. \A i \in 1..Len(t) : u[Len(s) + i] = t[i] /\ Len(s) + i \in DOMAIN u
  <2> TAKE i \in 1..Len(t)
  <2>1. /\ Len(s) + i \in 1..(Len(s) + Len(t)) /\ ~(Len(s) + i <= Len(s))
        /\ Len(s) + i - Len(s) = i
    BY <1>1
  <2> QED BY <1>2, <1>3, <2>1
<1>6. \A i \in DOMAIN u : i \in 1..Len(s) \/ i - Len(s) \in 1..Len(t)
  BY <1>1, <1>3
<1>7. CASE (\A i \in DOMAIN s : ~s[i].fails) /\ FirstFailure(s) = "ok"
  <2>1. CASE (\A i \in DOMAIN t : ~t[i].fails) /\ FirstFailure(t) = "ok"
    <3>1. ASSUME NEW i \in DOMAIN u PROVE ~u[i].fails
      <4>1. CASE i \in 1..Len(s)
        BY <1>1, <1>4, <1>7, <4>1
      <4>2. CASE i - Len(s) \in 1..Len(t)
        <5>1. u[Len(s) + (i - Len(s))] = t[i - Len(s)]
          BY <1>5, <4>2
        <5>2. Len(s) + (i - Len(s)) = i
          BY <1>1, <1>3
        <5> QED BY <1>1, <2>1, <4>2, <5>1, <5>2
      <4> QED BY <1>6, <4>1, <4>2
    <3> QED BY <1>7, <2>1, <3>1, NoFailure DEF u
  <2>2. CASE \E i \in 1..Len(t) :
               /\ t[i].fails /\ \A j \in 1..Len(t) : j < i => ~t[j].fails
               /\ FirstFailure(t) = t[i].error
    <3>1. PICK i \in 1..Len(t) : /\ t[i].fails /\ \A j \in 1..Len(t) : j < i => ~t[j].fails
                                 /\ FirstFailure(t) = t[i].error
      BY <2>2
    <3>2. Len(s) + i \in 1..(Len(s) + Len(t)) /\ u[Len(s) + i] = t[i]
      BY <1>1, <1>5
    <3>3. ASSUME NEW j \in 1..(Len(s) + Len(t)), j < Len(s) + i PROVE ~u[j].fails
      <4>1. CASE j \in 1..Len(s)
        BY <1>1, <1>4, <1>7, <4>1
      <4>2. CASE j - Len(s) \in 1..Len(t)
        <5>1. u[Len(s) + (j - Len(s))] = t[j - Len(s)]
          BY <1>5, <4>2
        <5>2. Len(s) + (j - Len(s)) = j /\ j - Len(s) < i
          BY <1>1, <3>3
        <5> QED BY <3>1, <4>2, <5>1, <5>2
      <4> QED BY <1>3, <1>6, <4>1, <4>2
    <3>4. FirstFailure(u) = u[Len(s) + i].error
      <4> DEFINE m == Len(s) + i
      <4>1. m \in 1..(Len(s) + Len(t)) /\ u[m].fails
        BY <3>1, <3>2
      <4>2. \A j \in 1..(Len(s) + Len(t)) : j < m => ~u[j].fails
        BY <3>3
      <4> HIDE DEF m
      <4>3. FirstFailure(u) = u[m].error
        BY ONLY <1>3, <4>1, <4>2, FirstFailureAt
      <4> QED BY <4>3 DEF m
    <3> QED BY <1>7, <3>1, <3>2, <3>4 DEF u
  <2> QED BY <2>1, <2>2, FirstFailureCases
<1>8. CASE \E i \in 1..Len(s) :
             /\ s[i].fails /\ \A j \in 1..Len(s) : j < i => ~s[j].fails
             /\ FirstFailure(s) = s[i].error /\ FirstFailure(s) # "ok"
  <2>1. PICK i \in 1..Len(s) : /\ s[i].fails /\ \A j \in 1..Len(s) : j < i => ~s[j].fails
                               /\ FirstFailure(s) = s[i].error /\ FirstFailure(s) # "ok"
    BY <1>8
  <2>2. i \in 1..(Len(s) + Len(t)) /\ u[i] = s[i]
    BY <1>1, <1>4
  <2>3. ASSUME NEW j \in 1..(Len(s) + Len(t)), j < i PROVE ~u[j].fails
    <3>1. j \in 1..Len(s)
      BY <1>1, <2>3
    <3> QED BY <1>4, <2>1, <2>3, <3>1
  <2>4. FirstFailure(u) = u[i].error
    <3>1. u[i].fails /\ \A j \in 1..(Len(s) + Len(t)) : j < i => ~u[j].fails
      BY <2>1, <2>2, <2>3
    <3> QED BY ONLY <1>3, <2>2, <3>1, FirstFailureAt
  <2> QED BY <2>1, <2>2, <2>4 DEF u
<1> QED BY <1>7, <1>8, FirstFailureCases

\* Passing, check by check.
LEMMA PassesAll ==
  ASSUME NEW cs \in Seq(Checks)
  PROVE  FirstFailure(cs) = "ok" <=> \A i \in 1..Len(cs) : ~cs[i].fails
BY FirstFailureCases, LenProperties

LEMMA FirstOfFive ==
  ASSUME NEW a, NEW b, NEW c, NEW d, NEW e
  PROVE  FirstFailure(<<a, b, c, d, e>>) =
           IF a.fails THEN a.error ELSE IF b.fails THEN b.error
           ELSE IF c.fails THEN c.error ELSE IF d.fails THEN d.error
           ELSE IF e.fails THEN e.error ELSE "ok"
<1> DEFINE cs == <<a, b, c, d, e>>
<1>1. DOMAIN cs = 1..5 /\ 5 \in Nat
      /\ cs[1] = a /\ cs[2] = b /\ cs[3] = c /\ cs[4] = d /\ cs[5] = e
  OBVIOUS
<1> HIDE DEF cs
<1>2. ASSUME NEW i \in 1..5, cs[i].fails, \A j \in 1..5 : j < i => ~cs[j].fails
      PROVE  FirstFailure(cs) = cs[i].error
  BY <1>1, <1>2, FirstFailureAt
<1>3. /\ cs[1].fails => FirstFailure(cs) = cs[1].error
      /\ ~cs[1].fails /\ cs[2].fails => FirstFailure(cs) = cs[2].error
      /\ ~cs[1].fails /\ ~cs[2].fails /\ cs[3].fails => FirstFailure(cs) = cs[3].error
      /\ ~cs[1].fails /\ ~cs[2].fails /\ ~cs[3].fails /\ cs[4].fails =>
           FirstFailure(cs) = cs[4].error
      /\ ~cs[1].fails /\ ~cs[2].fails /\ ~cs[3].fails /\ ~cs[4].fails /\ cs[5].fails =>
           FirstFailure(cs) = cs[5].error
  BY <1>2
<1>4. ~cs[1].fails /\ ~cs[2].fails /\ ~cs[3].fails /\ ~cs[4].fails /\ ~cs[5].fails =>
        FirstFailure(cs) = "ok"
  BY <1>1, NoFailure
<1> QED BY <1>1, <1>3, <1>4 DEF cs

LEMMA FirstOfSix ==
  ASSUME NEW a, NEW b, NEW c, NEW d, NEW e, NEW f
  PROVE  FirstFailure(<<a, b, c, d, e, f>>) =
           IF a.fails THEN a.error ELSE IF b.fails THEN b.error
           ELSE IF c.fails THEN c.error ELSE IF d.fails THEN d.error
           ELSE IF e.fails THEN e.error ELSE IF f.fails THEN f.error ELSE "ok"
<1> DEFINE cs == <<a, b, c, d, e, f>>
<1>1. DOMAIN cs = 1..6 /\ 6 \in Nat
      /\ cs[1] = a /\ cs[2] = b /\ cs[3] = c /\ cs[4] = d /\ cs[5] = e /\ cs[6] = f
  OBVIOUS
<1> HIDE DEF cs
<1>2. ASSUME NEW i \in 1..6, cs[i].fails, \A j \in 1..6 : j < i => ~cs[j].fails
      PROVE  FirstFailure(cs) = cs[i].error
  BY <1>1, <1>2, FirstFailureAt
<1>3. /\ cs[1].fails => FirstFailure(cs) = cs[1].error
      /\ ~cs[1].fails /\ cs[2].fails => FirstFailure(cs) = cs[2].error
      /\ ~cs[1].fails /\ ~cs[2].fails /\ cs[3].fails => FirstFailure(cs) = cs[3].error
      /\ ~cs[1].fails /\ ~cs[2].fails /\ ~cs[3].fails /\ cs[4].fails =>
           FirstFailure(cs) = cs[4].error
      /\ ~cs[1].fails /\ ~cs[2].fails /\ ~cs[3].fails /\ ~cs[4].fails /\ cs[5].fails =>
           FirstFailure(cs) = cs[5].error
      /\ ~cs[1].fails /\ ~cs[2].fails /\ ~cs[3].fails /\ ~cs[4].fails /\ ~cs[5].fails
         /\ cs[6].fails => FirstFailure(cs) = cs[6].error
  BY <1>2
<1>4. ~cs[1].fails /\ ~cs[2].fails /\ ~cs[3].fails /\ ~cs[4].fails /\ ~cs[5].fails
        /\ ~cs[6].fails => FirstFailure(cs) = "ok"
  BY <1>1, NoFailure
<1> QED BY <1>1, <1>3, <1>4 DEF cs

LEMMA PassesThree ==
  ASSUME NEW a \in Checks, NEW b \in Checks, NEW c \in Checks
  PROVE  FirstFailure(<<a, b, c>>) = "ok" <=> ~a.fails /\ ~b.fails /\ ~c.fails
<1> DEFINE cs == <<a, b, c>>
<1>1. cs \in Seq(Checks) /\ Len(cs) = 3 /\ cs[1] = a /\ cs[2] = b /\ cs[3] = c
  OBVIOUS
<1> HIDE DEF cs
<1>2. FirstFailure(cs) = "ok" <=> \A i \in 1..3 : ~cs[i].fails
  BY <1>1, PassesAll
<1>3. (\A i \in 1..3 : ~cs[i].fails) <=> ~cs[1].fails /\ ~cs[2].fails /\ ~cs[3].fails
  OBVIOUS
<1> QED BY <1>1, <1>2, <1>3 DEF cs

LEMMA PassesTwo ==
  ASSUME NEW a \in Checks, NEW b \in Checks
  PROVE  FirstFailure(<<a, b>>) = "ok" <=> ~a.fails /\ ~b.fails
<1> DEFINE cs == <<a, b>>
<1>1. cs \in Seq(Checks) /\ Len(cs) = 2 /\ cs[1] = a /\ cs[2] = b
  OBVIOUS
<1> HIDE DEF cs
<1>2. FirstFailure(cs) = "ok" <=> \A i \in 1..2 : ~cs[i].fails
  BY <1>1, PassesAll
<1>3. (\A i \in 1..2 : ~cs[i].fails) <=> ~cs[1].fails /\ ~cs[2].fails
  OBVIOUS
<1> QED BY <1>1, <1>2, <1>3 DEF cs

LEMMA PassesOne ==
  ASSUME NEW a \in Checks
  PROVE  FirstFailure(<<a>>) = "ok" <=> ~a.fails
<1> DEFINE cs == <<a>>
<1>1. cs \in Seq(Checks) /\ Len(cs) = 1 /\ cs[1] = a
  OBVIOUS
<1> HIDE DEF cs
<1>2. FirstFailure(cs) = "ok" <=> \A i \in 1..1 : ~cs[i].fails
  BY <1>1, PassesAll
<1>3. (\A i \in 1..1 : ~cs[i].fails) <=> ~cs[1].fails
  OBVIOUS
<1> QED BY <1>1, <1>2, <1>3 DEF cs

-----------------------------------------------------------------------------
(* Parsing.  WireHeader.validate makes one check more than its Rust twin,  *)
(* of a field that one byte cannot violate; the others are the same.       *)

Parses(b) ==
  /\ b.magicOk /\ b.version = VERSION
  /\ b.sigFlag \in {0, 1} /\ b.encryptionType \in EncryptionTypes
  /\ b.nSigned = 0 => b.sigFlag = 0
  /\ b.len >= FIXED_HEADER_LEN + JsSignatureLength(b)
  /\ b.sigFlag = 1 => ~b.signatureZero
  /\ b.encryptionType # NONE => JsBodyEnd(b) - FIXED_HEADER_LEN >= AEAD_TAG_LEN

LEMMA HeaderChecks ==
  ASSUME NEW b \in WireBytes
  PROVE  /\ FirstFailure(JsHeaderChecks(b)) = FirstFailure(RsHeaderChecks(b))
         /\ JsHeaderChecks(b) \in Seq(Checks) /\ RsHeaderChecks(b) \in Seq(Checks)
         /\ FirstFailure(JsHeaderChecks(b)) = "ok" <=>
              /\ b.magicOk /\ b.version = VERSION
              /\ b.sigFlag \in {0, 1} /\ b.encryptionType \in EncryptionTypes
              /\ b.nSigned = 0 => b.sigFlag = 0
<1> DEFINE a1 == Check(~b.magicOk, "InvalidMagic")
           a2 == Check(b.version # VERSION, "UnsupportedVersion")
           a3 == Check(b.nSigned < 0 \/ b.nSigned > 255, "InvalidNSigned")
           a4 == Check(b.sigFlag # 0 /\ b.sigFlag # 1, "InvalidSigFlag")
           a5 == Check(b.encryptionType \notin EncryptionTypes, "UnsupportedAlgorithm")
           a6 == Check(b.nSigned = 0 /\ b.sigFlag # 0, "SigningMismatch")
<1>1. /\ a1 \in Checks /\ a2 \in Checks /\ a3 \in Checks /\ a4 \in Checks
      /\ a5 \in Checks /\ a6 \in Checks
  BY DEF Check, Checks, ErrorNames
<1>2. /\ JsHeaderChecks(b) = <<a1, a2, a3, a4, a5, a6>>
      /\ RsHeaderChecks(b) = <<a1, a2, a4, a5, a6>>
  BY DEF JsHeaderChecks, RsHeaderChecks
<1>3. ~a3.fails
  <2>1. b.nSigned \in 0..255
    BY DEF WireBytes
  <2>2. ~(b.nSigned < 0 \/ b.nSigned > 255)
    BY <2>1
  <2>3. a3.fails = (b.nSigned < 0 \/ b.nSigned > 255)
    BY DEF Check
  <2> QED BY <2>2, <2>3
<1>4. /\ a1.fails = ~b.magicOk /\ a2.fails = (b.version # VERSION)
      /\ a4.fails = (b.sigFlag # 0 /\ b.sigFlag # 1)
      /\ a5.fails = (b.encryptionType \notin EncryptionTypes)
      /\ a6.fails = (b.nSigned = 0 /\ b.sigFlag # 0)
      /\ a1.error # "ok" /\ a2.error # "ok" /\ a4.error # "ok" /\ a5.error # "ok"
      /\ a6.error # "ok"
  BY DEF Check
<1> HIDE DEF a1, a2, a3, a4, a5, a6
<1>5. FirstFailure(<<a1, a2, a3, a4, a5, a6>>) = FirstFailure(<<a1, a2, a4, a5, a6>>)
  BY <1>3, FirstOfFive, FirstOfSix
<1>6. <<a1, a2, a3, a4, a5, a6>> \in Seq(Checks) /\ <<a1, a2, a4, a5, a6>> \in Seq(Checks)
  BY <1>1
<1>7. FirstFailure(<<a1, a2, a4, a5, a6>>) = "ok" <=>
        ~a1.fails /\ ~a2.fails /\ ~a4.fails /\ ~a5.fails /\ ~a6.fails
  BY <1>4, FirstOfFive
<1>8. ~a1.fails /\ ~a2.fails /\ ~a4.fails /\ ~a5.fails /\ ~a6.fails <=>
        /\ b.magicOk /\ b.version = VERSION
        /\ b.sigFlag \in {0, 1} /\ b.encryptionType \in EncryptionTypes
        /\ b.nSigned = 0 => b.sigFlag = 0
  BY <1>4
<1> QED BY <1>2, <1>5, <1>6, <1>7, <1>8

\* The checks that follow the header's, in either library.
LEMMA TailChecks ==
  ASSUME NEW b \in WireBytes
  PROVE  LET tail == << Check(b.len < FIXED_HEADER_LEN + JsSignatureLength(b), "TruncatedFrame"),
                        Check(b.sigFlag = 1 /\ b.signatureZero, "InvalidSignature"),
                        Check(/\ b.encryptionType # NONE
                              /\ JsBodyEnd(b) - FIXED_HEADER_LEN < AEAD_TAG_LEN,
                              "CiphertextTooShort") >>
         IN  /\ tail \in Seq(Checks)
             /\ tail = << Check(RsRest(b) < RsSignatureLen(b), "TruncatedFrame"),
                          Check(b.sigFlag = 1 /\ b.signatureZero, "InvalidSignature"),
                          Check(b.encryptionType # NONE /\ RsBodyLen(b) < AEAD_TAG_LEN,
                                "CiphertextTooShort") >>
             /\ FirstFailure(tail) = "ok" <=>
                  /\ b.len >= FIXED_HEADER_LEN + JsSignatureLength(b)
                  /\ b.sigFlag = 1 => ~b.signatureZero
                  /\ b.encryptionType # NONE => JsBodyEnd(b) - FIXED_HEADER_LEN >= AEAD_TAG_LEN
<1> DEFINE short == b.len < FIXED_HEADER_LEN + JsSignatureLength(b)
           zero  == b.sigFlag = 1 /\ b.signatureZero
           brief == b.encryptionType # NONE /\ JsBodyEnd(b) - FIXED_HEADER_LEN < AEAD_TAG_LEN
           t1 == Check(short, "TruncatedFrame")
           t2 == Check(zero, "InvalidSignature")
           t3 == Check(brief, "CiphertextTooShort")
<1>1. b.len \in Int /\ JsSignatureLength(b) \in Int
  BY DEF WireBytes, JsSignatureLength, SIG_SLOT_LEN
<1>2. /\ RsSignatureLen(b) = JsSignatureLength(b)
      /\ RsBodyLen(b) = JsBodyEnd(b) - FIXED_HEADER_LEN
      /\ JsBodyEnd(b) - FIXED_HEADER_LEN \in Int
  BY <1>1 DEF RsSignatureLen, JsSignatureLength, RsBodyLen, JsBodyEnd, RsRest, FIXED_HEADER_LEN
<1>3. short <=> RsRest(b) < RsSignatureLen(b)
  BY <1>1, <1>2 DEF RsRest, FIXED_HEADER_LEN
<1>4. brief <=> b.encryptionType # NONE /\ RsBodyLen(b) < AEAD_TAG_LEN
  BY <1>2
<1>5. t1 = Check(RsRest(b) < RsSignatureLen(b), "TruncatedFrame")
  BY <1>3 DEF Check
<1>6. t3 = Check(b.encryptionType # NONE /\ RsBodyLen(b) < AEAD_TAG_LEN, "CiphertextTooShort")
  BY <1>4 DEF Check
<1>7. t1 \in Checks /\ t2 \in Checks /\ t3 \in Checks
  BY DEF Check, Checks, ErrorNames
<1>8. t1.fails = short /\ t2.fails = zero /\ t3.fails = brief
  BY DEF Check
<1>9. FirstFailure(<<t1, t2, t3>>) = "ok" <=> ~short /\ ~zero /\ ~brief
  <2> HIDE DEF t1, t2, t3, short, zero, brief
  <2>1. FirstFailure(<<t1, t2, t3>>) = "ok" <=> ~t1.fails /\ ~t2.fails /\ ~t3.fails
    BY <1>7, PassesThree
  <2> QED BY <1>8, <2>1
<1>10. ~short <=> b.len >= FIXED_HEADER_LEN + JsSignatureLength(b)
  BY <1>1 DEF FIXED_HEADER_LEN
<1>11. ~brief <=> (b.encryptionType # NONE => JsBodyEnd(b) - FIXED_HEADER_LEN >= AEAD_TAG_LEN)
  BY <1>2 DEF AEAD_TAG_LEN
<1>12. ~zero <=> (b.sigFlag = 1 => ~b.signatureZero)
  OBVIOUS
<1>13. <<t1, t2, t3>> \in Seq(Checks)
  <2> HIDE DEF t1, t2, t3
  <2> QED BY <1>7
<1> QED BY <1>5, <1>6, <1>9, <1>10, <1>11, <1>12, <1>13

\* Both parsers give the same verdict, and accept the same bytes.
LEMMA ParsersAgree ==
  ASSUME NEW b \in WireBytes
  PROVE  JsParse(b) = RsParse(b) /\ (JsParse(b) = "ok" <=> Parses(b))
<1> DEFINE c == Check(b.len < FIXED_HEADER_LEN, "TruncatedFrame")
           tail == << Check(b.len < FIXED_HEADER_LEN + JsSignatureLength(b), "TruncatedFrame"),
                      Check(b.sigFlag = 1 /\ b.signatureZero, "InvalidSignature"),
                      Check(/\ b.encryptionType # NONE
                            /\ JsBodyEnd(b) - FIXED_HEADER_LEN < AEAD_TAG_LEN,
                            "CiphertextTooShort") >>
           js == JsHeaderChecks(b)
           rs == RsHeaderChecks(b)
<1>1. /\ JsParse(b) = FirstFailure(<<c>> \o js \o tail)
      /\ RsParse(b) = FirstFailure(<<c>> \o rs \o tail)
  BY TailChecks DEF JsParse, RsParse
<1>2. c \in Checks /\ (c.fails <=> b.len < FIXED_HEADER_LEN)
  <2>1. c \in Checks
    BY DEF Check, Checks, ErrorNames
  <2>2. c.fails <=> b.len < FIXED_HEADER_LEN
    BY DEF Check
  <2> QED BY <2>1, <2>2
<1>3. tail \in Seq(Checks)
      /\ (FirstFailure(tail) = "ok" <=>
            /\ b.len >= FIXED_HEADER_LEN + JsSignatureLength(b)
            /\ b.sigFlag = 1 => ~b.signatureZero
            /\ b.encryptionType # NONE => JsBodyEnd(b) - FIXED_HEADER_LEN >= AEAD_TAG_LEN)
  BY TailChecks
<1>4. js \in Seq(Checks) /\ rs \in Seq(Checks) /\ FirstFailure(js) = FirstFailure(rs)
      /\ (FirstFailure(js) = "ok" <=>
            /\ b.magicOk /\ b.version = VERSION
            /\ b.sigFlag \in {0, 1} /\ b.encryptionType \in EncryptionTypes
            /\ b.nSigned = 0 => b.sigFlag = 0)
  BY HeaderChecks
<1> HIDE DEF c, tail, js, rs
<1>5. <<c>> \in Seq(Checks) /\ (FirstFailure(<<c>>) = "ok" <=> ~c.fails)
  BY <1>2, PassesOne
<1>6. /\ <<c>> \o js \in Seq(Checks) /\ <<c>> \o rs \in Seq(Checks)
      /\ FirstFailure(<<c>> \o js) = FirstFailure(<<c>> \o rs)
      /\ FirstFailure(<<c>> \o js) = "ok" <=> ~c.fails /\ FirstFailure(js) = "ok"
  <2>1. <<c>> \o js \in Seq(Checks) /\ <<c>> \o rs \in Seq(Checks)
    BY <1>4, <1>5, ConcatProperties
  <2>2. /\ FirstFailure(<<c>> \o js) = IF FirstFailure(<<c>>) = "ok" THEN FirstFailure(js)
                                                                  ELSE FirstFailure(<<c>>)
        /\ FirstFailure(<<c>> \o rs) = IF FirstFailure(<<c>>) = "ok" THEN FirstFailure(rs)
                                                                  ELSE FirstFailure(<<c>>)
    BY <1>4, <1>5, FirstFailureConcat
  <2> QED BY <1>4, <1>5, <2>1, <2>2
<1>7. /\ FirstFailure(<<c>> \o js \o tail) = FirstFailure(<<c>> \o rs \o tail)
      /\ FirstFailure(<<c>> \o js \o tail) = "ok" <=>
           ~c.fails /\ FirstFailure(js) = "ok" /\ FirstFailure(tail) = "ok"
  <2> DEFINE p == <<c>> \o js
             q == <<c>> \o rs
  <2> HIDE DEF p, q
  <2>1. /\ p \in Seq(Checks) /\ q \in Seq(Checks) /\ FirstFailure(p) = FirstFailure(q)
        /\ FirstFailure(p) = "ok" <=> ~c.fails /\ FirstFailure(js) = "ok"
    BY <1>6 DEF p, q
  <2>2. /\ FirstFailure(p \o tail) = IF FirstFailure(p) = "ok" THEN FirstFailure(tail)
                                                             ELSE FirstFailure(p)
        /\ FirstFailure(q \o tail) = IF FirstFailure(q) = "ok" THEN FirstFailure(tail)
                                                             ELSE FirstFailure(q)
    BY <1>3, <2>1, FirstFailureConcat
  <2>3. /\ FirstFailure(p \o tail) = FirstFailure(q \o tail)
        /\ FirstFailure(p \o tail) = "ok" <=>
             ~c.fails /\ FirstFailure(js) = "ok" /\ FirstFailure(tail) = "ok"
    BY <2>1, <2>2
  <2> QED BY <2>3 DEF p, q
<1>8. b.len >= FIXED_HEADER_LEN + JsSignatureLength(b) => ~(b.len < FIXED_HEADER_LEN)
  BY DEF WireBytes, JsSignatureLength, SIG_SLOT_LEN, FIXED_HEADER_LEN
<1> QED BY <1>1, <1>2, <1>3, <1>4, <1>7, <1>8 DEF Parses

LEMMA SectionsAgree ==
  ASSUME NEW b \in WireBytes
  PROVE  JsSections(b) = RsSections(b)
<1>1. b.len \in Int /\ JsSignatureLength(b) \in Int /\ RsSignatureLen(b) = JsSignatureLength(b)
  BY DEF WireBytes, JsSignatureLength, RsSignatureLen, SIG_SLOT_LEN
<1>2. JsBodyEnd(b) = FIXED_HEADER_LEN + RsBodyLen(b) /\ RsBodyLen(b) \in Int
  BY <1>1 DEF JsBodyEnd, RsBodyLen, RsRest, FIXED_HEADER_LEN
<1>3. b.len = FIXED_HEADER_LEN + RsBodyLen(b) + RsSignatureLen(b)
  BY <1>1 DEF RsBodyLen, RsRest, FIXED_HEADER_LEN
<1>4. JsBodyEnd(b) - AEAD_TAG_LEN = FIXED_HEADER_LEN + (RsBodyLen(b) - AEAD_TAG_LEN)
  BY <1>2 DEF AEAD_TAG_LEN, FIXED_HEADER_LEN
<1> QED BY <1>2, <1>3, <1>4 DEF JsSections, RsSections

-----------------------------------------------------------------------------
(* Padding.  usize holds the pad-length field and the largest pad on every *)
(* 64-bit build; on a 32-bit build checked_add turns away what the         *)
(* TypeScript library accepts, but then usize does not hold the frame.     *)

UsizeHoldsPad == PAD_LEN_FIELD_LEN + MaxPad < UsizeModulus

PadFits(paddedLen, padLen) ==
  PAD_LEN_FIELD_LEN <= paddedLen /\ padLen <= paddedLen - PAD_LEN_FIELD_LEN

LEMMA JsRemovesPadding ==
  ASSUME NEW paddedLen \in Int, NEW padLen \in Nat
  PROVE  JsRemovePadding(paddedLen, padLen) = "ok" <=> PadFits(paddedLen, padLen)
<1> DEFINE p1 == Check(paddedLen < PAD_LEN_FIELD_LEN, "InvalidPadLength")
           p2 == Check(padLen > paddedLen - PAD_LEN_FIELD_LEN, "InvalidPadLength")
<1>1. p1 \in Checks /\ p2 \in Checks
  BY DEF Check, Checks, ErrorNames
<1>2. p1.fails <=> paddedLen < PAD_LEN_FIELD_LEN
  BY DEF Check
<1>3. p2.fails <=> padLen > paddedLen - PAD_LEN_FIELD_LEN
  BY DEF Check
<1>4. JsRemovePadding(paddedLen, padLen) = FirstFailure(<<p1, p2>>)
  BY DEF JsRemovePadding
<1> HIDE DEF p1, p2
<1>5. FirstFailure(<<p1, p2>>) = "ok" <=> ~p1.fails /\ ~p2.fails
  BY <1>1, PassesTwo
<1> QED BY <1>2, <1>3, <1>4, <1>5 DEF PadFits, PAD_LEN_FIELD_LEN

LEMMA RsRemovesPadding ==
  ASSUME NEW paddedLen \in Int, NEW padLen \in 0..MaxPad,
         UsizeHoldsPad \/ paddedLen < UsizeModulus
  PROVE  RsRemovePadding(paddedLen, padLen) = "ok" <=> PadFits(paddedLen, padLen)
<1> DEFINE p1 == Check(paddedLen < PAD_LEN_FIELD_LEN, "InvalidPadLength")
           p2 == Check(PAD_LEN_FIELD_LEN + padLen >= UsizeModulus, "InvalidPadLength")
           p3 == Check(PAD_LEN_FIELD_LEN + padLen > paddedLen, "InvalidPadLength")
<1>1. p1 \in Checks /\ p2 \in Checks /\ p3 \in Checks
  BY DEF Check, Checks, ErrorNames
<1>2. p1.fails <=> paddedLen < PAD_LEN_FIELD_LEN
  BY DEF Check
<1>3. p2.fails <=> PAD_LEN_FIELD_LEN + padLen >= UsizeModulus
  BY DEF Check
<1>4. p3.fails <=> PAD_LEN_FIELD_LEN + padLen > paddedLen
  BY DEF Check
<1>5. RsRemovePadding(paddedLen, padLen) = FirstFailure(<<p1, p2, p3>>)
  BY DEF RsRemovePadding
<1>6. PAD_LEN_FIELD_LEN + padLen >= UsizeModulus => PAD_LEN_FIELD_LEN + padLen > paddedLen
  BY PathAssumption, WireAssumption DEF UsizeHoldsPad, PAD_LEN_FIELD_LEN
<1> HIDE DEF p1, p2, p3
<1>7. FirstFailure(<<p1, p2, p3>>) = "ok" <=> ~p1.fails /\ ~p2.fails /\ ~p3.fails
  BY <1>1, PassesThree
<1>8. ~(paddedLen < PAD_LEN_FIELD_LEN) /\ ~(PAD_LEN_FIELD_LEN + padLen > paddedLen)
        <=> PadFits(paddedLen, padLen)
  BY PathAssumption DEF PadFits, PAD_LEN_FIELD_LEN
<1> QED BY <1>2, <1>3, <1>4, <1>5, <1>6, <1>7, <1>8

-----------------------------------------------------------------------------
(* Decoding.                                                               *)

\* What is authenticated has arrived as the encoder made it.
Authentic(s) ==
  /\ wire.sigFlag = 1 => s.signature = sent.signature
  /\ wire.encryptionType # NONE => s.payload = sent.payload /\ s.tag = sent.tag

LEMMA DecodesIff ==
  ASSUME NEW s, NEW r
  PROVE  Decode(r, s) = "ok" <=>
           Authentic(s) /\ RemovePadding(r, Size(s.payload), sent.padLen) = "ok"
<1> DEFINE removed == RemovePadding(r, Size(s.payload), sent.padLen)
           d1 == Check(wire.sigFlag = 1 /\ s.signature # sent.signature, "InvalidSignature")
           d2 == Check(/\ wire.encryptionType # NONE
                       /\ <<s.payload, s.tag>> # <<sent.payload, sent.tag>>, "AeadAuthFailed")
           d3 == Check(removed # "ok", "InvalidPadLength")
<1>1. Decode(r, s) = FirstFailure(<<d1, d2, d3>>)
  BY DEF Decode
<1>2. d1 \in Checks /\ d2 \in Checks /\ d3 \in Checks
  BY DEF Check, Checks, ErrorNames
<1>3. d1.fails <=> wire.sigFlag = 1 /\ s.signature # sent.signature
  BY DEF Check
<1>4. d2.fails <=> wire.encryptionType # NONE /\ <<s.payload, s.tag>> # <<sent.payload, sent.tag>>
  BY DEF Check
<1>5. d3.fails <=> removed # "ok"
  BY DEF Check
<1> HIDE DEF d1, d2, d3, removed
<1>6. FirstFailure(<<d1, d2, d3>>) = "ok" <=> ~d1.fails /\ ~d2.fails /\ ~d3.fails
  BY <1>2, PassesThree
<1>7. <<s.payload, s.tag>> = <<sent.payload, sent.tag>> <=>
        s.payload = sent.payload /\ s.tag = sent.tag
  OBVIOUS
<1> QED BY <1>1, <1>3, <1>4, <1>5, <1>6, <1>7 DEF Authentic, removed

\* Padding is removed by both libraries or by neither, so they decode alike.
LEMMA DecodersTwin ==
  ASSUME NEW s, Size(s.payload) \in Int, sent.padLen \in 0..MaxPad,
         UsizeHoldsPad \/ Size(s.payload) < UsizeModulus
  PROVE  Decode("js", s) = Decode("rust", s)
<1> DEFINE padded == Size(s.payload)
           pad == sent.padLen
<1>1. /\ padded \in Int /\ pad \in 0..MaxPad /\ pad \in Nat
      /\ UsizeHoldsPad \/ padded < UsizeModulus
  BY PathAssumption
<1> HIDE DEF padded, pad
<1>2. RemovePadding("js", padded, pad) = "ok" <=> RemovePadding("rust", padded, pad) = "ok"
  BY <1>1, JsRemovesPadding, RsRemovesPadding DEF RemovePadding
<1>3. (RemovePadding("js", padded, pad) # "ok") = (RemovePadding("rust", padded, pad) # "ok")
  BY <1>2
<1> QED BY <1>3 DEF Decode, padded, pad

LEMMA SectionsOfWire ==
  ASSUME wire \in WireBytes, NEW r \in Receivers
  PROVE  /\ Parse(r) = JsParse(wire) /\ Sections(r) = JsSections(wire)
         /\ JsSections(wire).payload[1] \in Int /\ JsSections(wire).payload[2] \in Int
<1>1. Parse(r) = JsParse(wire) /\ Sections(r) = JsSections(wire)
  BY ParsersAgree, SectionsAgree DEF Parse, Sections, Receivers
<1>2. JsBodyEnd(wire) \in Int
  BY DEF WireBytes, JsBodyEnd, JsSignatureLength, SIG_SLOT_LEN
<1> QED BY <1>1, <1>2 DEF JsSections, FIXED_HEADER_LEN, AEAD_TAG_LEN

\* What a receiver that accepts has found.
LEMMA AcceptedOutcome ==
  ASSUME wire \in WireBytes, NEW r \in Receivers, Outcome(r).error = "ok"
  PROVE  LET s == JsSections(wire) IN
         /\ Parses(wire)
         /\ Outcome(r).payload = s.payload /\ Outcome(r).tag = s.tag
         /\ Outcome(r).signature = s.signature
         /\ sent # None =>
              /\ Decode(r, s) = "ok"
              /\ Outcome(r).text = <<s.payload[1] + TextStart(r, sent.padLen), s.payload[2]>>
<1>1. Parse(r) = "ok"
  BY DEF Outcome
<1>2. Parses(wire)
  BY <1>1, SectionsOfWire, ParsersAgree
<1>3. Sections(r) = JsSections(wire)
  BY SectionsOfWire
<1>4. sent # None => Decode(r, Sections(r)) = "ok"
  BY <1>1 DEF Outcome
<1> QED BY <1>1, <1>2, <1>3, <1>4 DEF Outcome

LEMMA OutcomesAgree ==
  ASSUME wire \in WireBytes, sent = None \/ sent.padLen \in 0..MaxPad,
         UsizeHoldsPad \/ wire.len < UsizeModulus
  PROVE  Outcome("js") = Outcome("rust")
<1>1. /\ Parse("js") = Parse("rust") /\ Sections("js") = Sections("rust")
  BY SectionsOfWire DEF Receivers
<1>2. sent # None => Decode("js", Sections("js")) = Decode("rust", Sections("js"))
  <2>1. /\ Size(JsSections(wire).payload) \in Int
        /\ UsizeHoldsPad \/ Size(JsSections(wire).payload) < UsizeModulus
    <3>1. /\ wire.len \in Int /\ JsBodyEnd(wire) \in Int /\ JsBodyEnd(wire) <= wire.len
      BY DEF WireBytes, JsBodyEnd, JsSignatureLength, SIG_SLOT_LEN
    <3>2. /\ Size(JsSections(wire).payload) \in Int
          /\ Size(JsSections(wire).payload) <= wire.len
      BY <3>1 DEF Size, JsSections, FIXED_HEADER_LEN, AEAD_TAG_LEN
    <3> QED BY <3>1, <3>2, WireAssumption
  <2>2. Sections("js") = JsSections(wire)
    BY SectionsOfWire DEF Receivers
  <2> QED BY <2>1, <2>2, DecodersTwin
<1>3. \A n : TextStart("js", n) = TextStart("rust", n)
  BY DEF TextStart, JsTextStart, RsTextStart
<1> QED BY <1>1, <1>2, <1>3 DEF Outcome

-----------------------------------------------------------------------------
(* What arrives, and what is made of it.                                   *)

Verdicts ==
  /\ wire = None => \A r \in Receivers : verdict[r] = None
  /\ wire # None => wire \in WireBytes
  /\ DOMAIN verdict = Receivers
  /\ \A r \in Receivers : verdict[r] # None => verdict[r] = Outcome(r)

EncodedLen(sender, padLen, textLen, encryptionType, sigFlag) ==
  SerializedLen(sender, PaddedLen(sender, padLen, textLen), encryptionType, sigFlag)

LEMMA PaddedIsNatural ==
  ASSUME NEW sender, NEW padLen \in 0..MaxPad, NEW textLen \in 0..MaxText
  PROVE  PaddedLen(sender, padLen, textLen) \in Nat
<1>1. padLen \in Nat /\ textLen \in Nat
  BY PathAssumption
<1>2. (PAD_LEN_FIELD_LEN + padLen) % UsizeModulus \in Nat
  BY <1>1, WireAssumption DEF PAD_LEN_FIELD_LEN
<1> QED BY <1>1, <1>2 DEF PaddedLen, JsPaddedLen, RsPaddedLen, PAD_LEN_FIELD_LEN

LEMMA LengthIsNatural ==
  ASSUME NEW sender, NEW padLen \in 0..MaxPad, NEW textLen \in 0..MaxText,
         NEW encryptionType, NEW sigFlag
  PROVE  EncodedLen(sender, padLen, textLen, encryptionType, sigFlag) \in Nat
<1> QED BY PaddedIsNatural DEF EncodedLen, SerializedLen, JsSerializedLen, RsSerializedLen,
             FIXED_HEADER_LEN, AEAD_TAG_LEN, SIG_SLOT_LEN

LEMMA EncodesBytes ==
  ASSUME NEW sender \in Senders, NEW padLen \in 0..MaxPad, NEW textLen \in 0..MaxText,
         NEW nSigned \in NSigneds, NEW maybeSign \in BOOLEAN,
         NEW encryptionType \in EncryptionTypes,
         Encode(sender, padLen, textLen, nSigned, maybeSign, encryptionType)
  PROVE  wire' \in WireBytes
<1>1. EncodedLen(sender, padLen, textLen, encryptionType, SigFlag(nSigned, maybeSign)) \in Nat
  BY LengthIsNatural
<1>2. nSigned \in 0..255 /\ encryptionType \in 0..255 /\ SigFlag(nSigned, maybeSign) \in 0..255
      /\ VERSION \in 0..255
  BY PathAssumption DEF EncryptionTypes, SigFlag, VERSION
<1> QED BY <1>1, <1>2 DEF Encode, WireBytes, EncodedLen

LEMMA VerdictsInit == Init => Verdicts
BY DEF Init, Verdicts

LEMMA VerdictsStep == Verdicts /\ [Next]_vars => Verdicts'
<1> SUFFICES ASSUME Verdicts, [Next]_vars PROVE Verdicts'
  OBVIOUS
<1>1. ASSUME NEW sender \in Senders, NEW padLen \in 0..MaxPad, NEW textLen \in 0..MaxText,
             NEW nSigned \in NSigneds, NEW maybeSign \in BOOLEAN,
             NEW encryptionType \in EncryptionTypes,
             Encode(sender, padLen, textLen, nSigned, maybeSign, encryptionType)
      PROVE  Verdicts'
  <2>1. wire = None /\ verdict' = verdict /\ \A r \in Receivers : verdict[r] = None
    BY <1>1 DEF Encode, Verdicts
  <2>2. wire' \in WireBytes
    BY <1>1, EncodesBytes
  <2> QED BY <2>1, <2>2, PathAssumption DEF Verdicts
<1>2. ASSUME NEW b \in OtherBytes, Arrive(b) PROVE Verdicts'
  BY <1>2, PathAssumption DEF Arrive, Verdicts
<1>3. ASSUME wire # None, NEW n \in 0..wire.len, Cut(n) PROVE Verdicts'
  <2>1. wire \in WireBytes /\ n \in Nat
    BY <1>3 DEF Verdicts, WireBytes
  <2>2. wire' \in WireBytes
    BY <1>3, <2>1 DEF Cut, WireBytes
  <2> QED BY <1>3, <2>2, PathAssumption DEF Cut, Verdicts
<1>4. ASSUME NEW r \in Receivers, Receive(r) PROVE Verdicts'
  <2>1. \A q \in Receivers : Outcome(q)' = Outcome(q)
    BY <1>4 DEF Receive, Outcome, Parse, Sections, Decode
  <2>2. /\ wire' = wire /\ wire # None /\ DOMAIN verdict' = Receivers
        /\ \A q \in Receivers : verdict'[q] = IF q = r THEN Outcome(r) ELSE verdict[q]
    BY <1>4 DEF Receive, Verdicts
  <2> QED BY <2>1, <2>2 DEF Verdicts
<1>5. CASE UNCHANGED vars
  <2>1. \A q \in Receivers : Outcome(q)' = Outcome(q)
    BY <1>5 DEF vars, Outcome, Parse, Sections, Decode
  <2> QED BY <1>5, <2>1 DEF Verdicts, vars
<1> QED BY <1>1, <1>2, <1>3, <1>4, <1>5 DEF Next, Done

-----------------------------------------------------------------------------
(* What an encoder put in, and how its sections lie in the bytes.          *)

PadEnd(s) == FIXED_HEADER_LEN + PaddedLen(s.sender, s.padLen, s.textLen)
TagLen(w) == IF w.encryptionType # NONE THEN AEAD_TAG_LEN ELSE 0

\* w is the frame that s describes, or a prefix of it.
Made(s, w) ==
  /\ s.padLen \in 0..MaxPad /\ s.textLen \in 0..MaxText
  /\ w.magicOk /\ w.version = VERSION /\ w.sigFlag \in {0, 1}
  /\ w.encryptionType \in EncryptionTypes /\ ~w.signatureZero
  /\ w.nSigned = 0 => w.sigFlag = 0
  /\ s.payload = <<FIXED_HEADER_LEN, PadEnd(s)>>
  /\ s.tag = <<PadEnd(s), PadEnd(s) + TagLen(w)>>
  /\ s.signature = <<PadEnd(s) + TagLen(w), s.length>>
  /\ s.length = PadEnd(s) + TagLen(w) + JsSignatureLength(w)
  /\ w.len \in 0..s.length

Origin == sent # None => wire # None /\ Made(sent, wire)

LEMMA MadeCut ==
  ASSUME NEW s, NEW w \in WireBytes, Made(s, w), NEW n \in 0..w.len
  PROVE  Made(s, [w EXCEPT !.len = n])
<1> DEFINE v == [w EXCEPT !.len = n]
<1>1. /\ v.magicOk = w.magicOk /\ v.version = w.version /\ v.nSigned = w.nSigned
      /\ v.sigFlag = w.sigFlag /\ v.encryptionType = w.encryptionType
      /\ v.signatureZero = w.signatureZero /\ v.len = n
  BY DEF WireBytes
<1> HIDE DEF v
<1>2. TagLen(v) = TagLen(w) /\ JsSignatureLength(v) = JsSignatureLength(w)
  BY <1>1 DEF TagLen, JsSignatureLength
<1>3. w.len \in 0..s.length /\ s.length \in Int
  <2>1. PadEnd(s) \in Int
    BY PaddedIsNatural DEF Made, PadEnd, FIXED_HEADER_LEN
  <2>2. PadEnd(s) + TagLen(w) + JsSignatureLength(w) \in Int
    BY <2>1 DEF TagLen, JsSignatureLength, AEAD_TAG_LEN, SIG_SLOT_LEN
  <2> QED BY <2>2 DEF Made
<1>4. n \in 0..s.length
  BY <1>3
<1> QED BY <1>1, <1>2, <1>4 DEF Made, v

LEMMA PaddedLenExact ==
  ASSUME NEW sender, NEW padLen \in 0..MaxPad, NEW textLen \in 0..MaxText, UsizeHoldsPad
  PROVE  PaddedLen(sender, padLen, textLen) = PAD_LEN_FIELD_LEN + padLen + textLen
<1>1. padLen \in Nat /\ textLen \in Nat /\ PAD_LEN_FIELD_LEN + padLen \in Nat
  BY PathAssumption DEF PAD_LEN_FIELD_LEN
<1>2. PAD_LEN_FIELD_LEN + padLen < UsizeModulus
  BY PathAssumption, WireAssumption DEF UsizeHoldsPad, PAD_LEN_FIELD_LEN
<1>3. (PAD_LEN_FIELD_LEN + padLen) % UsizeModulus = PAD_LEN_FIELD_LEN + padLen
  BY <1>1, <1>2, WireAssumption
<1> QED BY <1>1, <1>3 DEF PaddedLen, JsPaddedLen, RsPaddedLen, PAD_LEN_FIELD_LEN

LEMMA OriginInit == Init => Origin
BY DEF Init, Origin

LEMMA OriginStep == Verdicts /\ Origin /\ [Next]_vars => Origin'
<1> SUFFICES ASSUME Verdicts, Origin, [Next]_vars PROVE Origin'
  OBVIOUS
<1>1. ASSUME NEW sender \in Senders, NEW padLen \in 0..MaxPad, NEW textLen \in 0..MaxText,
             NEW nSigned \in NSigneds, NEW maybeSign \in BOOLEAN,
             NEW encryptionType \in EncryptionTypes,
             Encode(sender, padLen, textLen, nSigned, maybeSign, encryptionType)
      PROVE  Origin'
  <2> DEFINE padded == PaddedLen(sender, padLen, textLen)
             sigFlag == SigFlag(nSigned, maybeSign)
             length == SerializedLen(sender, padded, encryptionType, sigFlag)
             tagLen == IF encryptionType # NONE THEN AEAD_TAG_LEN ELSE 0
             sigAt == FIXED_HEADER_LEN + padded + tagLen
  <2>1. /\ sent'.padLen = padLen /\ sent'.textLen = textLen /\ sent'.length = length
        /\ sent'.sender = sender
        /\ sent'.payload = <<FIXED_HEADER_LEN, FIXED_HEADER_LEN + padded>>
        /\ sent'.tag = <<FIXED_HEADER_LEN + padded, sigAt>>
        /\ sent'.signature = <<sigAt, length>>
    BY <1>1 DEF Encode
  <2>2. /\ wire'.len = length /\ wire'.magicOk /\ wire'.version = VERSION
        /\ wire'.nSigned = nSigned /\ wire'.sigFlag = sigFlag
        /\ wire'.encryptionType = encryptionType /\ ~wire'.signatureZero
    BY <1>1 DEF Encode
  <2>3. wire' # None
    BY <1>1, EncodesBytes, PathAssumption
  <2>4. padded \in Nat /\ padLen \in Nat /\ textLen \in Nat
    BY PaddedIsNatural, PathAssumption
  <2>5. /\ length = sigAt + (IF sigFlag = 1 THEN SIG_SLOT_LEN ELSE 0)
        /\ length \in Nat
    BY <2>4 DEF SerializedLen, JsSerializedLen, RsSerializedLen, FIXED_HEADER_LEN,
         AEAD_TAG_LEN, SIG_SLOT_LEN
  <2>6. sigFlag \in {0, 1} /\ (nSigned = 0 => sigFlag = 0)
    BY DEF SigFlag
  <2> HIDE DEF padded, sigFlag, length, tagLen
  <2>7. /\ TagLen(wire') = tagLen
        /\ JsSignatureLength(wire') = (IF sigFlag = 1 THEN SIG_SLOT_LEN ELSE 0)
    BY <2>2 DEF TagLen, JsSignatureLength, tagLen
  <2>8. PadEnd(sent') = FIXED_HEADER_LEN + padded
    BY <2>1 DEF PadEnd, padded
  <2>9. wire'.len \in 0..sent'.length
    BY <2>1, <2>2, <2>5
  <2>10. Made(sent', wire')
    BY <2>1, <2>2, <2>5, <2>6, <2>7, <2>8, <2>9 DEF Made
  <2> QED BY <2>3, <2>10 DEF Origin
<1>2. ASSUME NEW b \in OtherBytes, Arrive(b) PROVE Origin'
  BY <1>2 DEF Arrive, Origin
<1>3. ASSUME wire # None, NEW n \in 0..wire.len, Cut(n) PROVE Origin'
  <2>1. wire \in WireBytes /\ sent # None /\ Made(sent, wire) /\ sent' = sent
        /\ wire' = [wire EXCEPT !.len = n]
    BY <1>3 DEF Verdicts, Origin, Cut
  <2>2. Made(sent', wire')
    BY <2>1, MadeCut
  <2>3. wire' \in WireBytes
    BY <2>1 DEF WireBytes
  <2> QED BY <2>2, <2>3, PathAssumption DEF Origin
<1>4. ASSUME NEW r \in Receivers, Receive(r) PROVE Origin'
  BY <1>4 DEF Receive, Origin
<1>5. CASE UNCHANGED vars
  BY <1>5 DEF vars, Origin
<1> QED BY <1>1, <1>2, <1>3, <1>4, <1>5 DEF Next, Done

-----------------------------------------------------------------------------
(* The theorems.                                                           *)

LEMMA VerdictsAlways == Spec => []Verdicts
<1>1. Init => Verdicts
  BY VerdictsInit
<1>2. Verdicts /\ [Next]_vars => Verdicts'
  BY VerdictsStep
<1> QED BY <1>1, <1>2, PTL DEF Spec

LEMMA OriginAlways == Spec => [](Verdicts /\ Origin)
<1>1. Init => Verdicts /\ Origin
  BY VerdictsInit, OriginInit
<1>2. (Verdicts /\ Origin) /\ [Next]_vars => (Verdicts /\ Origin)'
  BY VerdictsStep, OriginStep
<1> QED BY <1>1, <1>2, PTL DEF Spec

\* The sections of a frame that parses, in numbers.
LEMMA Tiling ==
  ASSUME NEW b \in WireBytes, Parses(b)
  PROVE  LET s == JsSections(b) IN
         /\ s.payload[1] = FIXED_HEADER_LEN /\ s.payload[1] <= s.payload[2]
         /\ s.tag[1] = s.payload[2] /\ s.signature[1] = s.tag[2]
         /\ s.signature[2] = b.len
         /\ s.tag[2] - s.tag[1] = (IF b.encryptionType # NONE THEN AEAD_TAG_LEN ELSE 0)
         /\ s.signature[2] - s.signature[1] = (IF b.sigFlag = 1 THEN SIG_SLOT_LEN ELSE 0)
<1> DEFINE end == JsBodyEnd(b)
           sigLen == JsSignatureLength(b)
<1>1. /\ b.len \in Int /\ sigLen \in Int /\ end = b.len - sigLen
      /\ sigLen = (IF b.sigFlag = 1 THEN SIG_SLOT_LEN ELSE 0)
  BY DEF WireBytes, JsSignatureLength, JsBodyEnd, SIG_SLOT_LEN
<1>2. /\ b.len >= FIXED_HEADER_LEN + sigLen
      /\ b.encryptionType # NONE => end - FIXED_HEADER_LEN >= AEAD_TAG_LEN
  BY DEF Parses
<1>3. /\ JsSections(b).payload = <<FIXED_HEADER_LEN,
             IF b.encryptionType # NONE THEN end - AEAD_TAG_LEN ELSE end>>
      /\ JsSections(b).tag = <<IF b.encryptionType # NONE THEN end - AEAD_TAG_LEN ELSE end, end>>
      /\ JsSections(b).signature = <<end, b.len>>
  BY DEF JsSections
<1> HIDE DEF end, sigLen
<1>4. /\ end \in Int /\ FIXED_HEADER_LEN <= end /\ b.len - end = sigLen
  BY <1>1, <1>2 DEF FIXED_HEADER_LEN
<1> QED BY <1>1, <1>2, <1>3, <1>4 DEF FIXED_HEADER_LEN, AEAD_TAG_LEN

\* Once both libraries have received a byte string, their verdicts are the
\* same: the same error, or the same sections and the same plaintext.
THEOREM SameVerdict ==
  ASSUME UsizeHoldsPad
  PROVE  Spec => []DecodersAgree
<1>1. Verdicts /\ Origin => DecodersAgree
  <2> SUFFICES ASSUME Verdicts, Origin, Received("js"), Received("rust")
               PROVE  verdict["js"] = verdict["rust"]
    BY DEF DecodersAgree
  <2>1. verdict["js"] = Outcome("js") /\ verdict["rust"] = Outcome("rust")
    BY DEF Verdicts, Received, Receivers
  <2>2. wire \in WireBytes
    BY DEF Verdicts, Received, Receivers
  <2>3. sent = None \/ sent.padLen \in 0..MaxPad
    BY DEF Origin, Made
  <2> QED BY <2>1, <2>2, <2>3, OutcomesAgree
<1> QED BY <1>1, OriginAlways, PTL

(* The verdicts are the same on every build, with usize of any width, for  *)
(* bytes that such a build can hold: a pad length that checked_add turns   *)
(* away is longer than the frame (decode_plaintext_with_key_store).        *)
THEOREM SameVerdictWhatFits ==
  Spec => [](wire # None /\ wire.len < UsizeModulus => DecodersAgree)
<1>1. ASSUME Verdicts, Origin, wire # None, wire.len < UsizeModulus PROVE DecodersAgree
  <2>1. Outcome("js") = Outcome("rust")
    BY <1>1, OutcomesAgree DEF Verdicts, Origin, Made
  <2> QED BY <1>1, <2>1 DEF DecodersAgree, Received, Verdicts, Receivers
<1>2. Verdicts /\ Origin => (wire # None /\ wire.len < UsizeModulus => DecodersAgree)
  BY <1>1
<1> QED BY <1>2, OriginAlways, PTL

\* Header, payload, tag and signature of an accepted frame follow each other
\* without gap or overlap up to its end, whoever made the bytes.
THEOREM SectionsAlwaysTile == Spec => []SectionsTile
<1>1. Verdicts => SectionsTile
  <2> SUFFICES ASSUME Verdicts, NEW r \in Receivers, Accepted(r)
               PROVE  LET v == verdict[r] IN
      /\ v.payload[1] = FIXED_HEADER_LEN /\ v.payload[1] <= v.payload[2]
      /\ v.tag[1] = v.payload[2] /\ v.signature[1] = v.tag[2]
      /\ v.signature[2] = wire.len
      /\ Size(v.tag) = (IF wire.encryptionType # NONE THEN AEAD_TAG_LEN ELSE 0)
      /\ Size(v.signature) = (IF wire.sigFlag = 1 THEN SIG_SLOT_LEN ELSE 0)
    BY DEF SectionsTile
  <2>1. wire \in WireBytes /\ verdict[r] = Outcome(r) /\ Outcome(r).error = "ok"
    BY DEF Verdicts, Accepted, Received
  <2>2. /\ Parses(wire) /\ verdict[r].payload = JsSections(wire).payload
        /\ verdict[r].tag = JsSections(wire).tag
        /\ verdict[r].signature = JsSections(wire).signature
    BY <2>1, AcceptedOutcome
  <2> QED BY <2>1, <2>2, Tiling DEF Size
<1> QED BY <1>1, VerdictsAlways, PTL

\* A frame that arrives whole parses, into the sections the encoder made.
LEMMA WholeParses ==
  ASSUME NEW s, NEW w \in WireBytes, Made(s, w), w.len = s.length
  PROVE  /\ Parses(w)
         /\ JsSections(w).payload = s.payload /\ JsSections(w).tag = s.tag
         /\ JsSections(w).signature = s.signature
<1> DEFINE end == PadEnd(s)
           tagLen == TagLen(w)
           sigLen == JsSignatureLength(w)
<1>1. PaddedLen(s.sender, s.padLen, s.textLen) \in Nat
  BY PaddedIsNatural DEF Made
<1>2. /\ end \in Int /\ end >= FIXED_HEADER_LEN
      /\ tagLen \in Nat /\ tagLen = (IF w.encryptionType # NONE THEN AEAD_TAG_LEN ELSE 0)
      /\ sigLen \in Nat
  BY <1>1 DEF PadEnd, FIXED_HEADER_LEN, TagLen, AEAD_TAG_LEN, JsSignatureLength, SIG_SLOT_LEN
<1>3. w.len = end + tagLen + sigLen /\ JsBodyEnd(w) = w.len - sigLen
  BY DEF Made, JsBodyEnd
<1>4. /\ s.payload = <<FIXED_HEADER_LEN, end>> /\ s.tag = <<end, end + tagLen>>
      /\ s.signature = <<end + tagLen, w.len>>
  BY DEF Made
<1> HIDE DEF end, tagLen, sigLen
<1>5. JsBodyEnd(w) = end + tagLen
  BY <1>2, <1>3
<1>6. (IF w.encryptionType # NONE THEN JsBodyEnd(w) - AEAD_TAG_LEN ELSE JsBodyEnd(w)) = end
  BY <1>2, <1>5 DEF AEAD_TAG_LEN
<1>7. /\ w.len >= FIXED_HEADER_LEN + sigLen
      /\ w.encryptionType # NONE => JsBodyEnd(w) - FIXED_HEADER_LEN >= AEAD_TAG_LEN
  BY <1>2, <1>3, <1>5 DEF FIXED_HEADER_LEN, AEAD_TAG_LEN
<1>8. Parses(w)
  BY <1>7 DEF Parses, Made, sigLen
<1> QED BY <1>4, <1>5, <1>6, <1>8 DEF JsSections

LEMMA RemovesPadding ==
  ASSUME NEW r \in Receivers, NEW paddedLen \in Int, NEW padLen \in 0..MaxPad, UsizeHoldsPad
  PROVE  RemovePadding(r, paddedLen, padLen) = "ok" <=> PadFits(paddedLen, padLen)
<1>1. padLen \in Nat
  BY PathAssumption
<1>2. CASE r = "js"
  BY <1>1, <1>2, JsRemovesPadding DEF RemovePadding
<1>3. CASE r = "rust"
  BY <1>3, RsRemovesPadding DEF RemovePadding
<1> QED BY <1>2, <1>3 DEF Receivers

\* A frame that arrives whole is accepted by both libraries, whichever encoded
\* it, and yields the plaintext that went in.
THEOREM WholeFramesRoundTrip ==
  ASSUME UsizeHoldsPad
  PROVE  Spec => []RoundTrip
<1>1. Verdicts /\ Origin => RoundTrip
  <2> SUFFICES ASSUME Verdicts, Origin, NEW r \in Receivers, Whole, Received(r)
               PROVE  /\ Accepted(r)
                      /\ Size(verdict[r].text) = sent.textLen
                      /\ verdict[r].text[2] = sent.payload[2]
    BY DEF RoundTrip
  <2>1. wire \in WireBytes /\ verdict[r] = Outcome(r) /\ Made(sent, wire)
        /\ sent # None /\ wire.len = sent.length
    BY DEF Verdicts, Received, Origin, Whole
  <2> DEFINE s == JsSections(wire)
  <2>2. /\ Parses(wire) /\ s.payload = sent.payload /\ s.tag = sent.tag
        /\ s.signature = sent.signature
    BY <2>1, WholeParses
  <2>3. Parse(r) = "ok" /\ Sections(r) = s
    BY <2>1, <2>2, SectionsOfWire, ParsersAgree
  <2>4. /\ sent.padLen \in 0..MaxPad /\ sent.padLen \in Nat /\ sent.textLen \in Nat
        /\ sent.payload = <<FIXED_HEADER_LEN, PadEnd(sent)>>
        /\ PadEnd(sent) = FIXED_HEADER_LEN + (PAD_LEN_FIELD_LEN + sent.padLen + sent.textLen)
    BY <2>1, PathAssumption, PaddedLenExact DEF Made, PadEnd
  <2>5. /\ Size(s.payload) = PAD_LEN_FIELD_LEN + sent.padLen + sent.textLen
        /\ Size(s.payload) \in Int
    BY <2>2, <2>4 DEF Size, FIXED_HEADER_LEN, PAD_LEN_FIELD_LEN
  <2>6. RemovePadding(r, Size(s.payload), sent.padLen) = "ok"
    <3>1. PadFits(Size(s.payload), sent.padLen)
      BY <2>4, <2>5 DEF PadFits, PAD_LEN_FIELD_LEN
    <3> QED BY <2>4, <2>5, <3>1, RemovesPadding
  <2>7. Decode(r, s) = "ok"
    BY <2>2, <2>6, DecodesIff DEF Authentic
  <2>8. /\ Outcome(r).error = "ok"
        /\ Outcome(r).text = <<s.payload[1] + TextStart(r, sent.padLen), s.payload[2]>>
    BY <2>1, <2>3, <2>7 DEF Outcome
  <2>9. TextStart(r, sent.padLen) = PAD_LEN_FIELD_LEN + sent.padLen
    BY DEF TextStart, JsTextStart, RsTextStart
  <2>10. Size(verdict[r].text) = sent.textLen /\ verdict[r].text[2] = sent.payload[2]
    BY <2>1, <2>2, <2>4, <2>8, <2>9 DEF Size, FIXED_HEADER_LEN, PAD_LEN_FIELD_LEN
  <2> QED BY <2>1, <2>8, <2>10 DEF Accepted
<1> QED BY <1>1, OriginAlways, PTL

\* A frame cut short is never accepted when it was signed or encrypted; when
\* it was neither, what is delivered is the start of the plaintext.
THEOREM CutsAreDetected ==
  ASSUME UsizeHoldsPad
  PROVE  Spec => []CutDetected
<1>1. Verdicts /\ Origin => CutDetected
  <2> SUFFICES ASSUME Verdicts, Origin, NEW r \in Receivers,
                      sent # None, ~Whole, Accepted(r)
               PROVE  /\ wire.sigFlag = 0 /\ wire.encryptionType = NONE
                      /\ verdict[r].text[1] = sent.payload[2] - sent.textLen
                      /\ Size(verdict[r].text) \in 0..sent.textLen - 1
    BY DEF CutDetected
  <2> DEFINE s == JsSections(wire)
  <2>1. /\ wire \in WireBytes /\ verdict[r] = Outcome(r) /\ Outcome(r).error = "ok"
        /\ Made(sent, wire) /\ wire.len # sent.length
    BY DEF Verdicts, Accepted, Received, Origin, Whole
  <2>2. /\ Parses(wire) /\ Decode(r, s) = "ok"
        /\ verdict[r].text = <<s.payload[1] + TextStart(r, sent.padLen), s.payload[2]>>
    BY <2>1, AcceptedOutcome
  <2>3. Authentic(s) /\ RemovePadding(r, Size(s.payload), sent.padLen) = "ok"
    BY <2>2, DecodesIff
  <2>4. wire.sigFlag \in {0, 1} /\ sent.signature[2] = sent.length
        /\ sent.tag[2] = PadEnd(sent) + TagLen(wire)
        /\ sent.length = PadEnd(sent) + TagLen(wire) + JsSignatureLength(wire)
    BY <2>1 DEF Made
  <2>5. wire.sigFlag = 0
    <3>1. wire.sigFlag = 1 => s.signature = sent.signature
      BY <2>3 DEF Authentic
    <3>2. s.signature[2] = wire.len
      BY <2>1, <2>2, Tiling
    <3> QED BY <2>1, <2>4, <3>1, <3>2
  <2>6. sent.padLen \in 0..MaxPad /\ sent.padLen \in Nat /\ sent.textLen \in Nat
        /\ sent.payload = <<FIXED_HEADER_LEN, PadEnd(sent)>>
        /\ PadEnd(sent) = FIXED_HEADER_LEN + (PAD_LEN_FIELD_LEN + sent.padLen + sent.textLen)
        /\ wire.len \in 0..sent.length
    BY <2>1, PathAssumption, PaddedLenExact DEF Made, PadEnd
  <2>7. JsSignatureLength(wire) = 0 /\ PadEnd(sent) \in Int /\ TagLen(wire) \in Int
        /\ JsBodyEnd(wire) = wire.len /\ wire.len \in Nat
    BY <2>1, <2>5, <2>6 DEF JsSignatureLength, TagLen, AEAD_TAG_LEN, FIXED_HEADER_LEN,
         PAD_LEN_FIELD_LEN, JsBodyEnd, WireBytes
  <2>8. wire.encryptionType = NONE
    <3>1. wire.encryptionType # NONE => s.tag = sent.tag
      BY <2>3 DEF Authentic
    <3>2. s.tag[2] = wire.len
      BY <2>7 DEF JsSections
    <3>3. sent.tag[2] = sent.length
      BY <2>4, <2>7
    <3> QED BY <2>1, <3>1, <3>2, <3>3
  <2>9. s.payload = <<FIXED_HEADER_LEN, wire.len>>
    BY <2>7, <2>8 DEF JsSections
  <2>10. PadFits(wire.len - FIXED_HEADER_LEN, sent.padLen)
    <3>1. Size(s.payload) = wire.len - FIXED_HEADER_LEN /\ Size(s.payload) \in Int
      BY <2>7, <2>9 DEF Size, FIXED_HEADER_LEN
    <3> QED BY <2>3, <2>6, <3>1, RemovesPadding
  <2>11. verdict[r].text = <<FIXED_HEADER_LEN + (PAD_LEN_FIELD_LEN + sent.padLen), wire.len>>
    BY <2>2, <2>9 DEF TextStart, JsTextStart, RsTextStart
  <2>12. sent.length = PadEnd(sent)
    BY <2>4, <2>7, <2>8 DEF TagLen
  <2>13. verdict[r].text[1] = sent.payload[2] - sent.textLen
    BY <2>6, <2>11 DEF FIXED_HEADER_LEN, PAD_LEN_FIELD_LEN
  <2>14. Size(verdict[r].text) \in 0..sent.textLen - 1
    <3>1. wire.len < PadEnd(sent)
      BY <2>1, <2>6, <2>7, <2>12
    <3>2. Size(verdict[r].text) = wire.len - (FIXED_HEADER_LEN + (PAD_LEN_FIELD_LEN + sent.padLen))
      BY <2>11 DEF Size
    <3> QED BY <2>6, <2>7, <2>10, <3>1, <3>2
          DEF PadFits, FIXED_HEADER_LEN, PAD_LEN_FIELD_LEN
  <2> QED BY <2>5, <2>8, <2>13, <2>14
<1> QED BY <1>1, OriginAlways, PTL

===============================================================================
