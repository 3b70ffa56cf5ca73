---------------------------- MODULE MCDecrypter -----------------------------
(***************************************************************************)
(* Small instances of Decrypter.  A broadcaster with nSigned = 2 sealed    *)
(* frames 0 to 3 under key id "a" with key K1; the receiver also meets a   *)
(* frame of key id "b", an unencrypted frame, and damaged copies.          *)
(***************************************************************************)
EXTENDS Decrypter

Intact(k, n, flag, key) ==
  [parses |-> TRUE, keyId |-> k, ctr |-> n, nSigned |-> 2, sigFlag |-> flag,
   encrypted |-> TRUE, sealKey |-> key, sigValid |-> TRUE, padValid |-> TRUE]

S0 == Intact("a", 0, 1, "K1")
U1 == Intact("a", 1, 0, "K1")
S2 == Intact("a", 2, 1, "K1")
U3 == Intact("a", 3, 0, "K1")
\* The same position sealed after a rotation to K2.
R2 == Intact("a", 2, 1, "K2")
\* Another key id, whose counters run on their own.
B1 == Intact("b", 1, 0, "K1")
\* Damage in transit: header, signature, ciphertext; and a bad pad length.
Truncated == [S0 EXCEPT !.parses = FALSE]
BadSignature == [S2 EXCEPT !.sigValid = FALSE]
BadTag == [U3 EXCEPT !.sealKey = NoKey]
BadPad == [U3 EXCEPT !.padValid = FALSE]
\* A broadcaster without signing and without encryption.
Plain2 == [U1 EXCEPT !.ctr = 2, !.nSigned = 0, !.encrypted = FALSE]

BroadcastFrames == {S0, U1, S2, U3}
DamagedFrames == {S0, U1, R2, B1, Plain2, Truncated, BadSignature, BadTag, BadPad}
LiveFrames == {S0, U1, Truncated, BadSignature, BadTag, Plain2}

=============================================================================
