----------------------------- MODULE MCWirePath -----------------------------
(***************************************************************************)
(* Small instances of WirePath.  The byte strings no encoder made have     *)
(* lengths on both sides of every length the parsers compare with, and     *)
(* header fields on both sides of every range they check.                  *)
(***************************************************************************)
EXTENDS WirePath

BoundaryBytes ==
  [ len : {0, 16, 17, 18, 32, 33, 80, 81, 96, 97}, magicOk : BOOLEAN,
    version : {0, 1, 2}, nSigned : {0, 1, 255}, sigFlag : {0, 1, 2},
    encryptionType : {0, 1, 2, 3}, signatureZero : BOOLEAN ]

=============================================================================
