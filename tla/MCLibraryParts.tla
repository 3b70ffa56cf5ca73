--------------------------- MODULE MCLibraryParts ----------------------------
(***************************************************************************)
(* Four parts of the TypeScript library that share no state: the stream    *)
(* adapters, the key stores, the byte buffers of encrypt() and decrypt(),  *)
(* and what the AEAD and the signature of a frame cover.  A behaviour      *)
(* exercises the part it begins with; the others rest.                     *)
(***************************************************************************)
EXTENDS Streams

CONSTANTS KeyIds, Lengths, MaxCalls, MaxWrites, MaxFrames, CtrModulus

CONSTANTS
  SenderIds,     \* KeyIds of Binding
  SenderKey(_)   \* KeyOf of Binding

VARIABLES
  part,
  js, rs, chat, apart,
  aes, text, keyArray, bytes, setTo, stored, pc, given, padded, cryptoKey, box,
  dpc, payload, verified, opened,
  type, nSigned, nextCtr, sent, accepted

Keys == INSTANCE KeyStores
Buf == INSTANCE Buffers
Frame == INSTANCE Binding WITH KeyIds <- SenderIds, KeyOf <- SenderKey

ASSUME PartsAssumption ==
  /\ Lengths \subseteq Nat
  /\ Frame!BindingAssumption

\* All senders of the checked instance use one AEAD key.
OneKey(k) == 1

ofKeys == <<js, rs, chat, apart>>
ofBuffers == <<aes, text, keyArray, bytes, setTo, stored, pc, given, padded,
               cryptoKey, box, dpc, payload, verified, opened>>
ofFrames == <<type, nSigned, nextCtr, sent, accepted>>

MCInit ==
  /\ part \in {"streams", "keys", "buffers", "frames"}
  /\ Init /\ Keys!Init /\ Buf!Init /\ Frame!Init
  \* One initial state for a part that rests.
  /\ part # "buffers" => aes
  /\ part # "frames" => \A k \in SenderIds : type[k] = 0 /\ nSigned[k] = 0

Streaming(action) ==
  part = "streams" /\ action /\ UNCHANGED <<part, ofKeys, ofBuffers, ofFrames>>

MCNext ==
  \/ Streaming(Next)
  \/ part = "keys" /\ Keys!Next /\ UNCHANGED <<part, vars, ofBuffers, ofFrames>>
  \/ part = "buffers" /\ Buf!Next /\ UNCHANGED <<part, vars, ofKeys, ofFrames>>
  \/ part = "frames" /\ Frame!Next /\ UNCHANGED <<part, vars, ofKeys, ofBuffers>>

allVars == <<part, vars, ofKeys, ofBuffers, ofFrames>>

\* FairSpec for the behaviours about streams.
MCFairSpec ==
  /\ MCInit /\ [][MCNext]_allVars
  /\ WF_allVars(Streaming(Pull))
  /\ WF_allVars(Streaming(NextChunk \/ NextDone \/ NextFails))
  /\ WF_allVars(Streaming(ReturnSource)) /\ WF_allVars(Streaming(Finish))

-----------------------------------------------------------------------------
(* The properties of the other parts, as their modules state and explain   *)
(* them; those of the streams are of Streams itself.                       *)

\* Programs given the same texts hold the same keys.
ProgramsAgree == Keys!ProgramsAgree
\* A frame is sealed with the text and the key of its call.
SealsWhatItWasGiven == Buf!SealsWhatItWasGiven
\* What is opened is what was verified.
OpensWhatItVerified == Buf!OpensWhatItVerified
\* What the AEAD opens or a signature verifies is a frame that was sent.
AcceptedWasSent == Frame!AcceptedWasSent
\* A frame that arrives as it was sent is accepted.
IntactAccepted == Frame!IntactAccepted

=============================================================================
