---------------------------- MODULE MCPrimitives ----------------------------
(***************************************************************************)
(* The run of AES and of TweetNaCl: one of the two programs works, the     *)
(* other waits in an initial state.                                        *)
(***************************************************************************)
EXTENDS Aes, NaCl

VARIABLE program

\* Where AES waits: one of its initial states.
AesIdle ==
  /\ method = "cbc" /\ side = ENCRYPT /\ received = <<>> /\ sent = <<>>
  /\ secret = CHOOSE k \in Keys : TRUE
  /\ bits = CHOOSE b \in KeyBits : TRUE
  /\ iv0 = CHOOSE i \in IVs : TRUE
  /\ context = SetkeyEnc(ZeroCtx, secret, bits) /\ kept = FreshIo(iv0)

Init == NaClInit /\ \/ program = "aes" /\ AesInit
                    \/ program = "nacl" /\ AesIdle
Next ==
  /\ \/ program = "aes" /\ AesNext /\ UNCHANGED naclVars
     \/ program = "nacl" /\ NaClNext /\ UNCHANGED aesVars
  /\ UNCHANGED program
Spec == Init /\ [][Next]_<<program, aesVars, naclVars>>

-----------------------------------------------------------------------------
(* AES: the tables, the block cipher in both directions and what the modes *)
(* have sent so far are those of FIPS 197 and SP 800-38A, however the text *)
(* is cut into pieces, and the other side gets back what was sent.         *)
CiphersAreStandard ==
  program = "aes" => TablesAgree /\ CipherIsStandard /\ CiphertextIsStandard /\ RoundTrip

(* TweetNaCl: carried limbs compute in the field, both sides agree on a    *)
(* key, boxes and signatures are those of the definition, and what is      *)
(* opened is what was sent and nothing that was changed on the way.        *)
BoxesAreStandard ==
  program = "nacl" => FieldIsArithmetic /\ KeysAgree /\ BoxIsStandard /\ OpensWhatWasSent
-----------------------------------------------------------------------------
\* The instance that TLC checks.
Pattern(n) == Buffer(n, [i \in 1..n |-> (i * 29) % 256])

MCKeys == {Buffer(32, [i \in 1..32 |-> (i * 7) % 256])}
MCMessage == Buffer(34, [i \in 1..34 |-> (i * 37) % 256])
\* The counter 7, 255, ..., 255 carries through 15 bytes.
MCIVs == {Buffer(16, [i \in 1..16 |-> IF i = 1 THEN 7 ELSE 255]), Buffer(16, [i \in 1..16 |-> i])}

\* Two limbs of radix 256, the prime 2^15 - 19, a Montgomery curve over it and the Edwards curve that is
\* equivalent to it; its base point has the prime order 4099, whose two bytes are the L of modL.
MCEdL == <<3, 16>>
MCSeeds == {<<17, 34>>, <<200, 77>>}
MCTexts == {<<>>, Pattern(3), Pattern(97)}
MCNonces == {Pattern(24)}
MCOperands == {<<0, 0>>, <<237, 127>>, <<236, 255>>, <<-300, -20>>, <<218, 255>>, <<1755, 255>>}
MCWideOperands == {<<0, 0, 0, 0>>, <<13, 31, 31, 15>>, <<12, 31, 31, 31>>, <<-40, -9, -3, -5>>, <<63, 40, 50, 31>>,
                   <<26, 31, 31, 31>>}
=============================================================================
