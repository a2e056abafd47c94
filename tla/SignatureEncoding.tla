--------------------------- MODULE SignatureEncoding ---------------------------
(***************************************************************************)
(* An installation signature on its way from the macOS keychain to a       *)
(* request (KeychainInstallationKey::signSha256): the system hands out the *)
(* pair (r, s) as DER integers, the client turns it into two magnitudes of *)
(* fixed width.                                                            *)
(*                                                                         *)
(* A magnitude is a sequence of Width bytes, the most significant first.   *)
(* An encoding is the contents of its two integers: tags and lengths never *)
(* need more than one byte each and are left out.                          *)
(***************************************************************************)
EXTENDS Naturals, Sequences

CONSTANTS
    Width,   \* bytes of a magnitude: 32
    Half     \* bytes below it have a clear high bit: 128

Byte      == 0 .. 2 * Half - 1
Magnitude == {m \in [1 .. Width -> Byte] : \E i \in 1 .. Width : m[i] # 0}

VARIABLES
    stage,       \* how far signSha256 is
    signature,   \* the pair (r, s) the key makes
    encoding,    \* the system's encoding of it
    result       \* what the client makes of that: a pair, or <<>>

vars == <<stage, signature, encoding, result>>

-----------------------------------------------------------------------------
(* p1363ToDer, the one encoding DER allows.                                *)

\* trim: the first byte that is written.
Offset(m) == CHOOSE i \in 1 .. Width :
                /\ m[i] # 0 \/ i = Width
                /\ \A j \in 1 .. i - 1 : m[j] = 0

Trimmed(m) == SubSeq(m, Offset(m), Width)

\* writeInteger: a magnitude with the high bit set gets a leading zero.
WriteInteger(m) ==
    IF Trimmed(m)[1] >= Half THEN <<0>> \o Trimmed(m) ELSE Trimmed(m)

P1363ToDer(pair) == <<WriteInteger(pair[1]), WriteInteger(pair[2])>>

-----------------------------------------------------------------------------
(* derToP1363.                                                             *)

\* readInteger wants a leading zero of an integer one byte too long, and
\* none of any other.
Readable(octets) ==
    /\ Len(octets) \in 1 .. Width + 1
    /\ (octets[1] = 0) = (Len(octets) = Width + 1)

ReadInteger(octets) == IF Len(octets) = Width + 1 THEN Tail(octets) ELSE octets

Padded(octets) ==
    [i \in 1 .. Width |-> IF i <= Width - Len(octets) THEN 0
                          ELSE octets[i - (Width - Len(octets))]]

DerToP1363(der) ==
    IF Readable(der[1]) /\ Readable(der[2])
    THEN <<Padded(ReadInteger(der[1])), Padded(ReadInteger(der[2]))>>
    ELSE <<>>

-----------------------------------------------------------------------------
(* signSha256.                                                             *)

Init ==
    /\ stage = "signing"
    /\ signature \in Magnitude \X Magnitude
    /\ encoding = <<>>
    /\ result = <<>>

CreateSignature ==
    /\ stage = "signing"
    /\ stage' = "encoded"
    /\ encoding' = P1363ToDer(signature)
    /\ UNCHANGED <<signature, result>>

\* An empty result is thrown as an error.
Decode ==
    /\ stage = "encoded"
    /\ stage' = "decoded"
    /\ result' = DerToP1363(encoding)
    /\ UNCHANGED <<signature, encoding>>

Next == CreateSignature \/ Decode

Spec == Init /\ [][Next]_vars

(***************************************************************************)
(* Every signature the key makes reaches the request as it was made:       *)
(* derToP1363 gives up only an encoding that "is not a minimal ECDSA       *)
(* value", and the system's encodings are minimal.                         *)
(***************************************************************************)
SignatureSurvives == stage = "decoded" => result = signature
==============================================================================
