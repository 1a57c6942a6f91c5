------------------------------ MODULE Decoders -------------------------------
(***************************************************************************)
(* The decoders of what a browser sends: ECDSA signatures, CBOR and        *)
(* authenticator data, DER elements and object identifiers, base64url.     *)
(* Each decoder is given every word of its tokens.                         *)
(***************************************************************************)
EXTENDS EcdsaDer

CONSTANTS
    MaxTokens,                             \* of a word, for each decoder
    Items, Numbers, MaxDepth,              \* of Cbor
    DataHeaders, Pieces, HashBytes, CounterBytes, AaguidBytes, MaxIdLength,   \* of AuthenticatorData, which extends it
    Elements, ArcBytes, LargestArc,        \* of Asn1
    Characters                             \* of Base64Url

Bytes == 0..255

ASSUME DecodersAssumption ==
    /\ Items \cup Numbers \cup DataHeaders \cup Pieces \cup Elements \cup ArcBytes \subseteq Seq(Bytes)
    /\ MaxDepth \in Nat
    /\ HashBytes \in Nat /\ CounterBytes \in Nat /\ AaguidBytes \in Nat
    /\ LargestArc \in Nat /\ LargestArc >= 127

VARIABLE decoder

AD == INSTANCE AuthenticatorData WITH Headers <- DataHeaders, Tokens <- Pieces, MaxTokens <- MaxTokens["authenticator data"]
DE == INSTANCE Asn1 WITH Tokens <- Elements, MaxTokens <- MaxTokens["der elements"]
DO == INSTANCE Asn1 WITH Tokens <- ArcBytes, MaxTokens <- MaxTokens["der oids"]
BU == INSTANCE Base64Url WITH text <- input, MaxLength <- MaxTokens["base64url"]

Decoders == DOMAIN MaxTokens

----------------------------------------------------------------------------
DecodersInit == decoder \in Decoders /\ tokens = 0 /\ IF decoder = "authenticator data" THEN AD!DataInit ELSE Init

DecodersNext ==
    /\ UNCHANGED decoder
    /\ \/ decoder = "signature" /\ Next
       \/ decoder = "cbor items" /\ tokens < MaxTokens[decoder] /\ \E token \in Items : AD!Append_(token)
       \/ decoder = "cbor numbers" /\ tokens < MaxTokens[decoder] /\ \E token \in Numbers : AD!Append_(token)
       \/ decoder = "authenticator data" /\ AD!Next
       \/ decoder = "der elements" /\ DE!Next
       \/ decoder = "der oids" /\ DO!Next
       \/ decoder = "base64url" /\ BU!Next /\ UNCHANGED tokens

DecodersSpec == DecodersInit /\ [][DecodersNext]_<<decoder, input, tokens>>

----------------------------------------------------------------------------
\* A signature in range is read, from one encoding only, and an object identifier
\* has one spelling (ecdsa-der.ts:10-22, 123-147, asn1.ts:121-147).
OneSpellingOnly ==
    /\ decoder = "signature" => OneEncoding /\ EverySignatureIsRead
    /\ decoder = "der oids" => DO!OneSpelling

\* What is read ends exactly where it ends: a CBOR item whatever follows it, and
\* an integer with every one of its bits, the key in authenticator data, which is
\* parsed again alone, the fields of the data, and the children of a DER element
\* (cbor.ts:103-104, 333-344, authenticator-data.ts:40, 139, asn1.ts:43-46).
BoundariesAreExact ==
    /\ decoder \in {"cbor items", "cbor numbers"} => AD!SelfDelimiting /\ AD!IntegersAreExact
    /\ decoder = "authenticator data" => AD!FieldsCoverTheData /\ AD!KeyStandsAlone
    /\ decoder = "der elements" => DE!ChildrenTile
==============================================================================
