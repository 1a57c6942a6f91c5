-------------------------- MODULE AuthenticatorData --------------------------
(***************************************************************************)
(* authenticatorData: a header of fixed size, then, as its flags say, the  *)
(* new credential, whose CBOR key says itself where it ends, and a CBOR    *)
(* map of extensions (server/crypto/authenticator-data.ts).  The virtual   *)
(* authenticator of the test kit writes it (testing/virtual-authenticator  *)
(* .ts:168-186).  The sizes of the fields are parameters.                  *)
(***************************************************************************)
EXTENDS Cbor

CONSTANTS
    Headers,          \* rpIdHash, flags and counter
    HashBytes,        \* 32
    CounterBytes,     \* 4
    AaguidBytes,      \* 16
    MaxIdLength       \* MAX_CREDENTIAL_ID_LENGTH

Set(flags, bit) == (flags \div bit) % 2 = 1
UP == 1
BE == 8
BS == 16
AT == 64
ED == 128

HeaderBytes == HashBytes + 1 + CounterBytes
IdAt == HeaderBytes + AaguidBytes + 2
Rest(b, at) == SubSeq(b, at + 1, Len(b))

\* Variant: without extensions the key is what is left.
KeyIsTheRest(b, at) == IF Set(b[HashBytes + 1], ED) THEN DecodeFirst(Rest(b, at)).next ELSE Len(b) - at

\* The key is parsed to find its end.
KeyLength(b, at) == DecodeFirst(Rest(b, at)).next

\* Variant: bytes after the last field are nobody's business.
LeftoverAllowed(end, b) == end > Len(b)

Leftover(end, b) == end # Len(b)

Refused == [ok |-> FALSE]

ParseAuthenticatorData(b) ==
    IF Len(b) < HeaderBytes THEN Refused ELSE
    LET flags == b[HashBytes + 1]
        idLength == 256 * b[IdAt - 1] + b[IdAt]
        keyAt == IdAt + idLength
        extensionsAt == IF Set(flags, AT) THEN keyAt + KeyLength(b, keyAt) ELSE HeaderBytes
        extensions == DecodeFirst(Rest(b, extensionsAt))
        end == extensionsAt + (IF Set(flags, ED) THEN extensions.next ELSE 0)
    IN  IF \/ Set(flags, BS) /\ ~Set(flags, BE)
           \/ Set(flags, AT) /\ \/ Len(b) < IdAt
                                \/ idLength \notin 1..MaxIdLength
                                \/ Len(b) < keyAt
                                \/ ~DecodeFirst(Rest(b, keyAt)).ok
           \/ Set(flags, ED) /\ extensions.value.type # "map"
           \/ Leftover(end, b)
          THEN Refused
          ELSE [ok         |-> TRUE,
                rpIdHash   |-> Take(b, 0, HashBytes),
                flags      |-> flags,
                signCount  |-> Take(b, HashBytes + 1, CounterBytes),
                aaguid     |-> IF Set(flags, AT) THEN Take(b, HeaderBytes, AaguidBytes) ELSE <<>>,
                id         |-> IF Set(flags, AT) THEN Take(b, IdAt, idLength) ELSE <<>>,
                key        |-> IF Set(flags, AT) THEN Take(b, keyAt, KeyLength(b, keyAt)) ELSE <<>>,
                extensions |-> IF Set(flags, ED) THEN Take(b, extensionsAt, extensions.next) ELSE <<>>]

\* buildAuthData: what the kit writes never has extensions.
BuildAuthData(p) ==
    p.rpIdHash \o <<p.flags>> \o p.signCount
    \o (IF Set(p.flags, AT) THEN p.aaguid \o <<Len(p.id) \div 256, Len(p.id) % 256>> \o p.id \o p.key ELSE <<>>)

DataInit == tokens = 0 /\ input \in Headers
DataSpec == DataInit /\ [][Next]_vars

----------------------------------------------------------------------------
\* What was parsed is all there was: written again it is the data, byte for
\* byte, and nothing of it lies outside the fields (authenticator-data.ts:139).
FieldsCoverTheData ==
    LET p == ParseAuthenticatorData(input) IN
    p.ok => BuildAuthData(p) \o p.extensions = input

\* The key that registration stores can be parsed on its own at every login
\* (authenticator-data.ts:40, cose.ts:254: decode refuses trailing bytes).
KeyStandsAlone ==
    LET p == ParseAuthenticatorData(input) IN
    p.ok /\ Set(p.flags, AT) => Decode(p.key).ok
=============================================================================
