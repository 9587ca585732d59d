---------------------------------- MODULE Jws ----------------------------------
(***************************************************************************)
(* Authentication of an update manifest                                    *)
(* (AzureIoTJWS_ManifestAuthenticate, azure_iot_jws_mbedtls.c).            *)
(*                                                                         *)
(* The manifest comes with a JSON Web Signature: header, payload and       *)
(* signature.  The header carries the signing key, itself a signed         *)
(* document (the JWK), signed by a root key the device knows; the payload  *)
(* carries the SHA-256 of the manifest.  The function decodes all of it    *)
(* into one scratch buffer, using the second part of the buffer twice, and *)
(* each action below is one section of it.  The buffer belongs to the      *)
(* caller and keeps its content from one call to the next.                 *)
(*                                                                         *)
(* Base64 text is the value it decodes to, with the length of that value   *)
(* and whether it decodes at all; a signature names the key that made it   *)
(* and what was signed; hashing and RSA are exact (mbedTLS, external).     *)
(***************************************************************************)
EXTENDS ScratchBuffer, JsonReader

CONSTANTS
    RootKeys,           \* the keys passed to the function: xADURootKeys
    RootKeyLength,      \* bytes of their modulus: ulRootKeyNLength
    Manifests,          \* the manifests that exist
    Documents           \* the JSON Web Signatures that come with them

RSA3072_SIZE                 == 384
SHA256_SIZE                  == 32
JWS_HEADER_SIZE              == 1400
JWS_PAYLOAD_SIZE             == 60
JWK_HEADER_SIZE              == 48
JWK_PAYLOAD_SIZE             == 700
SIGNATURE_SIZE               == 400
SIGNING_KEY_E_SIZE           == 10
SHA_CALCULATION_SCRATCH_SIZE == RSA3072_SIZE + SHA256_SIZE

\* Mutant: the calculation is thought to need room for the hash only.
SCRATCH_BUFFER_SIZE_NoRSA ==
    JWS_HEADER_SIZE + JWK_HEADER_SIZE + JWK_PAYLOAD_SIZE + SIGNATURE_SIZE
      + RSA3072_SIZE + SIGNING_KEY_E_SIZE + SHA256_SIZE

SCRATCH_BUFFER_SIZE ==
    JWS_HEADER_SIZE + JWK_HEADER_SIZE + JWK_PAYLOAD_SIZE + SIGNATURE_SIZE
      + RSA3072_SIZE + SIGNING_KEY_E_SIZE + SHA_CALCULATION_SCRATCH_SIZE

\* Where the function puts what.  The regions from JWKHeader on are given up
\* after the first signature has been verified, and used again from JWSPayload
\* on; the calculation buffer keeps its place through both.
JWSHeaderAt      == 0
JWKPayloadAt     == JWS_HEADER_SIZE
ReusableRoot     == JWS_HEADER_SIZE + JWK_PAYLOAD_SIZE
JWKHeaderAt      == ReusableRoot
JWKSignatureAt   == JWKHeaderAt + JWK_HEADER_SIZE
CalculationAt    == JWKSignatureAt + SIGNATURE_SIZE
JWSPayloadAt     == ReusableRoot
JWSSignatureAt   == JWSPayloadAt + JWS_PAYLOAD_SIZE
KeyNAt           == JWSSignatureAt + SIGNATURE_SIZE
KeyEAt           == KeyNAt + RSA3072_SIZE
ManifestSHAAt    == KeyEAt + SIGNING_KEY_E_SIZE
ParsedSHAAt      == ManifestSHAAt + SHA256_SIZE

VARIABLES
    scratch,            \* pucScratchBuffer: pieces, as ScratchBuffer has them
    call                \* the call being executed: where it is and its context

jwsVars == <<scratch, call>>

\* A span into a document decoded in the scratch buffer: where that document
\* is, and the token of it that the span covers.
Span(at, length, reader) ==
    [at |-> at, length |-> length, doc |-> reader.doc, token |-> CurrentToken(reader)]

NoSpan == Span(0, 0, Reader(<< >>))

\* What later sections use of prvJWSValidationContext_t and of the function's
\* own variables; the context is zeroed at the start of every call.
NoContext == [headerLength |-> 0, reader |-> Reader(<< >>), jwk |-> NoSpan,
              jwkHeaderLength |-> 0, jwkPayloadLength |-> 0, root |-> NoValue,
              n |-> NoSpan, e |-> NoSpan, alg |-> NoSpan,
              nLength |-> 0, eLength |-> 0, jwsPayloadLength |-> 0]

Idle == [at |-> "Idle", manifest |-> NoValue, doc |-> NoValue, cx |-> NoContext]

JwsInit == scratch = {} /\ call = Idle

Goto(at, cx) == call' = [call EXCEPT !.at = at, !.cx = cx]
Fail         == Goto("Failed", NoContext)

(***************************************************************************)
(* Base64 decoding of a part of a document into a region.  Text too long   *)
(* for the region is refused before anything is written; text that is not  *)
(* Base64 is found out when some of it has been written.                   *)
(***************************************************************************)
Decodes(text, size) == text.valid /\ text.length <= size

\* How much of the region is written.
Written(text, size) ==
    IF text.length \notin 0 .. size THEN 0 ELSE IF text.valid THEN text.length ELSE 1

Decoded(buffer, text, lo, size) ==
    LET written == Written(text, size)
    IN  IF written = 0 THEN buffer
        ELSE Write(buffer, lo, lo + written, IF text.valid THEN text.value ELSE Garbage)

\* Exactly two dots, the second not the last character.
Splits(doc) == doc.dots = 2 /\ doc.signature.length > 0

(***************************************************************************)
(* Each prvFind... starts with calls of NextToken, to the beginning of the *)
(* object and to its first name.  The search for the signed key makes only *)
(* one of them, so that the first member of the header is passed over.     *)
(***************************************************************************)
FirstName(r) == Moved(Moved(r))

StringFound(r, text) ==
    LET found == Find(r, text)
    IN  IF found.result = "Success" /\ TokenType(found.reader) = "String"
        THEN found ELSE [result |-> "Failed", reader |-> r]

prvFindSJWKValue(r)    == StringFound(Moved(r), "sjwk")
prvFindRootKeyValue(r) == StringFound(FirstName(r), "kid")
prvFindManifestSHA(r)  == StringFound(FirstName(r), "sha256")

(***************************************************************************)
(* The modulus, the exponent and the algorithm, in whatever order they     *)
(* come.  The loop goes on until it has all three: the value of a part is  *)
(* taken and moved past, not skipped; any other member is passed over.  An *)
(* empty part counts as none, and one that comes again replaces the first. *)
(***************************************************************************)
KeyParts == {"n", "e", "alg"}

IsEmpty(token) ==
    token.kind = "String" /\ token.text = ""
      /\ (token.value = NoValue \/ token.value.length = 0)

\* The loop is at a token, or at 0 when a call has failed; a part is the
\* position of its value, or 0.
HasAll(s) == \A p \in KeyParts : s[p] # 0

KeyPartsIteration(doc, s) ==
    LET r     == [doc |-> doc, at |-> s.at]
        value == Moved(r)
        part  == {p \in KeyParts : TokenIsTextEqual(r, p)}
        past  == IF part = {} THEN SkipChildren(value) ELSE value
        next  == IF AtEnd(past) THEN 0 ELSE past.at + 1
    IN  IF s.at = 0 \/ HasAll(s) THEN s
        ELSE IF AtEnd(r) THEN [s EXCEPT !.at = 0]
        ELSE [q \in DOMAIN s |-> IF q = "at" THEN next
                                ELSE IF q \notin part THEN s[q]
                                ELSE IF IsEmpty(CurrentToken(value)) THEN 0 ELSE value.at]

\* Every iteration moves the reader: there are no more of them than tokens.
prvFindKeyParts(r) ==
    LET after[k \in 0 .. Len(r.doc)] ==
          IF k = 0 THEN [at |-> FirstName(r).at, n |-> 0, e |-> 0, alg |-> 0]
                   ELSE KeyPartsIteration(r.doc, after[k - 1])
    IN  after[Len(r.doc)]

\* A reader over [at, at + length) of the scratch buffer.  Bytes that are not
\* the text of a document have no token.
ReaderOver(at, length) ==
    LET text == Content(scratch, at, at + length)
    IN  Reader(IF text = Garbage THEN << >> ELSE text)

\* What a span shows now: its token, unless the document under it has gone.
Overwritten == [valid |-> FALSE, length |-> 1, value |-> Garbage]

Intact(span) == Holds(scratch, span.at, span.at + span.length, span.doc)

TextOf(span) == IF Intact(span) THEN span.token.value ELSE Overwritten

(***************************************************************************)
(* prvJWS_RS256Verify.  The key is copied out of its region before the     *)
(* hash of the input is written; the signature is read after.  As much is  *)
(* read of it as the key is long, whatever the signature's own length.     *)
(***************************************************************************)
\* Mutant: the hash is calculated before the key is imported.
ImportedAfterHash(buffer, afterHash) == afterHash

Imported(buffer, afterHash) == buffer

SHA256(input) == [hashOf |-> input]

WithHash(buffer, input) ==
    Write(buffer, CalculationAt, CalculationAt + SHA256_SIZE, SHA256(input))

\* mbedtls_rsa_import_raw, _complete and _check_pubkey: modulus and exponent
\* that do not belong together are no key.
IsKey(n, e) ==
    /\ n # Garbage /\ DOMAIN n = {"modulusOf"}
    /\ e = [exponentOf |-> n.modulusOf]

\* Mutant: the signature is not looked at.
SignatureOfAnyone(signature, by, input) == TRUE

SignatureOf(signature, by, input) ==
    signature # Garbage /\ signature = [by |-> by, over |-> input]

(***************************************************************************)
(* The call.                                                               *)
(***************************************************************************)
ManifestAuthenticate(manifest, doc) ==
    /\ call.at = "Idle"
    /\ call' = [at |-> IF Splits(doc) THEN "DecodeHeader" ELSE "Failed",
                manifest |-> manifest, doc |-> doc, cx |-> NoContext]
    /\ UNCHANGED scratch

DecodeHeader ==
    LET text == call.doc.header
    IN  /\ call.at = "DecodeHeader"
        /\ scratch' = Decoded(scratch, text, JWSHeaderAt, JWS_HEADER_SIZE)
        /\ IF Decodes(text, JWS_HEADER_SIZE)
           THEN Goto("FindSJWK", [call.cx EXCEPT !.headerLength = text.length])
           ELSE Fail

FindSJWK ==
    LET length == call.cx.headerLength
        found  == prvFindSJWKValue(ReaderOver(JWSHeaderAt, length))
    IN  /\ call.at = "FindSJWK"
        /\ IF found.result = "Success" /\ Splits(CurrentToken(found.reader).value)
           THEN Goto("DecodeJWK", [call.cx EXCEPT
                       !.reader = found.reader,
                       !.jwk    = Span(JWSHeaderAt, length, found.reader)])
           ELSE Fail
        /\ UNCHANGED scratch

\* prvBase64DecodeJWK.  It stops at the first part that does not decode, and
\* its caller does not look at what it returns.
DecodeJWK ==
    LET jwk       == TextOf(call.cx.jwk)
        header    == Decoded(scratch, jwk.header, JWKHeaderAt, JWK_HEADER_SIZE)
        payload   == Decoded(header, jwk.payload, JWKPayloadAt, JWK_PAYLOAD_SIZE)
        signature == Decoded(payload, jwk.signature, JWKSignatureAt, SIGNATURE_SIZE)
        headerOK  == Decodes(jwk.header, JWK_HEADER_SIZE)
        payloadOK == headerOK /\ Decodes(jwk.payload, JWK_PAYLOAD_SIZE)
    IN  /\ call.at = "DecodeJWK"
        /\ scratch' = IF payloadOK THEN signature
                      ELSE IF headerOK THEN payload ELSE header
        /\ Goto("ValidateRootKey",
                [call.cx EXCEPT
                   !.jwkHeaderLength  = IF headerOK THEN jwk.header.length ELSE 0,
                   !.jwkPayloadLength = IF payloadOK THEN jwk.payload.length ELSE 0])

\* prvValidateRootKey.  Without a header the reader is not initialised, which
\* is not noticed either: what the search then finds is anything.
ValidateRootKey ==
    LET length == call.cx.jwkHeaderLength
        found  == prvFindRootKeyValue(ReaderOver(JWKHeaderAt, length))
        kid    == CurrentToken(found.reader).text
    IN  /\ call.at = "ValidateRootKey"
        /\ \/ /\ length > 0 /\ found.result = "Success" /\ kid \in RootKeys
              /\ Goto("FindKeyParts", [call.cx EXCEPT !.root = kid])
           \/ /\ length > 0 /\ ~ (found.result = "Success" /\ kid \in RootKeys)
              /\ Fail
           \/ /\ length = 0
              /\ \E root \in RootKeys :
                   Goto("FindKeyParts", [call.cx EXCEPT !.root = root])
           \/ /\ length = 0
              /\ Fail
        /\ UNCHANGED scratch

\* Without a payload the reader is left where it was, in the header of the JWS.
FindKeyParts ==
    LET length  == call.cx.jwkPayloadLength
        reader  == IF length = 0 THEN call.cx.reader ELSE ReaderOver(JWKPayloadAt, length)
        parts   == prvFindKeyParts(reader)
        Part(p) == IF length = 0
                   THEN Span(JWSHeaderAt, call.cx.headerLength, [reader EXCEPT !.at = parts[p]])
                   ELSE Span(JWKPayloadAt, length, [reader EXCEPT !.at = parts[p]])
    IN  /\ call.at = "FindKeyParts"
        /\ IF parts.at # 0 /\ HasAll(parts)
           THEN Goto("VerifyJWK", [call.cx EXCEPT !.n = Part("n"), !.e = Part("e"),
                                                  !.alg = Part("alg")])
           ELSE Fail
        /\ UNCHANGED scratch

\* The JWK must be signed by the root key.  Its text is in the decoded header.
VerifyJWK ==
    LET jwk       == TextOf(call.cx.jwk)
        input     == <<jwk.header.value, jwk.payload.value>>
        hashed    == WithHash(scratch, input)
        signature == Content(hashed, JWKSignatureAt, JWKSignatureAt + RootKeyLength)
    IN  /\ call.at = "VerifyJWK"
        /\ scratch' = hashed
        /\ IF SignatureOf(signature, call.cx.root, input)
           THEN Goto("DecodeJWS", call.cx) ELSE Fail

\* prvBase64DecodeJWSHeaderAndPayload, over the regions of the JWK's parts.
DecodeJWS ==
    LET text      == call.doc
        payload   == Decoded(scratch, text.payload, JWSPayloadAt, JWS_PAYLOAD_SIZE)
        signature == Decoded(payload, text.signature, JWSSignatureAt, SIGNATURE_SIZE)
        payloadOK == Decodes(text.payload, JWS_PAYLOAD_SIZE)
    IN  /\ call.at = "DecodeJWS"
        /\ scratch' = IF payloadOK THEN signature ELSE payload
        /\ IF payloadOK /\ Decodes(text.signature, SIGNATURE_SIZE)
           THEN Goto("DecodeSigningKey",
                     [call.cx EXCEPT !.jwsPayloadLength = text.payload.length])
           ELSE Fail

\* prvBase64DecodeSigningKey: the modulus, then the exponent.
DecodeSigningKey ==
    LET n   == TextOf(call.cx.n)
        e   == TextOf(call.cx.e)
        nIn == Decoded(scratch, n, KeyNAt, RSA3072_SIZE)
        nOK == Decodes(n, RSA3072_SIZE)
    IN  /\ call.at = "DecodeSigningKey"
        /\ scratch' = IF nOK THEN Decoded(nIn, e, KeyEAt, SIGNING_KEY_E_SIZE) ELSE nIn
        /\ IF nOK /\ Decodes(e, SIGNING_KEY_E_SIZE)
           THEN Goto("VerifyJWS", [call.cx EXCEPT !.nLength = n.length,
                                                  !.eLength = e.length])
           ELSE Fail

\* The manifest's signature, by the key of the JWK and with its algorithm.
VerifyJWS ==
    LET input     == <<call.doc.header.value, call.doc.payload.value>>
        hashed    == WithHash(scratch, input)
        atImport  == Imported(scratch, hashed)
        n         == Content(atImport, KeyNAt, KeyNAt + call.cx.nLength)
        e         == Content(atImport, KeyEAt, KeyEAt + call.cx.eLength)
        signature == Content(hashed, JWSSignatureAt, JWSSignatureAt + call.cx.nLength)
        usable    == /\ Intact(call.cx.alg) /\ call.cx.alg.token.text = "RS256"
                     /\ IsKey(n, e)
    IN  /\ call.at = "VerifyJWS"
        /\ scratch' = IF usable THEN hashed ELSE scratch
        /\ IF usable /\ SignatureOf(signature, n.modulusOf, input)
           THEN Goto("VerifySHA", call.cx) ELSE Fail

\* Mutant: a hash is there, and so it matches.
SameHashAnyway(calculated, parsed) == TRUE

SameHash(calculated, parsed) == calculated = parsed

\* prvVerifySHAMatch.
VerifySHA ==
    LET withSHA == Write(scratch, ManifestSHAAt, ManifestSHAAt + SHA256_SIZE,
                         SHA256(call.manifest))
        length  == call.cx.jwsPayloadLength
        found   == prvFindManifestSHA(ReaderOver(JWSPayloadAt, length))
        text    == IF found.result = "Success" THEN CurrentToken(found.reader).value
                                               ELSE Overwritten
        parsed  == Decoded(withSHA, text, ParsedSHAAt, SHA256_SIZE)
    IN  /\ call.at = "VerifySHA"
        /\ scratch' = IF found.result = "Success" THEN parsed ELSE withSHA
        /\ IF /\ found.result = "Success"
              /\ Decodes(text, SHA256_SIZE) /\ text.length = SHA256_SIZE
              /\ SameHash(Content(parsed, ManifestSHAAt, ManifestSHAAt + SHA256_SIZE),
                          Content(parsed, ParsedSHAAt, ParsedSHAAt + SHA256_SIZE))
           THEN Goto("Authenticated", call.cx) ELSE Fail

Return ==
    /\ call.at \in {"Authenticated", "Failed"}
    /\ call' = Idle
    /\ UNCHANGED scratch

JwsStep == \/ DecodeHeader    \/ FindSJWK         \/ DecodeJWK \/ ValidateRootKey
           \/ FindKeyParts    \/ VerifyJWK        \/ DecodeJWS \/ DecodeSigningKey
           \/ VerifyJWS       \/ VerifySHA

(***************************************************************************)
(* What authentication means, said of the documents alone.  A signature is *)
(* one that was made: some document shows it.                              *)
(***************************************************************************)
JWKsOf(doc) == {t.value : t \in {u \in Valued("sjwk", doc.header.value) : u.kind = "String"}}

\* What a reader may take for the signed key of a header that is no object: the
\* string behind any text that is the name.
JWKsIn(header) ==
    {header[i + 1].value : i \in {j \in 1 .. Len(header) :
        /\ j + 1 \in 1 .. Len(header) /\ header[j + 1].kind = "String"
        /\ TokenIsTextEqual([doc |-> header, at |-> j], "sjwk")}}

SignaturesOf(doc) ==
    {doc.signature.value} \cup {jwk.signature.value : jwk \in JWKsIn(doc.header.value)}

Made == UNION {SignaturesOf(d) : d \in Documents}

Signed(by, input) == [by |-> by, over |-> input] \in Made

SignedBy(root, jwk) == Signed(root, <<jwk.header.value, jwk.payload.value>>)

(***************************************************************************)
(* Any text may come for a document; a text that is not JSON is, to the    *)
(* reader, the tokens in front of the fault.  Only an empty header or      *)
(* payload is left out: the reader would not be initialised.  What is      *)
(* taken on trust is what a root key signs, and what a key signs that a    *)
(* root key vouches for: objects, whose parts are strings, that decode     *)
(* into the room the device has.                                           *)
(***************************************************************************)
IsText(t) == t.valid \in BOOLEAN /\ t.length \in Nat /\ t.value # Garbage

AreTexts(tokens) == \A t \in tokens : t = Opaque(t.value) /\ IsText(t.value)

Fits(text, room) ==
    IsText(text) /\ Decodes(text, room) /\ text.length > 0 /\ IsObject(text.value)

IsKeyDocument(jwk) ==
    /\ Fits(jwk.header, JWK_HEADER_SIZE) /\ Fits(jwk.payload, JWK_PAYLOAD_SIZE)
    /\ AreTexts(Valued("n", jwk.payload.value)) /\ AreTexts(Valued("e", jwk.payload.value))
    /\ \A t \in Valued("alg", jwk.payload.value) : t.kind = "String"

IsUpdateDocument(doc) ==
    /\ IsObject(doc.header.value) /\ IsObject(doc.payload.value)
    /\ AreTexts(Valued("sha256", doc.payload.value))

ASSUME RootKeyLengthAssumption == RootKeyLength \in Nat \ {0}

ASSUME DocumentsAssumption ==
    \A doc \in Documents :
      /\ IsText(doc.header) /\ doc.header.length > 0 /\ Len(doc.header.value) \in Nat
      /\ IsText(doc.payload) /\ doc.payload.length > 0

ASSUME RootKeysAssumption ==
    /\ "" \notin RootKeys
    /\ \A doc \in Documents : \A jwk \in JWKsIn(doc.header.value), root \in RootKeys :
         SignedBy(root, jwk) => IsKeyDocument(jwk)

ASSUME SigningKeysAssumption ==
    \A doc \in Documents : \A jwk \in JWKsIn(doc.header.value), root \in RootKeys :
      SignedBy(root, jwk) =>
        \A n \in Valued("n", jwk.payload.value) :
          Signed(n.value.value.modulusOf, <<doc.header.value, doc.payload.value>>) =>
            IsUpdateDocument(doc)

\* A root key vouches for the signing key, the signing key for the hash of
\* the manifest.
Genuine(manifest, doc) ==
    \E jwk \in JWKsOf(doc), root \in RootKeys :
      /\ String(root) \in Valued("kid", jwk.header.value)
      /\ SignedBy(root, jwk)
      /\ String("RS256") \in Valued("alg", jwk.payload.value)
      /\ \E n \in Valued("n", jwk.payload.value) :
           Signed(n.value.value.modulusOf, <<doc.header.value, doc.payload.value>>)
      /\ \E sha \in Valued("sha256", doc.payload.value) :
           sha.value.value = SHA256(manifest)

\* Success is answered only for a manifest the update service has signed.  It
\* holds although the result of decoding the JWK is ignored, the length of a
\* signature is never compared and the scratch buffer still holds what earlier
\* calls left in it (AzureIoTJWS_ManifestAuthenticate).
AuthenticatedIsGenuine ==
    call.at = "Authenticated" => Genuine(call.manifest, call.doc)

\* One value only, though the member may come again.
Single(name, doc) == \A t, u \in Valued(name, doc) : t = u

\* The text is the key's signature of the input, and not shorter than the key.
Shows(text, by, input, length) ==
    /\ IsText(text) /\ Decodes(text, SIGNATURE_SIZE) /\ length <= text.length
    /\ text.value = [by |-> by, over |-> input]

\* The signing key as it should be: it has all parts, once each, they fit, and
\* it is the one the document is signed with; it shows the signature of the
\* root key that it names.
IsSigningKey(jwk, doc) ==
    LET parts  == jwk.payload.value
        signer == doc.signature.value.by
    IN  /\ Splits(jwk) /\ Single("kid", jwk.header.value)
        /\ \A kid \in Valued("kid", jwk.header.value) :
             Shows(jwk.signature, kid.text, <<jwk.header.value, parts>>, RootKeyLength)
        /\ parts[Len(parts)] = EndObject
        /\ \A p \in KeyParts : Single(p, parts) /\ \A t \in Valued(p, parts) : ~IsEmpty(t)
        /\ \A n \in Valued("n", parts) :
             /\ Decodes(n.value, RSA3072_SIZE) /\ n.value.value = [modulusOf |-> signer]
             /\ Shows(doc.signature, signer, <<doc.header.value, doc.payload.value>>,
                      n.value.length)
        /\ \E e \in Valued("e", parts) :
             Decodes(e.value, SIGNING_KEY_E_SIZE) /\ e.value.value = [exponentOf |-> signer]

\* A document as it should be: every part decodes and fits, and the signed key
\* is not the first member of the header.
WellFormed(doc) ==
    /\ Splits(doc)
    /\ Decodes(doc.header, JWS_HEADER_SIZE) /\ Decodes(doc.payload, JWS_PAYLOAD_SIZE)
    /\ doc.header.value[2] # Name("sjwk") /\ Single("sjwk", doc.header.value)
    /\ \A jwk \in JWKsOf(doc) : IsSigningKey(jwk, doc)
    /\ Single("sha256", doc.payload.value)
    /\ \A sha \in Valued("sha256", doc.payload.value) :
         Decodes(sha.value, SHA256_SIZE) /\ sha.value.length = SHA256_SIZE

\* A genuine document is not refused: no section has overwritten what a later
\* one reads, and nothing left by an earlier call gets in the way.
GenuineAuthenticates ==
    call.at = "Failed" =>
      ~ (Genuine(call.manifest, call.doc) /\ WellFormed(call.doc))

\* Nothing is written beyond the size callers are told to provide: the length
\* they pass, ulScratchBufferLength, is never looked at.
FitsScratch == Within(scratch, SCRATCH_BUFFER_SIZE)
================================================================================
