------------------------------- MODULE JwsProofs -------------------------------
(***************************************************************************)
(* What AzureIoTJWS_ManifestAuthenticate finds out, for every set of keys  *)
(* and documents: lemmas about the scratch buffer, about the searches of   *)
(* the call, and the invariant of the call (JwsInv), step by step.         *)
(***************************************************************************)
EXTENDS Jws, JsonReaderTheorems

(***************************************************************************)
(* The scratch buffer.                                                     *)
(***************************************************************************)
\* A piece of the buffer, within its first `size' bytes.
IsPiece(p, size) ==
    /\ p = [base |-> p.base, lo |-> p.lo, hi |-> p.hi, what |-> p.what]
    /\ p.base \in Int /\ p.lo \in Int /\ p.hi \in Int
    /\ 0 <= p.lo /\ p.base <= p.lo /\ p.hi <= size

IsBuffer(buffer, size) == \A p \in buffer : IsPiece(p, size)

LEMMA WriteFits ==
    ASSUME NEW size \in Int, NEW buffer, IsBuffer(buffer, size),
           NEW lo \in Int, NEW hi \in Int, 0 <= lo, lo <= hi, hi <= size, NEW what
    PROVE  IsBuffer(Write(buffer, lo, hi, what), size)
<1>1. IsPiece(Piece(lo, lo, hi, what), size)
  BY DEF IsPiece, Piece
<1>2. ASSUME NEW p \in buffer, NEW q \in Remains(p, lo, hi)
      PROVE  IsPiece(q, size)
  <2>1. IsPiece(p, size)
    BY DEF IsBuffer
  <2> DEFINE h == IF p.hi < lo THEN p.hi ELSE lo
             l == IF p.lo > hi THEN p.lo ELSE hi
  <2>2. /\ h \in Int /\ h <= size
        /\ l \in Int /\ 0 <= l /\ p.base <= l
    BY <2>1 DEF IsPiece
  <2>3. \/ q = [p EXCEPT !.hi = h]
        \/ q = [p EXCEPT !.lo = l]
    BY DEF Remains
  <2>4. \/ q = [base |-> p.base, lo |-> p.lo, hi |-> h, what |-> p.what]
        \/ q = [base |-> p.base, lo |-> l, hi |-> p.hi, what |-> p.what]
    <3> HIDE DEF h, l
    <3> QED BY <2>1, <2>3 DEF IsPiece
  <2> HIDE DEF h, l
  <2> QED BY <2>1, <2>2, <2>4 DEF IsPiece
<1> QED BY <1>1, <1>2 DEF IsBuffer, Write

\* Decoding writes no more than the size of the region it is given.
LEMMA DecodedFits ==
    ASSUME NEW size \in Int, NEW buffer, IsBuffer(buffer, size),
           NEW text, NEW lo \in Int, NEW room \in Int,
           0 <= lo, 1 <= room, lo + room <= size
    PROVE  IsBuffer(Decoded(buffer, text, lo, room), size)
<1> DEFINE n == Written(text, room)
<1>1. n \in Int /\ 0 <= n /\ n <= room
  BY DEF Written
<1>2. CASE n = 0
  BY <1>2 DEF Decoded
<1>3. CASE n # 0
  <2> HIDE DEF n
  <2> DEFINE what == IF text.valid THEN text.value ELSE Garbage
  <2>1. Decoded(buffer, text, lo, room) = Write(buffer, lo, lo + n, what)
    BY <1>3 DEF Decoded, n
  <2> HIDE DEF what
  <2> QED BY <1>1, <2>1, WriteFits
<1> QED BY <1>2, <1>3

\* Every region of the function lies within the size callers are told.
LEMMA RegionsFit ==
    /\ SCRATCH_BUFFER_SIZE \in Int
    /\ \A r \in { <<JWSHeaderAt, JWS_HEADER_SIZE>>, <<JWKPayloadAt, JWK_PAYLOAD_SIZE>>,
                  <<JWKHeaderAt, JWK_HEADER_SIZE>>, <<JWKSignatureAt, SIGNATURE_SIZE>>,
                  <<CalculationAt, SHA256_SIZE>>, <<JWSPayloadAt, JWS_PAYLOAD_SIZE>>,
                  <<JWSSignatureAt, SIGNATURE_SIZE>>, <<KeyNAt, RSA3072_SIZE>>,
                  <<KeyEAt, SIGNING_KEY_E_SIZE>>, <<ManifestSHAAt, SHA256_SIZE>>,
                  <<ParsedSHAAt, SHA256_SIZE>> } :
         /\ r[1] \in Int /\ r[2] \in Int
         /\ 0 <= r[1] /\ 1 <= r[2] /\ r[1] + r[2] <= SCRATCH_BUFFER_SIZE
  BY DEF SCRATCH_BUFFER_SIZE, JWS_HEADER_SIZE, JWK_HEADER_SIZE, JWK_PAYLOAD_SIZE, SIGNATURE_SIZE,
         RSA3072_SIZE, SIGNING_KEY_E_SIZE, SHA_CALCULATION_SCRATCH_SIZE, SHA256_SIZE,
         JWS_PAYLOAD_SIZE, JWSHeaderAt, JWKPayloadAt, JWKHeaderAt, JWKSignatureAt, CalculationAt,
         ReusableRoot, JWSPayloadAt, JWSSignatureAt, KeyNAt, KeyEAt, ManifestSHAAt, ParsedSHAAt

LEMMA DecodingFits ==
    ASSUME NEW buffer, IsBuffer(buffer, SCRATCH_BUFFER_SIZE), NEW text
    PROVE  /\ IsBuffer(Decoded(buffer, text, JWSHeaderAt, JWS_HEADER_SIZE), SCRATCH_BUFFER_SIZE)
           /\ IsBuffer(Decoded(buffer, text, JWKPayloadAt, JWK_PAYLOAD_SIZE), SCRATCH_BUFFER_SIZE)
           /\ IsBuffer(Decoded(buffer, text, JWKHeaderAt, JWK_HEADER_SIZE), SCRATCH_BUFFER_SIZE)
           /\ IsBuffer(Decoded(buffer, text, JWKSignatureAt, SIGNATURE_SIZE), SCRATCH_BUFFER_SIZE)
           /\ IsBuffer(Decoded(buffer, text, JWSPayloadAt, JWS_PAYLOAD_SIZE), SCRATCH_BUFFER_SIZE)
           /\ IsBuffer(Decoded(buffer, text, JWSSignatureAt, SIGNATURE_SIZE), SCRATCH_BUFFER_SIZE)
           /\ IsBuffer(Decoded(buffer, text, KeyNAt, RSA3072_SIZE), SCRATCH_BUFFER_SIZE)
           /\ IsBuffer(Decoded(buffer, text, KeyEAt, SIGNING_KEY_E_SIZE), SCRATCH_BUFFER_SIZE)
           /\ IsBuffer(Decoded(buffer, text, ParsedSHAAt, SHA256_SIZE), SCRATCH_BUFFER_SIZE)
  BY RegionsFit, DecodedFits

LEMMA HashingFits ==
    ASSUME NEW buffer, IsBuffer(buffer, SCRATCH_BUFFER_SIZE), NEW input, NEW what
    PROVE  /\ IsBuffer(WithHash(buffer, input), SCRATCH_BUFFER_SIZE)
           /\ IsBuffer(Write(buffer, ManifestSHAAt, ManifestSHAAt + SHA256_SIZE, what),
                       SCRATCH_BUFFER_SIZE)
<1>1. /\ CalculationAt \in Int /\ SHA256_SIZE \in Int /\ ManifestSHAAt \in Int
      /\ 0 <= CalculationAt /\ 0 <= ManifestSHAAt /\ 1 <= SHA256_SIZE
      /\ CalculationAt + SHA256_SIZE <= SCRATCH_BUFFER_SIZE
      /\ ManifestSHAAt + SHA256_SIZE <= SCRATCH_BUFFER_SIZE
      /\ SCRATCH_BUFFER_SIZE \in Int
  BY RegionsFit
<1> DEFINE hash == SHA256(input)
<1>2. WithHash(buffer, input) = Write(buffer, CalculationAt, CalculationAt + SHA256_SIZE, hash)
  BY DEF WithHash
<1> HIDE DEF hash
<1>3. /\ CalculationAt + SHA256_SIZE \in Int /\ CalculationAt <= CalculationAt + SHA256_SIZE
      /\ ManifestSHAAt + SHA256_SIZE \in Int /\ ManifestSHAAt <= ManifestSHAAt + SHA256_SIZE
  BY <1>1
<1> QED BY <1>1, <1>2, <1>3, WriteFits

\* Every piece of the buffer that begins with its own first byte, at `lo', is of
\* that value; every piece written at `lo', what is left of it too, is of one of
\* those values.
Only(buffer, lo, what) == \A p \in buffer : p.base = lo /\ p.lo <= lo => p.what = what

Origin(buffer, lo, values) == \A p \in buffer : p.base = lo => p.what \in values

\* What is left of a piece keeps its base, its value and no byte it had not.
LEMMA RemainsOf ==
    ASSUME NEW size, NEW p, IsPiece(p, size), NEW lo \in Int, NEW hi \in Int,
           NEW q \in Remains(p, lo, hi)
    PROVE  /\ q.base = p.base /\ q.what = p.what /\ q.lo < q.hi
           /\ q.lo \in Int /\ q.hi \in Int
           /\ \/ q.lo = p.lo /\ q.hi <= lo
              \/ q.lo >= p.lo /\ q.lo >= hi
<1> DEFINE h == IF p.hi < lo THEN p.hi ELSE lo
           l == IF p.lo > hi THEN p.lo ELSE hi
<1>1. /\ h \in Int /\ h <= lo
      /\ l \in Int /\ l >= p.lo /\ l >= hi
      /\ p.lo \in Int /\ p.hi \in Int
  BY DEF IsPiece
<1>2. /\ q.lo < q.hi
      /\ q = [p EXCEPT !.hi = h] \/ q = [p EXCEPT !.lo = l]
  BY DEF Remains
<1>3. \/ q = [base |-> p.base, lo |-> p.lo, hi |-> h, what |-> p.what]
      \/ q = [base |-> p.base, lo |-> l, hi |-> p.hi, what |-> p.what]
  <2> HIDE DEF h, l
  <2> QED BY <1>2 DEF IsPiece
<1> HIDE DEF h, l
<1> QED BY <1>1, <1>2, <1>3

LEMMA InWrite ==
    ASSUME NEW buffer, NEW lo, NEW hi, NEW what, NEW q \in Write(buffer, lo, hi, what)
    PROVE  \/ q = Piece(lo, lo, hi, what)
           \/ \E p \in buffer : q \in Remains(p, lo, hi)
  BY DEF Write

\* What is written is there, and nothing else that begins there.
LEMMA OnlyWritten ==
    ASSUME NEW size, NEW buffer, IsBuffer(buffer, size),
           NEW lo \in Int, NEW hi \in Int, lo < hi, NEW what
    PROVE  /\ Only(Write(buffer, lo, hi, what), lo, what)
           /\ Holds(Write(buffer, lo, hi, what), lo, hi, what)
<1>1. ASSUME NEW q \in Write(buffer, lo, hi, what), q.base = lo, q.lo <= lo
      PROVE  q.what = what
  <2>1. CASE q = Piece(lo, lo, hi, what)
    BY <2>1 DEF Piece
  <2>2. ASSUME NEW p \in buffer, q \in Remains(p, lo, hi)
        PROVE  q.what = what
    <3>1. IsPiece(p, size)
      BY DEF IsBuffer
    <3>2. /\ q.base = p.base /\ q.lo < q.hi /\ q.lo \in Int /\ q.hi \in Int
          /\ (q.lo = p.lo /\ q.hi <= lo) \/ (q.lo >= p.lo /\ q.lo >= hi)
      BY <2>2, <3>1, RemainsOf
    <3> QED BY <1>1, <3>1, <3>2 DEF IsPiece
  <2> QED BY <2>1, <2>2, InWrite
<1>2. Piece(lo, lo, hi, what) \in Write(buffer, lo, hi, what)
  BY DEF Write
<1> QED BY <1>1, <1>2 DEF Only, Holds, Piece

\* What is written elsewhere changes nothing of that.
LEMMA OnlyKept ==
    ASSUME NEW size, NEW buffer, IsBuffer(buffer, size),
           NEW lo \in Int, NEW hi \in Int, NEW new,
           NEW at \in Int, at # lo, NEW what, Only(buffer, at, what)
    PROVE  Only(Write(buffer, lo, hi, new), at, what)
<1>1. ASSUME NEW q \in Write(buffer, lo, hi, new), q.base = at, q.lo <= at
      PROVE  q.what = what
  <2>1. q # Piece(lo, lo, hi, new)
    BY <1>1 DEF Piece
  <2>2. PICK p \in buffer : q \in Remains(p, lo, hi)
    BY <2>1, InWrite
  <2>3. IsPiece(p, size)
    BY DEF IsBuffer
  <2>4. q.base = p.base /\ q.what = p.what /\ q.lo \in Int /\ p.lo <= q.lo
    <3>1. p.lo \in Int
      BY <2>3 DEF IsPiece
    <3> QED BY <2>2, <2>3, <3>1, RemainsOf
  <2>5. p.lo <= at
    BY <1>1, <2>3, <2>4 DEF IsPiece
  <2> QED BY <1>1, <2>4, <2>5 DEF Only
<1> QED BY <1>1 DEF Only

LEMMA OriginKept ==
    ASSUME NEW size, NEW buffer, IsBuffer(buffer, size),
           NEW lo \in Int, NEW hi \in Int, NEW new,
           NEW at, NEW values, Origin(buffer, at, values), at = lo => new \in values
    PROVE  Origin(Write(buffer, lo, hi, new), at, values)
<1>1. ASSUME NEW q \in Write(buffer, lo, hi, new), q.base = at
      PROVE  q.what \in values
  <2>1. CASE q = Piece(lo, lo, hi, new)
    BY <1>1, <2>1 DEF Piece
  <2>2. ASSUME NEW p \in buffer, q \in Remains(p, lo, hi)
        PROVE  q.what \in values
    <3>1. IsPiece(p, size)
      BY DEF IsBuffer
    <3> QED BY <1>1, <2>2, <3>1, RemainsOf DEF Origin
  <2> QED BY <2>1, <2>2, InWrite
<1> QED BY <1>1 DEF Origin

\* What a region holds is still there when another region is written.
LEMMA HoldsKept ==
    ASSUME NEW size, NEW buffer, IsBuffer(buffer, size),
           NEW lo \in Int, NEW hi \in Int, NEW new,
           NEW at \in Int, NEW end \in Int, at < end, end <= lo \/ hi <= at,
           NEW what, Holds(buffer, at, end, what)
    PROVE  Holds(Write(buffer, lo, hi, new), at, end, what)
<1>1. PICK p \in buffer : p.base = at /\ p.what = what /\ p.lo <= at /\ end <= p.hi
  BY DEF Holds
<1>2. IsPiece(p, size)
  BY DEF IsBuffer
<1> DEFINE h == IF p.hi < lo THEN p.hi ELSE lo
           l == IF p.lo > hi THEN p.lo ELSE hi
<1>3. ASSUME end <= lo
      PROVE  \E q \in Remains(p, lo, hi) : q.base = at /\ q.what = what /\ q.lo <= at /\ end <= q.hi
  <2> DEFINE q == [p EXCEPT !.hi = h]
  <2>1. h \in Int /\ end <= h /\ p.lo < h
    BY <1>1, <1>2, <1>3 DEF IsPiece
  <2> HIDE DEF h
  <2>2. q = [base |-> p.base, lo |-> p.lo, hi |-> h, what |-> p.what]
    BY <1>2 DEF IsPiece
  <2>3. q.base = at /\ q.what = what /\ q.lo <= at /\ end <= q.hi /\ q.lo < q.hi
    BY <1>1, <2>1, <2>2
  <2>4. q \in Remains(p, lo, hi)
    BY <2>3 DEF Remains, h
  <2> QED BY <2>3, <2>4
<1>4. ASSUME hi <= at
      PROVE  \E q \in Remains(p, lo, hi) : q.base = at /\ q.what = what /\ q.lo <= at /\ end <= q.hi
  <2> DEFINE q == [p EXCEPT !.lo = l]
  <2>1. l \in Int /\ l <= at /\ l < p.hi
    BY <1>1, <1>2, <1>4 DEF IsPiece
  <2> HIDE DEF l
  <2>2. q = [base |-> p.base, lo |-> l, hi |-> p.hi, what |-> p.what]
    BY <1>2 DEF IsPiece
  <2>3. q.base = at /\ q.what = what /\ q.lo <= at /\ end <= q.hi /\ q.lo < q.hi
    BY <1>1, <2>1, <2>2
  <2>4. q \in Remains(p, lo, hi)
    BY <2>3 DEF Remains, l
  <2> QED BY <2>3, <2>4
<1>5. \E q \in Remains(p, lo, hi) : q.base = at /\ q.what = what /\ q.lo <= at /\ end <= q.hi
  BY <1>3, <1>4
<1>6. Remains(p, lo, hi) \subseteq Write(buffer, lo, hi, new)
  BY DEF Write
<1> QED BY <1>5, <1>6 DEF Holds

\* A reader finds what it should, or nothing that makes sense.
LEMMA ContentOnly ==
    ASSUME NEW buffer, NEW lo, NEW hi, NEW what, Only(buffer, lo, what)
    PROVE  Content(buffer, lo, hi) \in {what, Garbage}
<1>1. ASSUME \E p \in buffer : Fills(p, lo, hi)
      PROVE  Content(buffer, lo, hi) = what
  <2>1. (CHOOSE p \in buffer : Fills(p, lo, hi)) \in buffer
    BY <1>1
  <2>2. Fills(CHOOSE p \in buffer : Fills(p, lo, hi), lo, hi)
    BY <1>1
  <2> QED BY <1>1, <2>1, <2>2 DEF Content, Only, Fills
<1> QED BY <1>1 DEF Content

LEMMA ContentOrigin ==
    ASSUME NEW buffer, NEW lo, NEW hi, NEW values, Origin(buffer, lo, values)
    PROVE  Content(buffer, lo, hi) \in values \cup {Garbage}
<1>1. ASSUME \E p \in buffer : Fills(p, lo, hi)
      PROVE  Content(buffer, lo, hi) \in values
  <2>1. (CHOOSE p \in buffer : Fills(p, lo, hi)) \in buffer
    BY <1>1
  <2>2. Fills(CHOOSE p \in buffer : Fills(p, lo, hi), lo, hi)
    BY <1>1
  <2> QED BY <1>1, <2>1, <2>2 DEF Content, Origin, Fills
<1> QED BY <1>1 DEF Content

LEMMA ContentHeld ==
    ASSUME NEW buffer, NEW lo \in Int, NEW hi \in Int, lo < hi, NEW what,
           Only(buffer, lo, what), Holds(buffer, lo, hi, what)
    PROVE  Content(buffer, lo, hi) = what
<1>1. \E p \in buffer : Fills(p, lo, hi)
  BY DEF Holds, Fills
<1>2. (CHOOSE p \in buffer : Fills(p, lo, hi)) \in buffer
  BY <1>1
<1>3. Fills(CHOOSE p \in buffer : Fills(p, lo, hi), lo, hi)
  BY <1>1
<1> QED BY <1>1, <1>2, <1>3 DEF Content, Only, Fills

\* The same of decoding, which writes the text or what there is of it.
LEMMA DecodedIs ==
    ASSUME NEW buffer, NEW text, NEW lo, NEW room \in Int, 1 <= room
    PROVE  \/ Decoded(buffer, text, lo, room) = buffer
           \/ \E n \in 1 .. room, what \in {text.value, Garbage} :
                Decoded(buffer, text, lo, room) = Write(buffer, lo, lo + n, what)
<1> DEFINE n    == Written(text, room)
           what == IF text.valid THEN text.value ELSE Garbage
<1>1. Decoded(buffer, text, lo, room) = IF n = 0 THEN buffer ELSE Write(buffer, lo, lo + n, what)
  BY DEF Decoded
<1>2. n # 0 => n \in 1 .. room
  BY DEF Written
<1>3. what \in {text.value, Garbage}
  OBVIOUS
<1> HIDE DEF n, what
<1> QED BY <1>1, <1>2, <1>3

LEMMA DecodedThere ==
    ASSUME NEW size, NEW buffer, IsBuffer(buffer, size),
           NEW lo \in Int, NEW room \in Int,
           NEW text, IsText(text), Decodes(text, room), text.length > 0
    PROVE  /\ Only(Decoded(buffer, text, lo, room), lo, text.value)
           /\ Holds(Decoded(buffer, text, lo, room), lo, lo + text.length, text.value)
<1>1. Written(text, room) = text.length /\ text.length # 0 /\ text.valid
  BY DEF Written, Decodes, IsText
<1>2. Decoded(buffer, text, lo, room) = Write(buffer, lo, lo + text.length, text.value)
  BY <1>1 DEF Decoded
<1>3. lo + text.length \in Int /\ lo < lo + text.length
  BY DEF IsText
<1> QED BY <1>2, <1>3, OnlyWritten

LEMMA DecodedKeeps ==
    ASSUME NEW size, NEW buffer, IsBuffer(buffer, size),
           NEW lo \in Int, NEW room \in Int, 1 <= room, NEW text
    PROVE  /\ \A at \in Int : \A what : at # lo /\ Only(buffer, at, what) =>
                 Only(Decoded(buffer, text, lo, room), at, what)
           /\ \A at \in Int, end \in Int : \A what :
                 at < end /\ (end <= lo \/ lo + room <= at) /\ Holds(buffer, at, end, what) =>
                   Holds(Decoded(buffer, text, lo, room), at, end, what)
           /\ \A at, values :
                 Origin(buffer, at, values) /\ (at = lo => {text.value, Garbage} \subseteq values) =>
                   Origin(Decoded(buffer, text, lo, room), at, values)
<1>1. CASE Decoded(buffer, text, lo, room) = buffer
  BY <1>1
<1>2. ASSUME NEW n \in 1 .. room, NEW new \in {text.value, Garbage},
             Decoded(buffer, text, lo, room) = Write(buffer, lo, lo + n, new)
      PROVE  /\ \A at \in Int : \A what : at # lo /\ Only(buffer, at, what) =>
                   Only(Write(buffer, lo, lo + n, new), at, what)
             /\ \A at \in Int, end \in Int : \A what :
                   at < end /\ (end <= lo \/ lo + room <= at) /\ Holds(buffer, at, end, what) =>
                     Holds(Write(buffer, lo, lo + n, new), at, end, what)
             /\ \A at, values :
                   Origin(buffer, at, values) /\ (at = lo => {text.value, Garbage} \subseteq values) =>
                     Origin(Write(buffer, lo, lo + n, new), at, values)
  <2>1. lo + n \in Int
    OBVIOUS
  <2>2. \A at \in Int : \A what : at # lo /\ Only(buffer, at, what) =>
          Only(Write(buffer, lo, lo + n, new), at, what)
    BY <2>1, OnlyKept
  <2>3. \A at \in Int, end \in Int : \A what :
          at < end /\ (end <= lo \/ lo + room <= at) /\ Holds(buffer, at, end, what) =>
            Holds(Write(buffer, lo, lo + n, new), at, end, what)
    BY <2>1, HoldsKept
  <2>4. \A at, values :
          Origin(buffer, at, values) /\ (at = lo => {text.value, Garbage} \subseteq values) =>
            Origin(Write(buffer, lo, lo + n, new), at, values)
    BY <2>1, OriginKept
  <2> QED BY <2>2, <2>3, <2>4
<1> QED BY <1>1, <1>2, DecodedIs

\* Where the regions are; no two that are in use together begin at the same byte.
LEMMA RegionsAre ==
    /\ JWSHeaderAt = 0 /\ JWKPayloadAt = 1400 /\ JWKHeaderAt = 2100 /\ JWSPayloadAt = 2100
    /\ JWKSignatureAt = 2148 /\ JWSSignatureAt = 2160 /\ CalculationAt = 2548
    /\ KeyNAt = 2560 /\ KeyEAt = 2944 /\ ManifestSHAAt = 2954 /\ ParsedSHAAt = 2986
    /\ JWS_HEADER_SIZE = 1400 /\ JWK_PAYLOAD_SIZE = 700 /\ JWK_HEADER_SIZE = 48
    /\ SIGNATURE_SIZE = 400 /\ JWS_PAYLOAD_SIZE = 60 /\ RSA3072_SIZE = 384
    /\ SIGNING_KEY_E_SIZE = 10 /\ SHA256_SIZE = 32
  BY DEF JWS_HEADER_SIZE, JWK_HEADER_SIZE, JWK_PAYLOAD_SIZE, SIGNATURE_SIZE,
         RSA3072_SIZE, SIGNING_KEY_E_SIZE, SHA_CALCULATION_SCRATCH_SIZE, SHA256_SIZE,
         JWS_PAYLOAD_SIZE, JWSHeaderAt, JWKPayloadAt, JWKHeaderAt, JWKSignatureAt, CalculationAt,
         ReusableRoot, JWSPayloadAt, JWSSignatureAt, KeyNAt, KeyEAt, ManifestSHAAt, ParsedSHAAt

(***************************************************************************)
(* The parts of the signing key.                                           *)
(***************************************************************************)
IsPartAt(doc, p, i) == i \in 1 .. Len(doc) /\ doc[i] \in Valued(p, doc) /\ ~IsEmpty(doc[i])

\* The loop is at a member or has failed, and every part it has is one.
PartsInv(doc, s) ==
    /\ s = [at |-> s.at, n |-> s.n, e |-> s.e, alg |-> s.alg]
    /\ s.at # 0 => s.at \in 1 .. Len(doc) /\ MemberOrEnd(doc, s.at)
    /\ \A p \in KeyParts : s[p] # 0 => IsPartAt(doc, p, s[p])

\* What an iteration that does something does: a member that is a part is taken,
\* whatever is there before, and the loop is at the next member.
LEMMA IterationIs ==
    ASSUME NEW doc, IsObject(doc), \A p \in KeyParts : \A t \in Valued(p, doc) : t.kind = "String",
           NEW s, PartsInv(doc, s), s.at # 0, ~HasAll(s), s.at # Len(doc)
    PROVE  LET i     == s.at
               l     == Last(doc, i)
               after == KeyPartsIteration(doc, s)
           IN  /\ i \in Members(doc) /\ i < Len(doc)
               /\ \A p : doc[i] = Name(p) => doc[i + 1] \in Valued(p, doc)
               /\ (\E p \in KeyParts : doc[i] = Name(p)) => l = i + 1
               /\ after = [at |-> after.at, n |-> after.n, e |-> after.e, alg |-> after.alg]
               /\ after.at = IF l = Len(doc) THEN 0 ELSE l + 1
               /\ \A p \in KeyParts :
                    after[p] = IF doc[i] # Name(p) THEN s[p]
                               ELSE IF IsEmpty(doc[i + 1]) THEN 0 ELSE i + 1
<1> DEFINE i     == s.at
           part  == {p \in KeyParts : TokenIsTextEqual(At(doc, i), p)}
           value == Moved(At(doc, i))
           past  == IF part = {} THEN SkipChildren(value) ELSE value
           next  == IF AtEnd(past) THEN 0 ELSE past.at + 1
           l     == Last(doc, i)
           after == [q \in DOMAIN s |-> IF q = "at" THEN next
                                       ELSE IF q \notin part THEN s[q]
                                       ELSE IF IsEmpty(CurrentToken(value)) THEN 0 ELSE value.at]
<1>1. Len(doc) \in Nat /\ i \in Members(doc) /\ i < Len(doc) /\ i \in 1 .. Len(doc)
  BY DEF IsObject, PartsInv, MemberOrEnd
<1>2. KeyPartsIteration(doc, s) = after
  BY <1>1 DEF KeyPartsIteration, At, AtEnd
<1>3. doc[i] = Name(doc[i].text) /\ doc[i].kind = "PropertyName"
  BY <1>1, MemberIsName
<1>4. \A p : TokenIsTextEqual(At(doc, i), p) <=> doc[i] = Name(p)
  BY <1>1, <1>3 DEF TokenIsTextEqual, CurrentToken, At, Name, Token
<1>5. value = At(doc, i + 1) /\ value.at = i + 1 /\ CurrentToken(value) = doc[i + 1]
  BY <1>1, MovedAt DEF CurrentToken, At
<1>6. \A p : doc[i] = Name(p) => doc[i + 1] \in Valued(p, doc)
  BY <1>1 DEF Valued
<1>7. SkipChildren(value) = At(doc, l)
  BY <1>1, LastIsBeyond
<1>8. part # {} => l = i + 1 /\ value = At(doc, l)
  <2> SUFFICES ASSUME part # {}
               PROVE  l = i + 1 /\ value = At(doc, l)
    OBVIOUS
  <2>1. doc[i + 1].kind = "String"
    <3> HIDE DEF i
    <3> QED BY <1>4, <1>6
  <2>2. SkipChildren(value) = value
    BY <1>5, <2>1 DEF SkipChildren
  <2> HIDE DEF value, i, l, part
  <2> QED BY <1>5, <1>7, <2>2 DEF At
<1>9. next = IF l = Len(doc) THEN 0 ELSE l + 1
  <2>1. past = At(doc, l)
    <3> HIDE DEF value, part, l
    <3> QED BY <1>7, <1>8
  <2> QED BY <2>1 DEF AtEnd, At
<1>10. DOMAIN s = {"at", "n", "e", "alg"} /\ KeyParts = {"n", "e", "alg"} /\ "at" \notin part
  BY DEF PartsInv, KeyParts
<1> HIDE DEF value, next, past, l
<1>11. /\ after = [at |-> after.at, n |-> after.n, e |-> after.e, alg |-> after.alg]
       /\ after.at = next
  <2> HIDE DEF part, i
  <2> QED BY <1>10
<1>12. \A p \in KeyParts :
         after[p] = IF doc[i] # Name(p) THEN s[p]
                    ELSE IF IsEmpty(doc[i + 1]) THEN 0 ELSE i + 1
  <2>1. \A p \in KeyParts : p \in part <=> doc[i] = Name(p)
    BY <1>4
  <2> HIDE DEF part, i
  <2> QED BY <1>5, <1>10, <2>1
<1>13. (\E p \in KeyParts : doc[i] = Name(p)) => l = i + 1
  <2>1. (\E p \in KeyParts : doc[i] = Name(p)) => part # {}
    BY <1>4
  <2> HIDE DEF part, i
  <2> QED BY <1>8, <2>1
<1> HIDE DEF after
<1> QED BY <1>1, <1>2, <1>6, <1>9, <1>11, <1>12, <1>13 DEF l

LEMMA IterationKeepsParts ==
    ASSUME NEW doc, IsObject(doc), \A p \in KeyParts : \A t \in Valued(p, doc) : t.kind = "String",
           NEW s, PartsInv(doc, s)
    PROVE  PartsInv(doc, KeyPartsIteration(doc, s))
<1>1. CASE s.at = 0 \/ HasAll(s)
  BY <1>1 DEF KeyPartsIteration
<1>2. CASE ~(s.at = 0 \/ HasAll(s)) /\ s.at = Len(doc)
  <2>1. KeyPartsIteration(doc, s) = [s EXCEPT !.at = 0]
    BY <1>2 DEF KeyPartsIteration, AtEnd
  <2>2. KeyPartsIteration(doc, s) = [at |-> 0, n |-> s.n, e |-> s.e, alg |-> s.alg]
    BY <2>1 DEF PartsInv
  <2> QED BY <2>2 DEF PartsInv, KeyParts
<1>3. CASE ~(s.at = 0 \/ HasAll(s)) /\ s.at # Len(doc)
  <2> DEFINE i     == s.at
             l     == Last(doc, i)
             after == KeyPartsIteration(doc, s)
  <2>1. /\ i \in Members(doc) /\ i < Len(doc)
        /\ \A p : doc[i] = Name(p) => doc[i + 1] \in Valued(p, doc)
        /\ after = [at |-> after.at, n |-> after.n, e |-> after.e, alg |-> after.alg]
        /\ after.at = IF l = Len(doc) THEN 0 ELSE l + 1
        /\ \A p \in KeyParts : after[p] = IF doc[i] # Name(p) THEN s[p]
                                          ELSE IF IsEmpty(doc[i + 1]) THEN 0 ELSE i + 1
    BY <1>3, IterationIs
  <2>2. Len(doc) \in Nat /\ i \in 1 .. Len(doc)
    BY <2>1, MemberIsName DEF IsObject
  <2>3. l \in i + 1 .. Len(doc) /\ MemberOrEnd(doc, l + 1)
    BY <2>1, NextMember
  <2> HIDE DEF i, l, after
  <2>4. after.at # 0 => after.at \in 1 .. Len(doc) /\ MemberOrEnd(doc, after.at)
    BY <2>1, <2>2, <2>3
  <2>5. i + 1 \in 1 .. Len(doc)
    BY <2>1, <2>2
  <2>6. \A p \in KeyParts : after[p] # 0 => IsPartAt(doc, p, after[p])
    BY <2>1, <2>5 DEF IsPartAt, PartsInv
  <2> QED BY <2>1, <2>4, <2>6 DEF PartsInv, after
<1> QED BY <1>1, <1>2, <1>3

\* The loop as a function of its iterations, as far as the first n.
Iterations(f, doc, n) ==
    f = [k \in 0 .. n |-> IF k = 0 THEN [at |-> FirstName(Reader(doc)).at, n |-> 0, e |-> 0, alg |-> 0]
                                   ELSE KeyPartsIteration(doc, f[k - 1])]

LEMMA IterationsExist ==
    ASSUME NEW doc
    PROVE  \A n \in Nat : \E f : Iterations(f, doc, n)
<1> DEFINE S     == {n \in Nat : \E f : Iterations(f, doc, n)}
           start == [at |-> FirstName(Reader(doc)).at, n |-> 0, e |-> 0, alg |-> 0]
<1>1. 0 \in S
  <2> DEFINE f == [k \in 0 .. 0 |-> start]
  <2>1. f = [k \in 0 .. 0 |-> IF k = 0 THEN start ELSE KeyPartsIteration(doc, f[k - 1])]
    <3> HIDE DEF start
    <3>1. \A k \in 0 .. 0 : k = 0
      OBVIOUS
    <3>2. \A g : [k \in 0 .. 0 |-> start] =
                 [k \in 0 .. 0 |-> IF k = 0 THEN start ELSE KeyPartsIteration(doc, g[k - 1])]
      BY <3>1
    <3> QED BY <3>2
  <2> HIDE DEF f
  <2>2. Iterations(f, doc, 0)
    BY <2>1 DEF Iterations
  <2> QED BY <2>2
<1>2. ASSUME NEW n \in Nat, n \in S
      PROVE  n + 1 \in S
  <2>1. PICK f : Iterations(f, doc, n)
    BY <1>2
  <2> DEFINE g == [k \in 0 .. n + 1 |-> IF k = n + 1 THEN KeyPartsIteration(doc, f[n]) ELSE f[k]]
             body(h, k) == IF k = 0 THEN start ELSE KeyPartsIteration(doc, h[k - 1])
  <2>2. f = [k \in 0 .. n |-> body(f, k)]
    BY <2>1 DEF Iterations
  <2>3. ASSUME NEW k \in 0 .. n + 1
        PROVE  g[k] = body(g, k)
    <3>1. CASE k = 0
      <4>1. g[k] = f[0] /\ 0 \in 0 .. n
        BY <3>1
      <4>2. f[0] = start
        <5> HIDE DEF start
        <5> QED BY <2>2, <4>1
      <4> HIDE DEF g
      <4> QED BY <3>1, <4>1, <4>2
    <3>2. CASE k \in 1 .. n
      <4>1. k - 1 \in 0 .. n + 1 /\ k - 1 # n + 1 /\ k # n + 1 /\ k \in 0 .. n /\ k # 0
        BY <3>2
      <4>2. g[k] = f[k] /\ g[k - 1] = f[k - 1]
        BY <4>1
      <4>3. f[k] = KeyPartsIteration(doc, f[k - 1])
        <5> HIDE DEF start
        <5> QED BY <2>2, <4>1
      <4> HIDE DEF g
      <4> QED BY <4>1, <4>2, <4>3
    <3>3. CASE k = n + 1
      <4>1. k - 1 = n /\ n \in 0 .. n + 1 /\ n # n + 1 /\ k # 0
        BY <3>3
      <4>2. g[k] = KeyPartsIteration(doc, f[n]) /\ g[n] = f[n]
        BY <3>3, <4>1
      <4> HIDE DEF g
      <4> QED BY <4>1, <4>2
    <3>4. k = 0 \/ k \in 1 .. n \/ k = n + 1
      OBVIOUS
    <3> QED BY <3>1, <3>2, <3>3, <3>4
  <2>4. g = [k \in 0 .. n + 1 |-> g[k]]
    OBVIOUS
  <2> HIDE DEF g
  <2>5. g = [k \in 0 .. n + 1 |-> body(g, k)]
    <3> HIDE DEF body
    <3> QED BY <2>3, <2>4
  <2>6. Iterations(g, doc, n + 1)
    BY <2>5 DEF Iterations
  <2> QED BY <2>6
<1> HIDE DEF S
<1>3. \A n \in Nat : n \in S
  BY <1>1, <1>2, Induction
<1> QED BY <1>3 DEF S

\* What prvFindKeyParts finds are parts of the object, whatever else the object
\* has and in whatever order, and none of them is empty.
THEOREM KeyPartsFound ==
    ASSUME NEW doc, IsObject(doc), \A p \in KeyParts : \A t \in Valued(p, doc) : t.kind = "String"
    PROVE  PartsInv(doc, prvFindKeyParts(Reader(doc)))
<1> DEFINE f == CHOOSE g : Iterations(g, doc, Len(doc))
           S == {k \in Nat : k <= Len(doc) => PartsInv(doc, f[k])}
<1>1. Len(doc) \in Nat
  BY DEF IsObject
<1>2. Reader(doc).doc = doc
  BY DEF Reader
<1>3. prvFindKeyParts(Reader(doc)) = f[Len(doc)]
  BY <1>2 DEF prvFindKeyParts, Iterations
<1>4. Iterations(f, doc, Len(doc))
  BY <1>1, IterationsExist
<1> HIDE DEF f
<1>5. 0 \in S
  <2>1. f[0] = [at |-> FirstName(Reader(doc)).at, n |-> 0, e |-> 0, alg |-> 0]
    BY <1>1, <1>4 DEF Iterations
  <2>2. FirstName(Reader(doc)).at = IF Len(doc) > 1 THEN 2 ELSE Len(doc)
    BY FirstNameAt DEF FirstName, At
  <2>3. f[0].at # 0 => f[0].at \in 1 .. Len(doc) /\ MemberOrEnd(doc, f[0].at)
    BY <1>1, <2>1, <2>2 DEF IsObject, MemberOrEnd
  <2> QED BY <2>1, <2>3 DEF PartsInv, KeyParts
<1>6. ASSUME NEW k \in Nat, k \in S
      PROVE  k + 1 \in S
  <2> SUFFICES ASSUME k + 1 <= Len(doc)
               PROVE  PartsInv(doc, f[k + 1])
    OBVIOUS
  <2>1. k + 1 \in 0 .. Len(doc) /\ k + 1 # 0 /\ (k + 1) - 1 = k /\ k <= Len(doc)
    BY <1>1
  <2>2. f[k + 1] = KeyPartsIteration(doc, f[k])
    BY <1>4, <2>1 DEF Iterations
  <2>3. PartsInv(doc, f[k])
    BY <1>6, <2>1
  <2> QED BY <2>2, <2>3, IterationKeepsParts
<1>7. Len(doc) \in S
  <2> HIDE DEF S
  <2> QED BY <1>1, <1>5, <1>6, Induction
<1> QED BY <1>1, <1>3, <1>7

\* How far the loop has come: it has every part, or it is beyond `k' and has
\* every part that it has passed.
GoesOn(doc, s, k) ==
    /\ s.at # 0
    /\ \/ HasAll(s)
       \/ /\ k < s.at
          /\ \A p \in KeyParts, i \in Members(doc) : i < s.at /\ doc[i] = Name(p) => s[p] # 0

\* All parts are there, none is empty, and the text ends with the object.
HasKeyParts(doc) ==
    /\ IsObject(doc) /\ doc[Len(doc)] = EndObject
    /\ \A p \in KeyParts :
         /\ \E t : t \in Valued(p, doc)
         /\ \A t \in Valued(p, doc) : t.kind = "String" /\ ~IsEmpty(t)

LEMMA IterationGoesOn ==
    ASSUME NEW doc, HasKeyParts(doc), NEW s, PartsInv(doc, s), NEW k \in Nat, GoesOn(doc, s, k)
    PROVE  GoesOn(doc, KeyPartsIteration(doc, s), k + 1)
<1>1. CASE HasAll(s)
  BY <1>1 DEF KeyPartsIteration, GoesOn
<1>2. CASE ~HasAll(s)
  <2> DEFINE i     == s.at
             l     == Last(doc, i)
             after == KeyPartsIteration(doc, s)
  <2>1. /\ IsObject(doc) /\ Len(doc) \in Nat /\ i \in 1 .. Len(doc) /\ k < i
        /\ \A p \in KeyParts, j \in Members(doc) : j < i /\ doc[j] = Name(p) => s[p] # 0
    BY <1>2 DEF HasKeyParts, IsObject, GoesOn, PartsInv
  <2>2. PICK p \in KeyParts : s[p] = 0
    BY <1>2 DEF HasAll
  <2>3. PICK j \in Members(doc) : j < Len(doc) /\ doc[j] = Name(p)
    <3>1. \E t : t \in Valued(p, doc)
      BY DEF HasKeyParts
    <3> QED BY <3>1 DEF Valued
  <2>4. j \in 1 .. Len(doc) /\ i <= j /\ i # Len(doc)
    BY <2>1, <2>2, <2>3, MemberIsName
  <2>5. /\ i \in Members(doc) /\ i < Len(doc)
        /\ \A q : doc[i] = Name(q) => doc[i + 1] \in Valued(q, doc)
        /\ (\E q \in KeyParts : doc[i] = Name(q)) => l = i + 1
        /\ after.at = IF l = Len(doc) THEN 0 ELSE l + 1
        /\ \A q \in KeyParts : after[q] = IF doc[i] # Name(q) THEN s[q]
                                          ELSE IF IsEmpty(doc[i + 1]) THEN 0 ELSE i + 1
    <3>1. s.at # 0 /\ s.at # Len(doc)
      BY <2>1, <2>4
    <3>2. \A q \in KeyParts : \A t \in Valued(q, doc) : t.kind = "String"
      BY DEF HasKeyParts
    <3> QED BY <1>2, <2>1, <3>1, <3>2, IterationIs
  <2>6. l \in i + 1 .. Len(doc) /\ (i + 1 .. l) \cap Members(doc) = {}
    BY <2>1, <2>5, NextMember
  <2> HIDE DEF i, l, after
  <2>7. l # Len(doc)
    <3>1. CASE \E q \in KeyParts : doc[i] = Name(q)
      <4>1. doc[i + 1].kind = "String"
        BY <2>5, <3>1 DEF HasKeyParts
      <4>2. EndObject.kind # "String"
        BY DEF EndObject, Token
      <4> QED BY <2>5, <3>1, <4>1, <4>2 DEF HasKeyParts
    <3>2. CASE ~ \E q \in KeyParts : doc[i] = Name(q)
      <4>1. i < j
        BY <2>1, <2>3, <2>4, <3>2
      <4>2. l < j
        BY <2>1, <2>4, <2>6, <4>1
      <4> QED BY <2>1, <2>3, <2>4, <2>6, <4>2
    <3> QED BY <3>1, <3>2
  <2>8. after.at = l + 1 /\ after.at # 0 /\ k + 1 < after.at
    BY <2>1, <2>5, <2>6, <2>7
  <2>9. ASSUME NEW q \in KeyParts, NEW m \in Members(doc), m < after.at, doc[m] = Name(q)
        PROVE  after[q] # 0
    <3>1. m \in 1 .. Len(doc) /\ m <= i
      <4>1. m \in 1 .. Len(doc)
        BY <2>1, MemberIsName
      <4> QED BY <2>1, <2>6, <2>8, <2>9, <4>1
    <3>2. CASE doc[i] = Name(q)
      <4>1. ~IsEmpty(doc[i + 1])
        BY <2>5, <3>2 DEF HasKeyParts
      <4> QED BY <2>1, <2>5, <3>2, <4>1
    <3>3. CASE doc[i] # Name(q)
      <4>1. m < i
        BY <2>1, <2>9, <3>1, <3>3
      <4> QED BY <2>1, <2>5, <2>9, <3>3, <4>1
    <3> QED BY <3>2, <3>3
  <2> QED BY <2>8, <2>9 DEF GoesOn, after
<1> QED BY <1>1, <1>2

\* prvFindKeyParts finds all parts of an object that has them, in whatever order
\* and whatever else is between them.
THEOREM KeyPartsThere ==
    ASSUME NEW doc, HasKeyParts(doc)
    PROVE  prvFindKeyParts(Reader(doc)).at # 0 /\ HasAll(prvFindKeyParts(Reader(doc)))
<1> DEFINE f == CHOOSE g : Iterations(g, doc, Len(doc))
           S == {k \in Nat : k <= Len(doc) => PartsInv(doc, f[k]) /\ GoesOn(doc, f[k], k)}
<1>1. /\ IsObject(doc) /\ Len(doc) \in Nat
      /\ \A p \in KeyParts : \A t \in Valued(p, doc) : t.kind = "String"
  BY DEF HasKeyParts, IsObject
<1>2. prvFindKeyParts(Reader(doc)) = f[Len(doc)]
  BY DEF prvFindKeyParts, Iterations, Reader
<1>3. Iterations(f, doc, Len(doc))
  BY <1>1, IterationsExist
<1> HIDE DEF f
<1>4. 0 \in S
  <2>1. f[0] = [at |-> FirstName(Reader(doc)).at, n |-> 0, e |-> 0, alg |-> 0]
    BY <1>1, <1>3 DEF Iterations
  <2>2. FirstName(Reader(doc)).at = IF Len(doc) > 1 THEN 2 ELSE Len(doc)
    BY <1>1, FirstNameAt DEF FirstName, At
  <2>3. PICK i \in Members(doc) : i < Len(doc)
    <3>1. \E t : t \in Valued("n", doc)
      BY DEF HasKeyParts, KeyParts
    <3> QED BY <3>1 DEF Valued
  <2>4. f[0].at = 2 /\ 1 < Len(doc)
    BY <1>1, <2>1, <2>2, <2>3, MemberIsName
  <2>5. MemberOrEnd(doc, 2) /\ 1 \notin Members(doc)
    <3>1. doc[1] = BeginObject /\ MemberOrEnd(doc, 2)
      BY <1>1, <2>4 DEF IsObject
    <3>2. BeginObject.kind # "PropertyName"
      BY DEF BeginObject, Token
    <3> QED BY <1>1, <3>1, <3>2, MemberIsName
  <2>6. PartsInv(doc, f[0])
    BY <1>1, <2>1, <2>4, <2>5 DEF PartsInv, KeyParts
  <2>7. GoesOn(doc, f[0], 0)
    BY <1>1, <2>4, <2>5, MemberIsName DEF GoesOn
  <2> QED BY <2>6, <2>7
<1>5. ASSUME NEW k \in Nat, k \in S
      PROVE  k + 1 \in S
  <2> SUFFICES ASSUME k + 1 <= Len(doc)
               PROVE  PartsInv(doc, f[k + 1]) /\ GoesOn(doc, f[k + 1], k + 1)
    OBVIOUS
  <2>1. k + 1 \in 0 .. Len(doc) /\ k + 1 # 0 /\ (k + 1) - 1 = k /\ k <= Len(doc)
    BY <1>1
  <2>2. f[k + 1] = KeyPartsIteration(doc, f[k])
    BY <1>3, <2>1 DEF Iterations
  <2>3. PartsInv(doc, f[k]) /\ GoesOn(doc, f[k], k)
    BY <1>5, <2>1
  <2> QED BY <1>1, <2>2, <2>3, IterationKeepsParts, IterationGoesOn
<1>6. Len(doc) \in S
  <2> HIDE DEF S
  <2> QED BY <1>1, <1>4, <1>5, Induction
<1>7. PartsInv(doc, f[Len(doc)]) /\ GoesOn(doc, f[Len(doc)], Len(doc))
  BY <1>1, <1>6
<1> HIDE DEF S
<1> QED BY <1>1, <1>2, <1>7 DEF GoesOn, PartsInv

(***************************************************************************)
(* The other searches of the call.                                         *)
(***************************************************************************)
\* Of the tokens of an object, what a search for a name answers is the value of
\* a member of that name; where there is no object it answers nothing.
LEMMA FoundIsValued ==
    ASSUME NEW doc, IsObject(doc), NEW text, NEW from, NEW found,
           Finds(doc, text, from, found), found.result = "Success"
    PROVE  CurrentToken(found.reader) \in Valued(text, doc) /\ IsToken(CurrentToken(found.reader))
<1>1. PICK i \in Members(doc) :
        i < Len(doc) /\ doc[i] = Name(text) /\ found.reader = At(doc, i + 1)
  BY DEF Finds
<1>2. Len(doc) \in Nat /\ i \in 1 .. Len(doc)
  BY MemberIsName DEF IsObject
<1>3. i + 1 \in 1 .. Len(doc) /\ i + 1 # 0
  BY <1>1, <1>2
<1>4. CurrentToken(found.reader) = doc[i + 1]
  BY <1>1, <1>3 DEF CurrentToken, At
<1>5. doc[i + 1] \in Valued(text, doc)
  BY <1>1 DEF Valued
<1> QED BY <1>3, <1>4, <1>5 DEF IsObject

LEMMA StringFoundIs ==
    ASSUME NEW r, NEW text, StringFound(r, text).result = "Success"
    PROVE  /\ StringFound(r, text) = Find(r, text)
           /\ CurrentToken(StringFound(r, text).reader).kind = "String"
<1>1. Find(r, text).result = "Success" /\ TokenType(Find(r, text).reader) = "String"
  BY DEF StringFound
<1> QED BY <1>1 DEF StringFound, TokenType

\* The identifier of the root key, and the hash of the manifest.
LEMMA StringFoundValued ==
    ASSUME NEW doc, IsObject(doc), NEW text,
           StringFound(FirstName(Reader(doc)), text).result = "Success"
    PROVE  LET token == CurrentToken(StringFound(FirstName(Reader(doc)), text).reader)
           IN  token \in Valued(text, doc) /\ token.kind = "String" /\ IsToken(token)
<1> DEFINE found == StringFound(FirstName(Reader(doc)), text)
<1>1. found = Find(FirstName(Reader(doc)), text) /\ CurrentToken(found.reader).kind = "String"
  BY StringFoundIs
<1>2. Finds(doc, text, 2, found)
  <2> HIDE DEF found
  <2> QED BY <1>1, FindFromName DEF FirstName
<1>3. found.result = "Success"
  OBVIOUS
<1> HIDE DEF found
<1>4. CurrentToken(found.reader) \in Valued(text, doc) /\ IsToken(CurrentToken(found.reader))
  BY <1>2, <1>3, FoundIsValued
<1> QED BY <1>1, <1>4 DEF found

\* The signed key of a header.
LEMMA SignedKeyShown ==
    ASSUME NEW header, Len(header) \in Nat, prvFindSJWKValue(Reader(header)).result = "Success"
    PROVE  LET token == CurrentToken(prvFindSJWKValue(Reader(header)).reader)
           IN  /\ prvFindSJWKValue(Reader(header)).reader.doc = header
               /\ token.value \in JWKsIn(header)
               /\ IsObject(header) => token \in Valued("sjwk", header) /\ token.kind = "String"
<1> DEFINE found == prvFindSJWKValue(Reader(header))
           at    == IF 0 < Len(header) THEN 1 ELSE 0
           token == CurrentToken(found.reader)
<1>1. Moved(Reader(header)) = At(header, at) /\ at \in 0 .. Len(header)
  <2>1. Reader(header) = At(header, 0)
    BY DEF Reader, At
  <2> QED BY <2>1, MovedAt
<1>2. found = StringFound(Moved(Reader(header)), "sjwk") /\ found.result = "Success"
  BY DEF prvFindSJWKValue
<1> HIDE DEF found, at
<1>3. found = Find(At(header, at), "sjwk") /\ token.kind = "String"
  BY <1>1, <1>2, StringFoundIs
<1>4. PICK i \in 1 .. Len(header) :
        /\ i + 1 \in 1 .. Len(header) /\ TokenIsTextEqual(At(header, i), "sjwk")
        /\ found.reader = At(header, i + 1)
  BY <1>1, <1>2, <1>3, FoundIsText
<1>5. token = header[i + 1]
  BY <1>4 DEF CurrentToken, At
<1>6. token.value \in JWKsIn(header)
  BY <1>3, <1>4, <1>5 DEF JWKsIn, At
<1>7. ASSUME IsObject(header)
      PROVE  token \in Valued("sjwk", header)
  <2>1. Finds(header, "sjwk", 3, found)
    BY <1>1, <1>3, <1>7, FindFromBegin
  <2> QED BY <1>2, <1>7, <2>1, FoundIsValued
<1>8. found.reader.doc = header
  BY <1>4 DEF At
<1> QED BY <1>3, <1>6, <1>7, <1>8 DEF found

LEMMA NothingIsObject ==
    IsObject(<< >>) /\ Members(<< >>) = {} /\ \A name : Valued(name, << >>) = {}
<1>1. Len(<< >>) = 0 /\ 1 .. Len(<< >>) = {}
  OBVIOUS
<1>2. Members(<< >>) = {}
  BY <1>1 DEF Members
<1>3. MemberOrEnd(<< >>, 2)
  BY <1>1 DEF MemberOrEnd
<1>4. IsObject(<< >>)
  BY <1>1, <1>2, <1>3 DEF IsObject
<1>5. \A name : Valued(name, << >>) = {}
  BY <1>2 DEF Valued
<1> QED BY <1>2, <1>4, <1>5

LEMMA NothingFound ==
    /\ prvFindSJWKValue(Reader(<< >>)).result # "Success"
    /\ prvFindRootKeyValue(Reader(<< >>)).result # "Success"
    /\ prvFindManifestSHA(Reader(<< >>)).result # "Success"
    /\ ~(prvFindKeyParts(Reader(<< >>)).at # 0 /\ HasAll(prvFindKeyParts(Reader(<< >>))))
<1>1. prvFindSJWKValue(Reader(<< >>)).result # "Success"
  <2> SUFFICES ASSUME prvFindSJWKValue(Reader(<< >>)).result = "Success"
               PROVE  FALSE
    OBVIOUS
  <2>1. Len(<< >>) \in Nat
    OBVIOUS
  <2> QED BY <2>1, SignedKeyShown, NothingIsObject
<1>2. \A text : StringFound(FirstName(Reader(<< >>)), text).result # "Success"
  BY StringFoundValued, NothingIsObject
<1>3. PartsInv(<< >>, prvFindKeyParts(Reader(<< >>)))
  BY KeyPartsFound, NothingIsObject
<1> QED BY <1>1, <1>2, <1>3 DEF prvFindRootKeyValue, prvFindManifestSHA, PartsInv

(***************************************************************************)
(* The call.  What it has found out so far, and what it finds in the       *)
(* buffer: of a key that no root key has signed, nothing.                  *)
(***************************************************************************)
IsContext(cx) == cx = [field \in DOMAIN NoContext |-> cx[field]]

IsCall(c) ==
    /\ c = [at |-> c.at, manifest |-> c.manifest, doc |-> c.doc, cx |-> c.cx]
    /\ IsContext(c.cx)
    /\ c.at # "Idle" => c.doc \in Documents

\* The signatures are some that were made, by whomever; all calls keep to that.
SignaturesIn(buffer) ==
    /\ Origin(buffer, JWKSignatureAt, Made \cup {Garbage})
    /\ Origin(buffer, JWSSignatureAt, Made \cup {Garbage})

HeaderIn(buffer, c) ==
    /\ Only(buffer, JWSHeaderAt, c.doc.header.value)
    /\ Holds(buffer, JWSHeaderAt, JWSHeaderAt + c.doc.header.length, c.doc.header.value)
    /\ c.doc.header.length <= JWS_HEADER_SIZE
    /\ c.cx.headerLength = c.doc.header.length

SearchedKey(c) == prvFindSJWKValue(Reader(c.doc.header.value))

KeyFound(c) ==
    /\ SearchedKey(c).result = "Success"
    /\ c.cx.jwk = Span(JWSHeaderAt, c.doc.header.length, SearchedKey(c).reader)

Key(c) == c.cx.jwk.token.value

Trusted(jwk) == \E root \in RootKeys : SignedBy(root, jwk)

KeyHeaderIn(buffer, c) ==
    /\ Only(buffer, JWKHeaderAt, Key(c).header.value)
    /\ c.cx.jwkHeaderLength = Key(c).header.length

KeyPayloadIn(buffer, c) ==
    /\ Only(buffer, JWKPayloadAt, Key(c).payload.value)
    /\ c.cx.jwkPayloadLength = Key(c).payload.length

Identified(c) == String(c.cx.root) \in Valued("kid", Key(c).header.value)

HasParts(c) ==
    \A p \in KeyParts :
      c.cx[p].token \in Valued(p, Key(c).payload.value) /\ ~IsEmpty(c.cx[p].token)

Vouched(c) ==
    /\ KeyFound(c) /\ c.cx.root \in RootKeys
    /\ SignedBy(c.cx.root, Key(c)) /\ Identified(c) /\ HasParts(c)

PayloadIn(buffer, c) ==
    /\ Only(buffer, JWSPayloadAt, c.doc.payload.value)
    /\ c.cx.jwsPayloadLength = c.doc.payload.length

Modulus(c) == c.cx.n.token.value.value

UpdateSigned(c) ==
    /\ Signed(Modulus(c).modulusOf, <<c.doc.header.value, c.doc.payload.value>>)
    /\ c.cx.alg.token = String("RS256")

Stage(buffer, c) ==
    /\ c.at = "FindSJWK" => HeaderIn(buffer, c)
    /\ c.at = "DecodeJWK" => HeaderIn(buffer, c) /\ KeyFound(c)
    /\ c.at = "ValidateRootKey" =>
         /\ HeaderIn(buffer, c) /\ KeyFound(c)
         /\ Trusted(Key(c)) => KeyHeaderIn(buffer, c) /\ KeyPayloadIn(buffer, c)
    /\ c.at = "FindKeyParts" =>
         /\ HeaderIn(buffer, c) /\ KeyFound(c) /\ c.cx.root \in RootKeys
         /\ Trusted(Key(c)) => KeyPayloadIn(buffer, c) /\ Identified(c)
    /\ c.at = "VerifyJWK" =>
         /\ HeaderIn(buffer, c) /\ KeyFound(c) /\ c.cx.root \in RootKeys
         /\ Trusted(Key(c)) => Identified(c) /\ HasParts(c)
    /\ c.at = "DecodeJWS" => Vouched(c)
    /\ c.at = "DecodeSigningKey" => Vouched(c) /\ PayloadIn(buffer, c)
    /\ c.at = "VerifyJWS" =>
         Vouched(c) /\ PayloadIn(buffer, c) /\ Only(buffer, KeyNAt, Modulus(c))
    /\ c.at = "VerifySHA" => Vouched(c) /\ PayloadIn(buffer, c) /\ UpdateSigned(c)
    /\ c.at = "Authenticated" => Genuine(c.manifest, c.doc)

CallInv(buffer, c) ==
    IsBuffer(buffer, SCRATCH_BUFFER_SIZE) /\ SignaturesIn(buffer) /\ IsCall(c) /\ Stage(buffer, c)

JwsInv == CallInv(scratch, call)

(***************************************************************************)
(* The steps of the call.                                                  *)
(***************************************************************************)
LEMMA DecodingKeepsSignatures ==
    ASSUME NEW b, IsBuffer(b, SCRATCH_BUFFER_SIZE), SignaturesIn(b), NEW text,
           NEW lo \in Int, NEW room \in Int, 1 <= room,
           lo \in {JWKSignatureAt, JWSSignatureAt} => text.value \in Made
    PROVE  SignaturesIn(Decoded(b, text, lo, room))
<1>1. \A at, values :
        Origin(b, at, values) /\ (at = lo => {text.value, Garbage} \subseteq values) =>
          Origin(Decoded(b, text, lo, room), at, values)
  BY DecodedKeeps
<1> QED BY <1>1 DEF SignaturesIn

LEMMA HashingKeepsSignatures ==
    ASSUME NEW b, IsBuffer(b, SCRATCH_BUFFER_SIZE), SignaturesIn(b), NEW input, NEW what
    PROVE  /\ SignaturesIn(WithHash(b, input))
           /\ SignaturesIn(Write(b, ManifestSHAAt, ManifestSHAAt + SHA256_SIZE, what))
<1>1. \A new, values : \A at \in {JWKSignatureAt, JWSSignatureAt},
                           lo \in {CalculationAt, ManifestSHAAt} :
        Origin(b, at, values) => Origin(Write(b, lo, lo + SHA256_SIZE, new), at, values)
  BY RegionsAre, OriginKept
<1> QED BY <1>1 DEF SignaturesIn, WithHash

\* A region behind the header can be written.
LEMMA DecodingKeepsHeader ==
    ASSUME NEW b, IsBuffer(b, SCRATCH_BUFFER_SIZE), NEW c, IsCall(c), c.at # "Idle",
           HeaderIn(b, c), NEW text,
           NEW lo \in Int, NEW room \in Int, 1 <= room, JWS_HEADER_SIZE <= lo
    PROVE  HeaderIn(Decoded(b, text, lo, room), c)
<1>1. c.doc.header.length \in Nat /\ c.doc.header.length > 0
  BY DocumentsAssumption DEF IsCall, IsText
<1> DEFINE end == JWSHeaderAt + c.doc.header.length
<1>2. /\ JWSHeaderAt \in Int /\ end \in Int /\ JWSHeaderAt < end /\ end <= lo
      /\ JWSHeaderAt # lo
  BY <1>1, RegionsAre DEF HeaderIn
<1> HIDE DEF end
<1>3. \A at \in Int : \A what : at # lo /\ Only(b, at, what) =>
        Only(Decoded(b, text, lo, room), at, what)
  BY DecodedKeeps
<1>4. \A at \in Int, e \in Int : \A what : at < e /\ e <= lo /\ Holds(b, at, e, what) =>
        Holds(Decoded(b, text, lo, room), at, e, what)
  BY DecodedKeeps
<1> QED BY <1>2, <1>3, <1>4 DEF HeaderIn, end

\* Where the call is and what it knows, after a step.
LEMMA Gone ==
    ASSUME IsCall(call), NEW at, NEW cx, Goto(at, cx)
    PROVE  call' = [at |-> at, manifest |-> call.manifest, doc |-> call.doc, cx |-> cx]
  BY DEF IsCall, Goto

LEMMA ContextFields ==
    DOMAIN NoContext = {"headerLength", "reader", "jwk", "jwkHeaderLength", "jwkPayloadLength",
                        "root", "n", "e", "alg", "nLength", "eLength", "jwsPayloadLength"}
  BY DEF NoContext

LEMMA NoContextIs ==
    /\ IsContext(NoContext)
    /\ NoContext.headerLength = 0
  BY DEF NoContext, IsContext

\* A call that has failed promises nothing.
LEMMA Failed ==
    ASSUME NEW b, IsBuffer(b, SCRATCH_BUFFER_SIZE), SignaturesIn(b),
           IsCall(call), call.at # "Idle", Fail
    PROVE  CallInv(b, call')
<1>1. call' = [at |-> "Failed", manifest |-> call.manifest, doc |-> call.doc, cx |-> NoContext]
  BY Gone DEF Fail
<1> DEFINE c == [at |-> "Failed", manifest |-> call.manifest, doc |-> call.doc, cx |-> NoContext]
<1>2. IsCall(c)
  BY NoContextIs DEF IsCall
<1>3. Stage(b, c)
  BY DEF Stage
<1> HIDE DEF c
<1> QED BY <1>1, <1>2, <1>3 DEF CallInv, c

LEMMA StepDecodeHeader ==
    ASSUME CallInv(scratch, call), DecodeHeader
    PROVE  CallInv(scratch', call')
<1> DEFINE text == call.doc.header
           b    == Decoded(scratch, text, JWSHeaderAt, JWS_HEADER_SIZE)
           cx   == [call.cx EXCEPT !.headerLength = text.length]
           c    == [at |-> "FindSJWK", manifest |-> call.manifest, doc |-> call.doc, cx |-> cx]
<1>1. /\ IsBuffer(scratch, SCRATCH_BUFFER_SIZE) /\ SignaturesIn(scratch) /\ IsCall(call)
      /\ call.at # "Idle" /\ call.doc \in Documents /\ scratch' = b
  BY DEF CallInv, IsCall, DecodeHeader
<1>2. IsBuffer(b, SCRATCH_BUFFER_SIZE) /\ SignaturesIn(b)
  <2>1. /\ JWSHeaderAt \in Int /\ JWS_HEADER_SIZE \in Int /\ 1 <= JWS_HEADER_SIZE
        /\ JWSHeaderAt \notin {JWKSignatureAt, JWSSignatureAt}
    BY RegionsAre
  <2> QED BY <1>1, <2>1, DecodingFits, DecodingKeepsSignatures
<1>3. CASE Decodes(text, JWS_HEADER_SIZE)
  <2>1. IsText(text) /\ text.length > 0
    BY <1>1, DocumentsAssumption
  <2>2. /\ Only(b, JWSHeaderAt, text.value)
        /\ Holds(b, JWSHeaderAt, JWSHeaderAt + text.length, text.value)
    <3>1. JWSHeaderAt \in Int /\ JWS_HEADER_SIZE \in Int /\ SCRATCH_BUFFER_SIZE \in Int
      BY RegionsAre, RegionsFit
    <3> QED BY <1>1, <1>3, <2>1, <3>1, DecodedThere
  <2>3. call' = c
    BY <1>1, <1>3, Gone DEF DecodeHeader
  <2>4. IsContext(cx) /\ cx.headerLength = text.length
    BY <1>1 DEF IsCall, IsContext
  <2> HIDE DEF b, cx
  <2>5. IsCall(c)
    BY <1>1, <2>4 DEF IsCall
  <2>6. HeaderIn(b, c)
    BY <1>3, <2>2, <2>4 DEF HeaderIn, Decodes
  <2>7. Stage(b, c)
    BY <2>6 DEF Stage
  <2> HIDE DEF c
  <2> QED BY <1>1, <1>2, <2>3, <2>5, <2>7 DEF CallInv
<1>4. CASE ~Decodes(text, JWS_HEADER_SIZE)
  <2>1. Fail
    BY <1>4 DEF DecodeHeader
  <2> HIDE DEF b
  <2> QED BY <1>1, <1>2, <2>1, Failed
<1> QED BY <1>3, <1>4

LEMMA StepFindSJWK ==
    ASSUME CallInv(scratch, call), FindSJWK
    PROVE  CallInv(scratch', call')
<1> DEFINE length == call.cx.headerLength
           header == call.doc.header.value
           found  == prvFindSJWKValue(ReaderOver(JWSHeaderAt, length))
           cx     == [call.cx EXCEPT !.reader = found.reader,
                                     !.jwk    = Span(JWSHeaderAt, length, found.reader)]
           c      == [at |-> "DecodeJWK", manifest |-> call.manifest, doc |-> call.doc, cx |-> cx]
<1>1. /\ IsBuffer(scratch, SCRATCH_BUFFER_SIZE) /\ SignaturesIn(scratch) /\ IsCall(call)
      /\ call.at # "Idle" /\ scratch' = scratch /\ HeaderIn(scratch, call)
  BY DEF CallInv, Stage, FindSJWK
<1>2. CASE found.result = "Success" /\ Splits(CurrentToken(found.reader).value)
  <2>1. call' = c
    BY <1>1, <1>2, Gone DEF FindSJWK
  <2>2. found = SearchedKey(c) /\ SearchedKey(c).result = "Success"
    <3>1. Content(scratch, JWSHeaderAt, JWSHeaderAt + length) \in {header, Garbage}
      BY <1>1, ContentOnly DEF HeaderIn
    <3>2. \/ ReaderOver(JWSHeaderAt, length) = Reader(header)
          \/ ReaderOver(JWSHeaderAt, length) = Reader(<< >>)
      BY <3>1 DEF ReaderOver
    <3>3. found = prvFindSJWKValue(Reader(header))
      BY <1>2, <3>2, NothingFound
    <3> HIDE DEF found, cx
    <3> QED BY <1>2, <3>3 DEF SearchedKey
  <2>3. /\ IsContext(cx) /\ cx.headerLength = length
        /\ cx.jwk = Span(JWSHeaderAt, length, found.reader)
    <3>1. IsContext(call.cx)
      BY <1>1 DEF IsCall
    <3> HIDE DEF found
    <3> QED BY <3>1, ContextFields DEF IsContext
  <2> HIDE DEF cx, found
  <2>4. IsCall(c)
    BY <1>1, <2>3 DEF IsCall
  <2>5. HeaderIn(scratch, c) /\ KeyFound(c)
    BY <1>1, <2>2, <2>3 DEF HeaderIn, KeyFound
  <2>6. Stage(scratch, c)
    BY <2>5 DEF Stage
  <2> HIDE DEF c
  <2> QED BY <1>1, <2>1, <2>4, <2>6 DEF CallInv
<1>3. CASE ~(found.result = "Success" /\ Splits(CurrentToken(found.reader).value))
  <2>1. Fail
    BY <1>3 DEF FindSJWK
  <2> QED BY <1>1, <2>1, Failed
<1> QED BY <1>2, <1>3

\* What is known of the key that was found, before anything is verified.
LEMMA KeyShown ==
    ASSUME NEW c, IsCall(c), c.at # "Idle", KeyFound(c)
    PROVE  /\ c.cx.jwk.doc = c.doc.header.value
           /\ Key(c) \in JWKsIn(c.doc.header.value)
           /\ Key(c).signature.value \in Made
           /\ Trusted(Key(c)) => IsKeyDocument(Key(c))
           /\ IsObject(c.doc.header.value) => Key(c) \in JWKsOf(c.doc)
<1> DEFINE header == c.doc.header.value
           found  == prvFindSJWKValue(Reader(header))
           token  == CurrentToken(found.reader)
<1>1. c.doc \in Documents /\ Len(header) \in Nat
  BY DocumentsAssumption DEF IsCall
<1>2. /\ found.reader.doc = header /\ token.value \in JWKsIn(header)
      /\ IsObject(header) => token \in Valued("sjwk", header) /\ token.kind = "String"
  BY <1>1, SignedKeyShown DEF KeyFound, SearchedKey
<1>3. c.cx.jwk.doc = found.reader.doc /\ c.cx.jwk.token = token
  BY DEF KeyFound, SearchedKey, Span
<1> HIDE DEF found, token
<1>4. Key(c) = token.value
  BY <1>3 DEF Key
<1>5. token.value.signature.value \in Made
  BY <1>1, <1>2 DEF Made, SignaturesOf
<1>6. Trusted(Key(c)) => IsKeyDocument(Key(c))
  BY <1>1, <1>2, <1>4, RootKeysAssumption DEF Trusted
<1>7. IsObject(header) => Key(c) \in JWKsOf(c.doc)
  BY <1>2, <1>4 DEF JWKsOf
<1> QED BY <1>2, <1>3, <1>4, <1>5, <1>6, <1>7

LEMMA KeyIntact ==
    ASSUME IsCall(call), call.at # "Idle", HeaderIn(scratch, call), KeyFound(call)
    PROVE  TextOf(call.cx.jwk) = Key(call)
<1>1. call.cx.jwk.doc = call.doc.header.value
  BY KeyShown
<1>2. call.cx.jwk.at = JWSHeaderAt /\ call.cx.jwk.length = call.doc.header.length
  BY DEF KeyFound, Span
<1>3. Intact(call.cx.jwk)
  BY <1>1, <1>2 DEF Intact, HeaderIn
<1> QED BY <1>3 DEF TextOf, Key

LEMMA StepDecodeJWK ==
    ASSUME CallInv(scratch, call), DecodeJWK
    PROVE  CallInv(scratch', call')
<1> DEFINE jwk       == Key(call)
           header    == Decoded(scratch, jwk.header, JWKHeaderAt, JWK_HEADER_SIZE)
           content   == Decoded(header, jwk.payload, JWKPayloadAt, JWK_PAYLOAD_SIZE)
           signature == Decoded(content, jwk.signature, JWKSignatureAt, SIGNATURE_SIZE)
           headerOK  == Decodes(jwk.header, JWK_HEADER_SIZE)
           contentOK == headerOK /\ Decodes(jwk.payload, JWK_PAYLOAD_SIZE)
           cx == [call.cx EXCEPT
                    !.jwkHeaderLength  = IF headerOK THEN jwk.header.length ELSE 0,
                    !.jwkPayloadLength = IF contentOK THEN jwk.payload.length ELSE 0]
           c  == [at |-> "ValidateRootKey", manifest |-> call.manifest, doc |-> call.doc,
                  cx |-> cx]
           b  == scratch'
<1>1. /\ IsBuffer(scratch, SCRATCH_BUFFER_SIZE) /\ SignaturesIn(scratch) /\ IsCall(call)
      /\ call.at # "Idle" /\ HeaderIn(scratch, call) /\ KeyFound(call)
  BY DEF CallInv, Stage, DecodeJWK
<1>2. /\ scratch' = IF contentOK THEN signature ELSE IF headerOK THEN content ELSE header
      /\ Goto("ValidateRootKey", cx)
  BY <1>1, KeyIntact DEF DecodeJWK
<1>3. /\ jwk.signature.value \in Made
      /\ Trusted(jwk) => IsKeyDocument(jwk)
  BY <1>1, KeyShown
<1>4. /\ JWKHeaderAt \in Int /\ JWK_HEADER_SIZE \in Int /\ 1 <= JWK_HEADER_SIZE
      /\ JWKPayloadAt \in Int /\ JWK_PAYLOAD_SIZE \in Int /\ 1 <= JWK_PAYLOAD_SIZE
      /\ JWKSignatureAt \in Int /\ SIGNATURE_SIZE \in Int /\ 1 <= SIGNATURE_SIZE
      /\ SCRATCH_BUFFER_SIZE \in Int
      /\ JWKHeaderAt \notin {JWKSignatureAt, JWSSignatureAt}
      /\ JWKPayloadAt \notin {JWKSignatureAt, JWSSignatureAt}
      /\ JWKHeaderAt \notin {JWKPayloadAt, JWKSignatureAt}
      /\ JWKPayloadAt \notin {JWKHeaderAt, JWKSignatureAt}
      /\ JWS_HEADER_SIZE <= JWKHeaderAt /\ JWS_HEADER_SIZE <= JWKPayloadAt
      /\ JWS_HEADER_SIZE <= JWKSignatureAt
  BY RegionsAre, RegionsFit
<1> HIDE DEF jwk
<1>5. /\ IsBuffer(header, SCRATCH_BUFFER_SIZE) /\ SignaturesIn(header) /\ HeaderIn(header, call)
  BY <1>1, <1>4, DecodingFits, DecodingKeepsSignatures, DecodingKeepsHeader
<1>6. Trusted(jwk) => /\ headerOK /\ contentOK
                      /\ jwk.header.length # 0 /\ jwk.payload.length # 0
                      /\ Only(header, JWKHeaderAt, jwk.header.value)
  <2> SUFFICES ASSUME Trusted(jwk)
               PROVE  /\ headerOK /\ contentOK
                      /\ jwk.header.length # 0 /\ jwk.payload.length # 0
                      /\ Only(header, JWKHeaderAt, jwk.header.value)
    OBVIOUS
  <2>1. Fits(jwk.header, JWK_HEADER_SIZE) /\ Fits(jwk.payload, JWK_PAYLOAD_SIZE)
    BY <1>3 DEF IsKeyDocument
  <2> QED BY <1>1, <1>4, <2>1, DecodedThere DEF Fits
<1> HIDE DEF header
<1>7. /\ IsBuffer(content, SCRATCH_BUFFER_SIZE) /\ SignaturesIn(content) /\ HeaderIn(content, call)
  BY <1>1, <1>4, <1>5, DecodingFits, DecodingKeepsSignatures, DecodingKeepsHeader
<1>8. Trusted(jwk) => /\ Only(content, JWKHeaderAt, jwk.header.value)
                      /\ Only(content, JWKPayloadAt, jwk.payload.value)
  <2> SUFFICES ASSUME Trusted(jwk)
               PROVE  /\ Only(content, JWKHeaderAt, jwk.header.value)
                      /\ Only(content, JWKPayloadAt, jwk.payload.value)
    OBVIOUS
  <2>1. Fits(jwk.payload, JWK_PAYLOAD_SIZE)
    BY <1>3 DEF IsKeyDocument
  <2>2. Only(content, JWKPayloadAt, jwk.payload.value)
    BY <1>4, <1>5, <2>1, DecodedThere DEF Fits
  <2>3. \A at \in Int : \A what : at # JWKPayloadAt /\ Only(header, at, what) =>
          Only(content, at, what)
    BY <1>4, <1>5, DecodedKeeps
  <2> QED BY <1>4, <1>6, <2>2, <2>3
<1> HIDE DEF content
<1>9. /\ IsBuffer(signature, SCRATCH_BUFFER_SIZE) /\ SignaturesIn(signature)
      /\ HeaderIn(signature, call)
  BY <1>1, <1>3, <1>4, <1>7, DecodingFits, DecodingKeepsSignatures, DecodingKeepsHeader
<1>10. Trusted(jwk) => /\ Only(signature, JWKHeaderAt, jwk.header.value)
                       /\ Only(signature, JWKPayloadAt, jwk.payload.value)
  <2>1. \A at \in Int : \A what : at # JWKSignatureAt /\ Only(content, at, what) =>
          Only(signature, at, what)
    BY <1>4, <1>7, DecodedKeeps
  <2> QED BY <1>4, <1>8, <2>1
<1> HIDE DEF signature
<1>11. call' = c
  BY <1>1, <1>2, Gone
<1>12. /\ IsContext(cx) /\ cx.headerLength = call.cx.headerLength /\ cx.jwk = call.cx.jwk
       /\ cx.jwkHeaderLength = IF headerOK THEN jwk.header.length ELSE 0
       /\ cx.jwkPayloadLength = IF contentOK THEN jwk.payload.length ELSE 0
  <2>1. IsContext(call.cx)
    BY <1>1 DEF IsCall
  <2> HIDE DEF headerOK, contentOK
  <2> QED BY <2>1, ContextFields DEF IsContext
<1> HIDE DEF cx
<1>13. IsCall(c) /\ Key(c) = jwk
  BY <1>1, <1>12 DEF IsCall, Key, jwk
<1>14. b \in {header, content, signature} /\ (Trusted(jwk) => b = signature)
  <2> HIDE DEF headerOK, contentOK
  <2> QED BY <1>2, <1>6
<1>15. HeaderIn(b, c) /\ KeyFound(c)
  <2>1. HeaderIn(b, call)
    BY <1>5, <1>7, <1>9, <1>14
  <2> QED BY <1>1, <1>12, <2>1 DEF HeaderIn, KeyFound, SearchedKey
<1>16. Trusted(Key(c)) => KeyHeaderIn(b, c) /\ KeyPayloadIn(b, c)
  <2> HIDE DEF headerOK, contentOK
  <2> QED BY <1>6, <1>10, <1>12, <1>13, <1>14 DEF KeyHeaderIn, KeyPayloadIn
<1>17. Stage(b, c)
  BY <1>15, <1>16 DEF Stage
<1>18. IsBuffer(b, SCRATCH_BUFFER_SIZE) /\ SignaturesIn(b)
  BY <1>5, <1>7, <1>9, <1>14
<1> HIDE DEF c
<1> QED BY <1>11, <1>13, <1>17, <1>18 DEF CallInv

\* A document of the buffer is read as it is, or nothing of it is.
LEMMA ReadAs ==
    ASSUME NEW at, NEW length, NEW doc, Only(scratch, at, doc)
    PROVE  ReaderOver(at, length) \in {Reader(doc), Reader(<< >>)}
<1>1. Content(scratch, at, at + length) \in {doc, Garbage}
  BY ContentOnly
<1> QED BY <1>1 DEF ReaderOver

LEMMA StepValidateRootKey ==
    ASSUME CallInv(scratch, call), ValidateRootKey
    PROVE  CallInv(scratch', call')
<1> DEFINE jwk    == Key(call)
           length == call.cx.jwkHeaderLength
           found  == prvFindRootKeyValue(ReaderOver(JWKHeaderAt, length))
           token  == CurrentToken(found.reader)
           cx(root) == [call.cx EXCEPT !.root = root]
           c(root)  == [at |-> "FindKeyParts", manifest |-> call.manifest, doc |-> call.doc,
                        cx |-> cx(root)]
<1>1. /\ IsBuffer(scratch, SCRATCH_BUFFER_SIZE) /\ SignaturesIn(scratch) /\ IsCall(call)
      /\ call.at # "Idle" /\ scratch' = scratch /\ HeaderIn(scratch, call) /\ KeyFound(call)
      /\ Trusted(jwk) => KeyHeaderIn(scratch, call) /\ KeyPayloadIn(scratch, call)
  BY DEF CallInv, Stage, ValidateRootKey
<1>2. \/ Fail
      \/ \E root \in RootKeys :
           /\ Goto("FindKeyParts", cx(root))
           /\ length > 0 => found.result = "Success" /\ root = token.text
  BY DEF ValidateRootKey
<1>3. ASSUME Fail
      PROVE  CallInv(scratch', call')
  BY <1>1, <1>3, Failed
<1>4. ASSUME NEW root \in RootKeys, Goto("FindKeyParts", cx(root)),
             length > 0 => found.result = "Success" /\ root = token.text
      PROVE  CallInv(scratch', call')
  <2>1. ASSUME Trusted(jwk)
        PROVE  String(root) \in Valued("kid", jwk.header.value)
    <3>1. Fits(jwk.header, JWK_HEADER_SIZE)
      BY <1>1, <2>1, KeyShown DEF IsKeyDocument
    <3>2. length > 0 /\ Only(scratch, JWKHeaderAt, jwk.header.value)
      BY <1>1, <2>1, <3>1 DEF KeyHeaderIn, Fits
    <3>3. ReaderOver(JWKHeaderAt, length) \in {Reader(jwk.header.value), Reader(<< >>)}
      BY <3>2, ReadAs
    <3>4. found = prvFindRootKeyValue(Reader(jwk.header.value))
      BY <1>4, <3>2, <3>3, NothingFound
    <3>5. found = StringFound(FirstName(Reader(jwk.header.value)), "kid")
      BY <3>4 DEF prvFindRootKeyValue
    <3>6. found.result = "Success" /\ root = token.text /\ root # ""
      BY <1>4, <3>2, RootKeysAssumption
    <3>7. IsObject(jwk.header.value)
      BY <3>1 DEF Fits
    <3> HIDE DEF found, jwk
    <3>8. token \in Valued("kid", jwk.header.value) /\ token.kind = "String" /\ IsToken(token)
      BY <3>5, <3>6, <3>7, StringFoundValued
    <3> QED BY <3>6, <3>8 DEF IsToken
  <2>2. call' = c(root)
    BY <1>1, <1>4, Gone
  <2>3. /\ IsContext(cx(root)) /\ cx(root).root = root
        /\ cx(root).headerLength = call.cx.headerLength /\ cx(root).jwk = call.cx.jwk
        /\ cx(root).jwkPayloadLength = call.cx.jwkPayloadLength
    <3>1. IsContext(call.cx)
      BY <1>1 DEF IsCall
    <3> QED BY <3>1, ContextFields DEF IsContext
  <2> HIDE DEF cx
  <2>4. IsCall(c(root)) /\ Key(c(root)) = jwk
    BY <1>1, <2>3 DEF IsCall, Key
  <2>5. HeaderIn(scratch, c(root)) /\ KeyFound(c(root)) /\ c(root).cx.root \in RootKeys
    BY <1>1, <1>4, <2>3 DEF HeaderIn, KeyFound, SearchedKey
  <2>6. Trusted(jwk) => KeyPayloadIn(scratch, c(root)) /\ Identified(c(root))
    <3> HIDE DEF jwk
    <3>1. c(root).cx = cx(root)
      OBVIOUS
    <3> HIDE DEF c
    <3> QED BY <1>1, <2>1, <2>3, <2>4, <3>1 DEF KeyPayloadIn, Identified, jwk
  <2>7. Stage(scratch, c(root))
    BY <2>4, <2>5, <2>6 DEF Stage
  <2> HIDE DEF c
  <2> QED BY <1>1, <2>2, <2>4, <2>7 DEF CallInv
<1> QED BY <1>2, <1>3, <1>4

LEMMA OpaqueIs ==
    ASSUME NEW t, t = Opaque(t.value)
    PROVE  t.kind = "String" /\ t.text = ""
<1>1. /\ Opaque(t.value).kind = "String"
      /\ Opaque(t.value).text = ""
  BY DEF Opaque, Token
<1> QED BY <1>1

LEMMA KeyPartsAreStrings ==
    ASSUME NEW jwk, IsKeyDocument(jwk)
    PROVE  \A p \in KeyParts : \A t \in Valued(p, jwk.payload.value) : t.kind = "String"
<1>1. \A t : t = Opaque(t.value) => t.kind = "String"
  BY OpaqueIs
<1> QED BY <1>1 DEF IsKeyDocument, AreTexts, KeyParts

\* The parts of a key that a root key has signed.
LEMMA PartsShown ==
    ASSUME NEW jwk, IsKeyDocument(jwk),
           NEW reader, reader \in {Reader(jwk.payload.value), Reader(<< >>)},
           prvFindKeyParts(reader).at # 0, HasAll(prvFindKeyParts(reader)), NEW p \in KeyParts
    PROVE  LET token == CurrentToken([reader EXCEPT !.at = prvFindKeyParts(reader)[p]])
           IN  token \in Valued(p, jwk.payload.value) /\ ~IsEmpty(token)
<1> DEFINE doc   == jwk.payload.value
           parts == prvFindKeyParts(Reader(doc))
           token == CurrentToken(At(doc, parts[p]))
<1>1. reader = Reader(doc)
  BY NothingFound
<1>2. IsObject(doc)
  BY DEF IsKeyDocument, Fits
<1>3. \A q \in KeyParts : \A t \in Valued(q, doc) : t.kind = "String"
  BY KeyPartsAreStrings
<1>4. PartsInv(doc, parts)
  BY <1>2, <1>3, KeyPartsFound
<1>5. parts[p] # 0
  BY <1>1 DEF HasAll
<1> HIDE DEF doc, parts
<1>6. IsPartAt(doc, p, parts[p])
  BY <1>4, <1>5 DEF PartsInv
<1>7. token = doc[parts[p]]
  BY <1>5 DEF CurrentToken, At
<1>8. [Reader(doc) EXCEPT !.at = parts[p]] = At(doc, parts[p])
  BY DEF Reader, At
<1> QED BY <1>1, <1>6, <1>7, <1>8 DEF IsPartAt, doc, parts

LEMMA StepFindKeyParts ==
    ASSUME CallInv(scratch, call), FindKeyParts
    PROVE  CallInv(scratch', call')
<1> DEFINE jwk     == Key(call)
           length  == call.cx.jwkPayloadLength
           reader  == IF length = 0 THEN call.cx.reader ELSE ReaderOver(JWKPayloadAt, length)
           parts   == prvFindKeyParts(reader)
           Shown(p) == CurrentToken([reader EXCEPT !.at = parts[p]])
           Part(p) == IF length = 0
                      THEN Span(JWSHeaderAt, call.cx.headerLength, [reader EXCEPT !.at = parts[p]])
                      ELSE Span(JWKPayloadAt, length, [reader EXCEPT !.at = parts[p]])
           cx == [call.cx EXCEPT !.n = Part("n"), !.e = Part("e"), !.alg = Part("alg")]
           c  == [at |-> "VerifyJWK", manifest |-> call.manifest, doc |-> call.doc, cx |-> cx]
<1>1. /\ IsBuffer(scratch, SCRATCH_BUFFER_SIZE) /\ SignaturesIn(scratch) /\ IsCall(call)
      /\ call.at # "Idle" /\ scratch' = scratch /\ HeaderIn(scratch, call) /\ KeyFound(call)
      /\ call.cx.root \in RootKeys
      /\ Trusted(jwk) => KeyPayloadIn(scratch, call) /\ Identified(call)
  BY DEF CallInv, Stage, FindKeyParts
<1>2. CASE parts.at # 0 /\ HasAll(parts)
  <2>1. ASSUME Trusted(jwk), NEW p \in KeyParts
        PROVE  Part(p).token \in Valued(p, jwk.payload.value) /\ ~IsEmpty(Part(p).token)
    <3>1. IsKeyDocument(jwk)
      BY <1>1, <2>1, KeyShown
    <3>2. length # 0 /\ Only(scratch, JWKPayloadAt, jwk.payload.value)
      BY <1>1, <2>1, <3>1 DEF KeyPayloadIn, IsKeyDocument, Fits
    <3>3. reader \in {Reader(jwk.payload.value), Reader(<< >>)}
      BY <3>2, ReadAs
    <3>4. Part(p).token = Shown(p)
      BY <3>2 DEF Span
    <3> HIDE DEF jwk, reader
    <3>5. Shown(p) \in Valued(p, jwk.payload.value) /\ ~IsEmpty(Shown(p))
      BY <1>2, <3>1, <3>3, PartsShown
    <3> QED BY <3>4, <3>5
  <2>2. call' = c
    BY <1>1, <1>2, Gone DEF FindKeyParts
  <2>3. /\ IsContext(cx) /\ \A p \in KeyParts : cx[p] = Part(p)
        /\ cx.headerLength = call.cx.headerLength /\ cx.jwk = call.cx.jwk /\ cx.root = call.cx.root
    <3>1. IsContext(call.cx)
      BY <1>1 DEF IsCall
    <3> HIDE DEF Part
    <3> QED BY <3>1, ContextFields DEF IsContext, KeyParts
  <2> HIDE DEF cx, Part
  <2>4. IsCall(c) /\ Key(c) = jwk
    BY <1>1, <2>3 DEF IsCall, Key
  <2>5. HeaderIn(scratch, c) /\ KeyFound(c) /\ c.cx.root \in RootKeys
    BY <1>1, <2>3 DEF HeaderIn, KeyFound, SearchedKey
  <2>6. Trusted(jwk) => Identified(c) /\ HasParts(c)
    <3>1. c.cx = cx
      OBVIOUS
    <3> HIDE DEF c, jwk
    <3> QED BY <1>1, <2>1, <2>3, <2>4, <3>1 DEF Identified, HasParts, jwk
  <2>7. Stage(scratch, c)
    BY <2>4, <2>5, <2>6 DEF Stage
  <2> HIDE DEF c
  <2> QED BY <1>1, <2>2, <2>4, <2>7 DEF CallInv
<1>3. CASE ~(parts.at # 0 /\ HasAll(parts))
  <2>1. Fail
    BY <1>3 DEF FindKeyParts
  <2> QED BY <1>1, <2>1, Failed
<1> QED BY <1>2, <1>3

\* A signature is looked for only among those that were made.
LEMMA SignatureMade ==
    ASSUME NEW b, SignaturesIn(b), NEW at \in {JWKSignatureAt, JWSSignatureAt}, NEW end,
           NEW by, NEW input, SignatureOf(Content(b, at, end), by, input)
    PROVE  Signed(by, input)
<1>1. Origin(b, at, Made \cup {Garbage})
  BY DEF SignaturesIn
<1>2. Content(b, at, end) \in Made \cup {Garbage}
  BY <1>1, ContentOrigin
<1> QED BY <1>2 DEF SignatureOf, Signed

LEMMA StepVerifyJWK ==
    ASSUME CallInv(scratch, call), VerifyJWK
    PROVE  CallInv(scratch', call')
<1> DEFINE jwk    == Key(call)
           input  == <<jwk.header.value, jwk.payload.value>>
           hashed == WithHash(scratch, input)
           c      == [at |-> "DecodeJWS", manifest |-> call.manifest, doc |-> call.doc,
                      cx |-> call.cx]
           found  == Content(hashed, JWKSignatureAt, JWKSignatureAt + RootKeyLength)
<1>1. /\ IsBuffer(scratch, SCRATCH_BUFFER_SIZE) /\ SignaturesIn(scratch) /\ IsCall(call)
      /\ call.at # "Idle" /\ HeaderIn(scratch, call) /\ KeyFound(call)
      /\ call.cx.root \in RootKeys
      /\ Trusted(jwk) => Identified(call) /\ HasParts(call)
  BY DEF CallInv, Stage, VerifyJWK
<1>2. TextOf(call.cx.jwk) = jwk
  BY <1>1, KeyIntact
<1> HIDE DEF jwk
<1>3. /\ scratch' = hashed
      /\ IF SignatureOf(found, call.cx.root, input) THEN Goto("DecodeJWS", call.cx) ELSE Fail
  BY <1>2 DEF VerifyJWK
<1>4. IsBuffer(hashed, SCRATCH_BUFFER_SIZE) /\ SignaturesIn(hashed)
  BY <1>1, HashingFits, HashingKeepsSignatures
<1> HIDE DEF hashed
<1>5. CASE SignatureOf(found, call.cx.root, input)
  <2>1. SignedBy(call.cx.root, jwk)
    BY <1>4, <1>5, SignatureMade DEF SignedBy
  <2>2. Trusted(jwk)
    BY <1>1, <2>1 DEF Trusted
  <2>3. Vouched(call)
    BY <1>1, <2>1, <2>2 DEF Vouched, jwk
  <2>4. call' = c
    BY <1>1, <1>3, <1>5, Gone
  <2>5. IsCall(c) /\ Vouched(c)
    BY <1>1, <2>3 DEF IsCall, Vouched, KeyFound, SearchedKey, Identified, HasParts, Key
  <2>6. Stage(hashed, c)
    BY <2>5 DEF Stage
  <2> HIDE DEF c
  <2> QED BY <1>3, <1>4, <2>4, <2>5, <2>6 DEF CallInv
<1>6. CASE ~SignatureOf(found, call.cx.root, input)
  <2>1. Fail
    BY <1>3, <1>6
  <2> QED BY <1>1, <1>3, <1>4, <2>1, Failed
<1> QED BY <1>5, <1>6

LEMMA VouchedIs ==
    ASSUME NEW c, IsCall(c), c.at # "Idle", Vouched(c)
    PROVE  /\ Trusted(Key(c)) /\ IsKeyDocument(Key(c)) /\ c.doc \in Documents
           /\ c.doc.signature.value \in Made
           /\ Key(c) \in JWKsIn(c.doc.header.value)
<1>1. Trusted(Key(c)) /\ c.doc \in Documents
  BY DEF Vouched, Trusted, IsCall
<1>2. c.doc.signature.value \in Made
  BY <1>1 DEF Made, SignaturesOf
<1> QED BY <1>1, <1>2, KeyShown DEF Vouched

LEMMA VouchedKept ==
    ASSUME NEW c, Vouched(c), NEW d, d.doc = c.doc,
           \A f \in {"jwk", "root", "n", "e", "alg"} : d.cx[f] = c.cx[f]
    PROVE  Vouched(d) /\ Key(d) = Key(c) /\ Modulus(d) = Modulus(c)
<1>1. /\ d.cx.jwk = c.cx.jwk /\ d.cx.root = c.cx.root /\ d.cx.n = c.cx.n
      /\ \A p \in KeyParts : d.cx[p] = c.cx[p]
  BY DEF KeyParts
<1> QED BY <1>1 DEF Vouched, KeyFound, SearchedKey, Identified, HasParts, Key, Modulus

LEMMA StepDecodeJWS ==
    ASSUME CallInv(scratch, call), DecodeJWS
    PROVE  CallInv(scratch', call')
<1> DEFINE text      == call.doc
           content   == Decoded(scratch, text.payload, JWSPayloadAt, JWS_PAYLOAD_SIZE)
           signature == Decoded(content, text.signature, JWSSignatureAt, SIGNATURE_SIZE)
           contentOK == Decodes(text.payload, JWS_PAYLOAD_SIZE)
           cx == [call.cx EXCEPT !.jwsPayloadLength = text.payload.length]
           c  == [at |-> "DecodeSigningKey", manifest |-> call.manifest, doc |-> call.doc,
                  cx |-> cx]
<1>1. /\ IsBuffer(scratch, SCRATCH_BUFFER_SIZE) /\ SignaturesIn(scratch) /\ IsCall(call)
      /\ call.at # "Idle" /\ Vouched(call)
  BY DEF CallInv, Stage, DecodeJWS
<1>2. text \in Documents /\ text.signature.value \in Made
  BY <1>1, VouchedIs
<1>3. /\ scratch' = IF contentOK THEN signature ELSE content
      /\ IF contentOK /\ Decodes(text.signature, SIGNATURE_SIZE)
         THEN Goto("DecodeSigningKey", cx) ELSE Fail
  BY DEF DecodeJWS
<1>4. /\ JWSPayloadAt \in Int /\ JWS_PAYLOAD_SIZE \in Int /\ 1 <= JWS_PAYLOAD_SIZE
      /\ JWSSignatureAt \in Int /\ SIGNATURE_SIZE \in Int /\ 1 <= SIGNATURE_SIZE
      /\ SCRATCH_BUFFER_SIZE \in Int
      /\ JWSPayloadAt \notin {JWKSignatureAt, JWSSignatureAt}
  BY RegionsAre, RegionsFit
<1>5. IsBuffer(content, SCRATCH_BUFFER_SIZE) /\ SignaturesIn(content)
  BY <1>1, <1>4, DecodingFits, DecodingKeepsSignatures
<1>6. IsBuffer(signature, SCRATCH_BUFFER_SIZE) /\ SignaturesIn(signature)
  <2> HIDE DEF content
  <2> QED BY <1>2, <1>4, <1>5, DecodingFits, DecodingKeepsSignatures
<1>7. CASE contentOK /\ Decodes(text.signature, SIGNATURE_SIZE)
  <2>1. Only(content, JWSPayloadAt, text.payload.value)
    <3>1. IsText(text.payload) /\ text.payload.length > 0
      BY <1>2, DocumentsAssumption
    <3> QED BY <1>1, <1>4, <1>7, <3>1, DecodedThere
  <2> HIDE DEF content
  <2>2. Only(signature, JWSPayloadAt, text.payload.value)
    <3>1. \A at \in Int : \A what : at # JWSSignatureAt /\ Only(content, at, what) =>
            Only(signature, at, what)
      BY <1>4, <1>5, DecodedKeeps
    <3> QED BY <1>4, <2>1, <3>1
  <2>3. call' = c /\ scratch' = signature
    BY <1>1, <1>3, <1>7, Gone
  <2>4. /\ IsContext(cx) /\ \A f \in DOMAIN NoContext \ {"jwsPayloadLength"} : cx[f] = call.cx[f]
        /\ cx.jwsPayloadLength = text.payload.length
    <3>1. IsContext(call.cx)
      BY <1>1 DEF IsCall
    <3> QED BY <3>1, ContextFields DEF IsContext
  <2> HIDE DEF cx
  <2>5. IsCall(c) /\ Vouched(c)
    <3>1. c.doc = call.doc /\ \A f \in {"jwk", "root", "n", "e", "alg"} : c.cx[f] = call.cx[f]
      BY <2>4, ContextFields
    <3> QED BY <1>1, <2>4, <3>1, VouchedKept DEF IsCall
  <2>6. PayloadIn(signature, c)
    BY <2>2, <2>4 DEF PayloadIn
  <2>7. Stage(signature, c)
    BY <2>5, <2>6 DEF Stage
  <2> HIDE DEF c, signature
  <2> QED BY <1>6, <2>3, <2>5, <2>7 DEF CallInv
<1>8. CASE ~(contentOK /\ Decodes(text.signature, SIGNATURE_SIZE))
  <2>1. Fail /\ scratch' \in {content, signature}
    BY <1>3, <1>8
  <2> HIDE DEF content, signature
  <2> QED BY <1>1, <1>5, <1>6, <2>1, Failed
<1> QED BY <1>7, <1>8

LEMMA TextShown ==
    ASSUME NEW t, t = Opaque(t.value), IsText(t.value), ~IsEmpty(t)
    PROVE  t.value.length > 0
<1>1. t.kind = "String" /\ t.text = ""
  BY OpaqueIs
<1>2. t.value.length # 0
  BY <1>1 DEF IsEmpty
<1> QED BY <1>2 DEF IsText

\* The modulus decoded is that of the key, since none is empty.
LEMMA ModulusShown ==
    ASSUME NEW c, IsCall(c), c.at # "Idle", Vouched(c)
    PROVE  LET text == c.cx.n.token.value IN IsText(text) /\ text.length > 0
<1> DEFINE token == c.cx.n.token
<1>1. IsKeyDocument(Key(c))
  BY VouchedIs
<1>2. token \in Valued("n", Key(c).payload.value) /\ ~IsEmpty(token)
  BY DEF Vouched, HasParts, KeyParts
<1>3. token = Opaque(token.value) /\ IsText(token.value)
  BY <1>1, <1>2 DEF IsKeyDocument, AreTexts
<1> HIDE DEF token
<1> QED BY <1>2, <1>3, TextShown DEF token

LEMMA StepDecodeSigningKey ==
    ASSUME CallInv(scratch, call), DecodeSigningKey
    PROVE  CallInv(scratch', call')
<1> DEFINE n    == TextOf(call.cx.n)
           e    == TextOf(call.cx.e)
           nIn  == Decoded(scratch, n, KeyNAt, RSA3072_SIZE)
           eIn  == Decoded(nIn, e, KeyEAt, SIGNING_KEY_E_SIZE)
           nOK  == Decodes(n, RSA3072_SIZE)
           cx == [call.cx EXCEPT !.nLength = n.length, !.eLength = e.length]
           c  == [at |-> "VerifyJWS", manifest |-> call.manifest, doc |-> call.doc, cx |-> cx]
<1>1. /\ IsBuffer(scratch, SCRATCH_BUFFER_SIZE) /\ SignaturesIn(scratch) /\ IsCall(call)
      /\ call.at # "Idle" /\ Vouched(call) /\ PayloadIn(scratch, call)
  BY DEF CallInv, Stage, DecodeSigningKey
<1>2. /\ scratch' = IF nOK THEN eIn ELSE nIn
      /\ IF nOK /\ Decodes(e, SIGNING_KEY_E_SIZE) THEN Goto("VerifyJWS", cx) ELSE Fail
  BY DEF DecodeSigningKey
<1>3. /\ KeyNAt \in Int /\ RSA3072_SIZE \in Int /\ 1 <= RSA3072_SIZE
      /\ KeyEAt \in Int /\ SIGNING_KEY_E_SIZE \in Int /\ 1 <= SIGNING_KEY_E_SIZE
      /\ SCRATCH_BUFFER_SIZE \in Int /\ JWSPayloadAt \in Int
      /\ KeyNAt \notin {JWKSignatureAt, JWSSignatureAt, JWSPayloadAt, KeyEAt}
      /\ KeyEAt \notin {JWKSignatureAt, JWSSignatureAt, JWSPayloadAt, KeyNAt}
  BY RegionsAre, RegionsFit
<1>4. nOK => /\ n = call.cx.n.token.value /\ n.value = Modulus(call)
             /\ Only(nIn, KeyNAt, n.value)
  <2> SUFFICES ASSUME nOK
               PROVE  /\ n = call.cx.n.token.value /\ n.value = Modulus(call)
                      /\ Only(nIn, KeyNAt, n.value)
    OBVIOUS
  <2>1. n = call.cx.n.token.value
    BY DEF TextOf, Overwritten, Decodes
  <2>2. IsText(n) /\ n.length > 0
    BY <1>1, <2>1, ModulusShown
  <2> HIDE DEF n
  <2>3. Only(nIn, KeyNAt, n.value)
    BY <1>1, <1>3, <2>2, DecodedThere
  <2> QED BY <2>1, <2>3 DEF Modulus
<1> HIDE DEF n, e
<1>5. IsBuffer(nIn, SCRATCH_BUFFER_SIZE) /\ SignaturesIn(nIn)
  BY <1>1, <1>3, DecodingFits, DecodingKeepsSignatures
<1>6. Only(nIn, JWSPayloadAt, call.doc.payload.value)
  <2>1. \A at \in Int : \A what : at # KeyNAt /\ Only(scratch, at, what) => Only(nIn, at, what)
    BY <1>1, <1>3, DecodedKeeps
  <2> QED BY <1>1, <1>3, <2>1 DEF PayloadIn
<1> HIDE DEF nIn
<1>7. IsBuffer(eIn, SCRATCH_BUFFER_SIZE) /\ SignaturesIn(eIn)
  BY <1>3, <1>5, DecodingFits, DecodingKeepsSignatures
<1>8. \A at \in Int : \A what : at # KeyEAt /\ Only(nIn, at, what) => Only(eIn, at, what)
  BY <1>3, <1>5, DecodedKeeps
<1> HIDE DEF eIn, nOK
<1>9. CASE nOK /\ Decodes(e, SIGNING_KEY_E_SIZE)
  <2>1. Only(eIn, JWSPayloadAt, call.doc.payload.value) /\ Only(eIn, KeyNAt, Modulus(call))
    BY <1>3, <1>4, <1>6, <1>8, <1>9
  <2>2. call' = c /\ scratch' = eIn
    BY <1>1, <1>2, <1>9, Gone
  <2>3. /\ IsContext(cx)
        /\ \A f \in DOMAIN NoContext \ {"nLength", "eLength"} : cx[f] = call.cx[f]
    <3>1. IsContext(call.cx)
      BY <1>1 DEF IsCall
    <3> QED BY <3>1, ContextFields DEF IsContext
  <2> HIDE DEF cx
  <2>4. IsCall(c)
    BY <1>1, <2>3 DEF IsCall
  <2>5. Vouched(c) /\ Modulus(c) = Modulus(call)
    <3>1. c.doc = call.doc /\ \A f \in {"jwk", "root", "n", "e", "alg"} : c.cx[f] = call.cx[f]
      BY <2>3, ContextFields
    <3> QED BY <1>1, <3>1, VouchedKept
  <2>6. PayloadIn(eIn, c)
    BY <1>1, <2>1, <2>3, ContextFields DEF PayloadIn
  <2>7. Stage(eIn, c)
    BY <2>1, <2>5, <2>6 DEF Stage
  <2> HIDE DEF c
  <2> QED BY <1>7, <2>2, <2>4, <2>7 DEF CallInv
<1>10. CASE ~(nOK /\ Decodes(e, SIGNING_KEY_E_SIZE))
  <2>1. Fail /\ scratch' \in {nIn, eIn}
    BY <1>2, <1>10
  <2> QED BY <1>1, <1>5, <1>7, <2>1, Failed
<1> QED BY <1>9, <1>10

\* The value of a member of an object is one of its tokens.
LEMMA ValuedIsToken ==
    ASSUME NEW doc, IsObject(doc), NEW name, NEW t \in Valued(name, doc)
    PROVE  IsToken(t)
<1>1. PICK i \in Members(doc) : i < Len(doc) /\ t = doc[i + 1]
  BY DEF Valued
<1>2. Len(doc) \in Nat /\ i \in 1 .. Len(doc)
  BY MemberIsName DEF IsObject
<1>3. i + 1 \in 1 .. Len(doc)
  BY <1>1, <1>2
<1> QED BY <1>1, <1>3 DEF IsObject

LEMMA StepVerifyJWS ==
    ASSUME CallInv(scratch, call), VerifyJWS
    PROVE  CallInv(scratch', call')
<1> DEFINE input     == <<call.doc.header.value, call.doc.payload.value>>
           hashed    == WithHash(scratch, input)
           n         == Content(scratch, KeyNAt, KeyNAt + call.cx.nLength)
           e         == Content(scratch, KeyEAt, KeyEAt + call.cx.eLength)
           signature == Content(hashed, JWSSignatureAt, JWSSignatureAt + call.cx.nLength)
           usable    == /\ Intact(call.cx.alg) /\ call.cx.alg.token.text = "RS256"
                        /\ IsKey(n, e)
           verified  == usable /\ SignatureOf(signature, n.modulusOf, input)
           c         == [at |-> "VerifySHA", manifest |-> call.manifest, doc |-> call.doc,
                         cx |-> call.cx]
<1>1. /\ IsBuffer(scratch, SCRATCH_BUFFER_SIZE) /\ SignaturesIn(scratch) /\ IsCall(call)
      /\ call.at # "Idle" /\ Vouched(call) /\ PayloadIn(scratch, call)
      /\ Only(scratch, KeyNAt, Modulus(call))
  BY DEF CallInv, Stage, VerifyJWS
<1>2. /\ scratch' = IF usable THEN hashed ELSE scratch
      /\ IF verified THEN Goto("VerifySHA", call.cx) ELSE Fail
  BY DEF VerifyJWS, Imported
<1>3. IsBuffer(hashed, SCRATCH_BUFFER_SIZE) /\ SignaturesIn(hashed)
  BY <1>1, HashingFits, HashingKeepsSignatures
<1>4. Only(hashed, JWSPayloadAt, call.doc.payload.value)
  <2>1. /\ CalculationAt \in Int /\ CalculationAt + SHA256_SIZE \in Int
        /\ JWSPayloadAt \in Int /\ JWSPayloadAt # CalculationAt /\ SCRATCH_BUFFER_SIZE \in Int
    BY RegionsAre, RegionsFit
  <2> QED BY <1>1, <2>1, OnlyKept DEF WithHash, PayloadIn
<1>5. usable => n = Modulus(call)
  <2>1. n \in {Modulus(call), Garbage}
    BY <1>1, ContentOnly
  <2> HIDE DEF n, e
  <2> QED BY <2>1 DEF IsKey
<1> HIDE DEF hashed, n, e
<1>6. CASE verified
  <2>1. Signed(Modulus(call).modulusOf, input)
    <3>1. SignatureOf(signature, Modulus(call).modulusOf, input)
      BY <1>5, <1>6
    <3> QED BY <1>3, <3>1, SignatureMade
  <2>2. call.cx.alg.token = String("RS256")
    <3> DEFINE token == call.cx.alg.token
    <3>1. IsKeyDocument(Key(call)) /\ token \in Valued("alg", Key(call).payload.value)
      BY <1>1, VouchedIs DEF Vouched, HasParts, KeyParts
    <3>2. token.kind = "String" /\ token.text = "RS256"
      BY <1>6, <3>1 DEF IsKeyDocument
    <3>3. IsToken(token)
      BY <3>1, ValuedIsToken DEF IsKeyDocument, Fits
    <3> HIDE DEF token
    <3>4. token = String("RS256")
      BY <3>2, <3>3 DEF IsToken
    <3> QED BY <3>4 DEF token
  <2>3. call' = c /\ scratch' = hashed
    BY <1>1, <1>2, <1>6, Gone
  <2>4. IsCall(c) /\ Vouched(c) /\ Modulus(c) = Modulus(call)
    BY <1>1, VouchedKept DEF IsCall
  <2>5. PayloadIn(hashed, c) /\ UpdateSigned(c)
    BY <1>1, <1>4, <2>1, <2>2, <2>4 DEF PayloadIn, UpdateSigned
  <2>6. Stage(hashed, c)
    BY <2>4, <2>5 DEF Stage
  <2> HIDE DEF c
  <2> QED BY <1>3, <2>3, <2>4, <2>6 DEF CallInv
<1>7. CASE ~verified
  <2>1. Fail /\ scratch' \in {scratch, hashed}
    BY <1>2, <1>7
  <2> QED BY <1>1, <1>3, <2>1, Failed
<1> QED BY <1>6, <1>7

\* The hash of the manifest and the one the update document carries, decoded
\* next to it, are both read as they are.
LEMMA HashesShown ==
    ASSUME NEW b, IsBuffer(b, SCRATCH_BUFFER_SIZE), NEW hash, NEW text, IsText(text),
           Decodes(text, SHA256_SIZE), text.length = SHA256_SIZE
    PROVE  LET withSHA == Write(b, ManifestSHAAt, ManifestSHAAt + SHA256_SIZE, hash)
               parsed  == Decoded(withSHA, text, ParsedSHAAt, SHA256_SIZE)
           IN  /\ Content(parsed, ManifestSHAAt, ManifestSHAAt + SHA256_SIZE) = hash
               /\ Content(parsed, ParsedSHAAt, ParsedSHAAt + SHA256_SIZE) = text.value
<1> DEFINE withSHA == Write(b, ManifestSHAAt, ManifestSHAAt + SHA256_SIZE, hash)
           parsed  == Decoded(withSHA, text, ParsedSHAAt, SHA256_SIZE)
<1>1. /\ ManifestSHAAt \in Int /\ ParsedSHAAt \in Int /\ SHA256_SIZE \in Int /\ 1 <= SHA256_SIZE
      /\ ManifestSHAAt + SHA256_SIZE \in Int /\ ManifestSHAAt < ManifestSHAAt + SHA256_SIZE
      /\ ParsedSHAAt + SHA256_SIZE \in Int /\ ParsedSHAAt < ParsedSHAAt + SHA256_SIZE
      /\ ManifestSHAAt # ParsedSHAAt /\ ManifestSHAAt + SHA256_SIZE <= ParsedSHAAt
      /\ SCRATCH_BUFFER_SIZE \in Int /\ text.length > 0
  BY RegionsAre, RegionsFit
<1>2. IsBuffer(withSHA, SCRATCH_BUFFER_SIZE)
  BY HashingFits
<1>3. /\ Only(withSHA, ManifestSHAAt, hash)
      /\ Holds(withSHA, ManifestSHAAt, ManifestSHAAt + SHA256_SIZE, hash)
  BY <1>1, OnlyWritten
<1> HIDE DEF withSHA
<1>4. /\ Only(parsed, ManifestSHAAt, hash)
      /\ Holds(parsed, ManifestSHAAt, ManifestSHAAt + SHA256_SIZE, hash)
  <2>1. \A at \in Int : \A what : at # ParsedSHAAt /\ Only(withSHA, at, what) =>
          Only(parsed, at, what)
    BY <1>1, <1>2, DecodedKeeps
  <2>2. \A at \in Int, end \in Int : \A what :
          at < end /\ end <= ParsedSHAAt /\ Holds(withSHA, at, end, what) =>
            Holds(parsed, at, end, what)
    BY <1>1, <1>2, DecodedKeeps
  <2> HIDE DEF parsed
  <2> QED BY <1>1, <1>3, <2>1, <2>2
<1>5. /\ Only(parsed, ParsedSHAAt, text.value)
      /\ Holds(parsed, ParsedSHAAt, ParsedSHAAt + SHA256_SIZE, text.value)
  BY <1>1, <1>2, DecodedThere
<1> HIDE DEF parsed
<1>6. Content(parsed, ManifestSHAAt, ManifestSHAAt + SHA256_SIZE) = hash
  BY <1>1, <1>4, ContentHeld
<1>7. Content(parsed, ParsedSHAAt, ParsedSHAAt + SHA256_SIZE) = text.value
  BY <1>1, <1>5, ContentHeld
<1> QED BY <1>6, <1>7 DEF parsed, withSHA

LEMMA StepVerifySHA ==
    ASSUME CallInv(scratch, call), VerifySHA
    PROVE  CallInv(scratch', call')
<1> DEFINE hash    == SHA256(call.manifest)
           withSHA == Write(scratch, ManifestSHAAt, ManifestSHAAt + SHA256_SIZE, hash)
           doc     == call.doc.payload.value
           reader  == ReaderOver(JWSPayloadAt, call.cx.jwsPayloadLength)
           found   == prvFindManifestSHA(reader)
           token   == CurrentToken(found.reader)
           text    == IF found.result = "Success" THEN token.value ELSE Overwritten
           parsed  == Decoded(withSHA, text, ParsedSHAAt, SHA256_SIZE)
           matches == /\ found.result = "Success"
                      /\ Decodes(text, SHA256_SIZE) /\ text.length = SHA256_SIZE
                      /\ Content(parsed, ManifestSHAAt, ManifestSHAAt + SHA256_SIZE) =
                         Content(parsed, ParsedSHAAt, ParsedSHAAt + SHA256_SIZE)
           c       == [at |-> "Authenticated", manifest |-> call.manifest, doc |-> call.doc,
                       cx |-> call.cx]
<1>1. /\ IsBuffer(scratch, SCRATCH_BUFFER_SIZE) /\ SignaturesIn(scratch) /\ IsCall(call)
      /\ call.at # "Idle" /\ Vouched(call) /\ PayloadIn(scratch, call) /\ UpdateSigned(call)
  BY DEF CallInv, Stage, VerifySHA
<1>2. /\ scratch' = IF found.result = "Success" THEN parsed ELSE withSHA
      /\ IF matches THEN Goto("Authenticated", call.cx) ELSE Fail
  BY DEF VerifySHA, SameHash
<1>3. IsBuffer(withSHA, SCRATCH_BUFFER_SIZE) /\ SignaturesIn(withSHA)
  BY <1>1, HashingFits, HashingKeepsSignatures
<1>4. IsBuffer(parsed, SCRATCH_BUFFER_SIZE) /\ SignaturesIn(parsed)
  <2>1. /\ ParsedSHAAt \in Int /\ SHA256_SIZE \in Int /\ 1 <= SHA256_SIZE
        /\ ParsedSHAAt \notin {JWKSignatureAt, JWSSignatureAt}
    BY RegionsAre
  <2> HIDE DEF withSHA, text
  <2> QED BY <1>3, <2>1, DecodingFits, DecodingKeepsSignatures
<1>5. ASSUME matches
      PROVE  Genuine(call.manifest, call.doc)
  <2> DEFINE jwk == Key(call)
  <2>1. /\ jwk \in JWKsIn(call.doc.header.value) /\ call.doc \in Documents
        /\ IsKeyDocument(jwk)
    BY <1>1, VouchedIs
  <2>2. /\ call.cx.root \in RootKeys /\ SignedBy(call.cx.root, jwk)
        /\ String(call.cx.root) \in Valued("kid", jwk.header.value)
    BY <1>1 DEF Vouched, Identified
  <2>3. /\ call.cx.n.token \in Valued("n", jwk.payload.value)
        /\ String("RS256") \in Valued("alg", jwk.payload.value)
        /\ Signed(call.cx.n.token.value.value.modulusOf, <<call.doc.header.value, doc>>)
    BY <1>1 DEF Vouched, HasParts, KeyParts, UpdateSigned, Modulus
  <2>4. IsUpdateDocument(call.doc)
    <3> HIDE DEF jwk
    <3> QED BY <2>1, <2>2, <2>3, SigningKeysAssumption
  <2>5. jwk \in JWKsOf(call.doc)
    BY <1>1, <2>4, KeyShown DEF Vouched, IsUpdateDocument
  <2>6. token \in Valued("sha256", doc) /\ text = token.value
    <3>1. reader \in {Reader(doc), Reader(<< >>)}
      BY <1>1, ReadAs DEF PayloadIn
    <3> HIDE DEF reader
    <3>2. found = StringFound(FirstName(Reader(doc)), "sha256")
      BY <1>5, <3>1, NothingFound DEF prvFindManifestSHA
    <3>3. IsObject(doc)
      BY <2>4 DEF IsUpdateDocument
    <3>4. found.result = "Success"
      BY <1>5
    <3> HIDE DEF found, doc
    <3> QED BY <3>2, <3>3, <3>4, StringFoundValued
  <2>7. IsText(text)
    BY <2>4, <2>6 DEF IsUpdateDocument, AreTexts
  <2>8. /\ Content(parsed, ManifestSHAAt, ManifestSHAAt + SHA256_SIZE) = hash
        /\ Content(parsed, ParsedSHAAt, ParsedSHAAt + SHA256_SIZE) = text.value
    <3> HIDE DEF text, hash
    <3> QED BY <1>1, <1>5, <2>7, HashesShown
  <2>9. token.value.value = SHA256(call.manifest)
    <3> HIDE DEF parsed, text, token
    <3> QED BY <1>5, <2>6, <2>8
  <2> HIDE DEF jwk, token, text, matches
  <2> QED BY <2>2, <2>3, <2>5, <2>6, <2>9 DEF Genuine
<1> HIDE DEF withSHA, parsed
<1>6. CASE matches
  <2>1. call' = c /\ scratch' = parsed
    <3>1. Goto("Authenticated", call.cx)
      <4> HIDE DEF matches
      <4> QED BY <1>2, <1>6
    <3>2. found.result = "Success"
      BY <1>6
    <3> HIDE DEF matches, found
    <3> QED BY <1>1, <1>2, <3>1, <3>2, Gone
  <2>2. IsCall(c) /\ Stage(parsed, c)
    <3> HIDE DEF matches
    <3> QED BY <1>1, <1>5, <1>6 DEF IsCall, Stage
  <2> HIDE DEF c
  <2> QED BY <1>4, <2>1, <2>2 DEF CallInv
<1>7. CASE ~matches
  <2>1. Fail /\ scratch' \in {parsed, withSHA}
    <3> HIDE DEF matches
    <3> QED BY <1>2, <1>7
  <2> QED BY <1>1, <1>3, <1>4, <2>1, Failed
<1> QED BY <1>6, <1>7

LEMMA StepManifestAuthenticate ==
    ASSUME CallInv(scratch, call), NEW manifest, NEW doc \in Documents,
           ManifestAuthenticate(manifest, doc)
    PROVE  CallInv(scratch', call')
<1> DEFINE c == [at |-> IF Splits(doc) THEN "DecodeHeader" ELSE "Failed",
                 manifest |-> manifest, doc |-> doc, cx |-> NoContext]
<1>1. call' = c /\ scratch' = scratch
  BY DEF ManifestAuthenticate
<1>2. IsCall(c)
  BY NoContextIs DEF IsCall
<1>3. Stage(scratch, c)
  BY DEF Stage
<1> HIDE DEF c
<1> QED BY <1>1, <1>2, <1>3 DEF CallInv

LEMMA IdleIs ==
    ASSUME NEW b
    PROVE  IsCall(Idle) /\ Stage(b, Idle)
<1>1. IsCall(Idle)
  BY NoContextIs DEF IsCall, Idle
<1>2. Stage(b, Idle)
  BY DEF Stage, Idle
<1> QED BY <1>1, <1>2

LEMMA StepReturn ==
    ASSUME CallInv(scratch, call), Return
    PROVE  CallInv(scratch', call')
<1>1. call' = Idle /\ scratch' = scratch
  BY DEF Return
<1> QED BY <1>1, IdleIs DEF CallInv

\* Every step of the function keeps what it has found out true.
LEMMA JwsStepKeeps ==
    ASSUME CallInv(scratch, call), JwsStep
    PROVE  CallInv(scratch', call')
  BY StepDecodeHeader, StepFindSJWK, StepDecodeJWK, StepValidateRootKey, StepFindKeyParts,
     StepVerifyJWK, StepDecodeJWS, StepDecodeSigningKey, StepVerifyJWS, StepVerifySHA DEF JwsStep

LEMMA JwsInitially ==
    ASSUME JwsInit
    PROVE  CallInv(scratch, call)
<1>1. scratch = {} /\ call = Idle
  BY DEF JwsInit
<1>2. IsBuffer({}, SCRATCH_BUFFER_SIZE) /\ SignaturesIn({})
  BY DEF IsBuffer, SignaturesIn, Origin
<1> QED BY <1>1, <1>2, IdleIs DEF CallInv

\* What the invariant says of a call that has succeeded.
LEMMA JwsInvSays == JwsInv => AuthenticatedIsGenuine
  BY DEF JwsInv, CallInv, Stage, AuthenticatedIsGenuine

(***************************************************************************)
(* The converse: a call for a document as it should be does not fail.      *)
(* What such a call finds in the buffer, section by section.               *)
(***************************************************************************)
\* The region at that address holds a decoded text, the whole of it.
Held(b, at, text) ==
    Only(b, at, text.value) /\ Holds(b, at, at + text.length, text.value)

LEMMA HeldDecoded ==
    ASSUME NEW b, IsBuffer(b, SCRATCH_BUFFER_SIZE), NEW lo \in Int, NEW room \in Int,
           NEW text, IsText(text), Decodes(text, room), text.length > 0
    PROVE  Held(Decoded(b, text, lo, room), lo, text)
<1>1. SCRATCH_BUFFER_SIZE \in Int
  BY RegionsFit
<1> QED BY <1>1, DecodedThere DEF Held

LEMMA HeldKept ==
    ASSUME NEW b, IsBuffer(b, SCRATCH_BUFFER_SIZE), NEW lo \in Int, NEW room \in Int, 1 <= room,
           NEW other, NEW at \in Int, NEW text, IsText(text), text.length > 0,
           at + text.length <= lo \/ lo + room <= at, Held(b, at, text)
    PROVE  Held(Decoded(b, other, lo, room), at, text)
<1>1. SCRATCH_BUFFER_SIZE \in Int
  BY RegionsFit
<1> DEFINE end == at + text.length
<1>2. end \in Int /\ at < end /\ at # lo
  BY DEF IsText
<1> HIDE DEF end
<1>3. \A a \in Int : \A what : a # lo /\ Only(b, a, what) =>
        Only(Decoded(b, other, lo, room), a, what)
  BY <1>1, DecodedKeeps
<1>4. \A a \in Int, e \in Int : \A what :
        a < e /\ (e <= lo \/ lo + room <= a) /\ Holds(b, a, e, what) =>
          Holds(Decoded(b, other, lo, room), a, e, what)
  BY <1>1, DecodedKeeps
<1> QED BY <1>2, <1>3, <1>4 DEF Held, end

\* What is read of a text that is held, from its first byte on.
LEMMA HeldRead ==
    ASSUME NEW b, IsBuffer(b, SCRATCH_BUFFER_SIZE), NEW at \in Int,
           NEW text, IsText(text), Held(b, at, text), NEW n \in Nat, 0 < n, n <= text.length
    PROVE  /\ Holds(b, at, at + n, text.value)
           /\ Content(b, at, at + n) = text.value
<1>1. PICK p \in b : p.base = at /\ p.what = text.value /\ p.lo <= at /\ at + text.length <= p.hi
  BY DEF Held, Holds
<1>2. p.hi \in Int
  BY DEF IsBuffer, IsPiece
<1>3. at + n \in Int /\ at < at + n /\ at + n <= p.hi
  BY <1>1, <1>2 DEF IsText
<1>4. Holds(b, at, at + n, text.value)
  BY <1>1, <1>3 DEF Holds
<1> QED BY <1>3, <1>4, ContentHeld DEF Held

\* The hash of what was signed overwrites nothing in front of it.
LEMMA HeldHashed ==
    ASSUME NEW b, IsBuffer(b, SCRATCH_BUFFER_SIZE), NEW input, NEW at \in Int,
           NEW text, IsText(text), Held(b, at, text),
           NEW n \in Nat, 0 < n, n <= text.length, at + n <= CalculationAt
    PROVE  /\ Only(WithHash(b, input), at, text.value)
           /\ Holds(WithHash(b, input), at, at + n, text.value)
           /\ Content(WithHash(b, input), at, at + n) = text.value
<1>1. /\ CalculationAt \in Int /\ CalculationAt + SHA256_SIZE \in Int /\ SCRATCH_BUFFER_SIZE \in Int
  BY RegionsAre, RegionsFit
<1> DEFINE end == at + n
<1>2. end \in Int /\ at < end /\ end <= CalculationAt /\ at # CalculationAt
  BY <1>1
<1>3. Holds(b, at, end, text.value)
  BY HeldRead
<1> HIDE DEF end
<1>4. Only(WithHash(b, input), at, text.value)
  BY <1>1, <1>2, OnlyKept DEF WithHash, Held
<1>5. Holds(WithHash(b, input), at, end, text.value)
  BY <1>1, <1>2, <1>3, HoldsKept DEF WithHash
<1>6. Content(WithHash(b, input), at, end) = text.value
  BY <1>2, <1>4, <1>5, ContentHeld
<1> QED BY <1>4, <1>5, <1>6 DEF end

LEMMA HeldReader ==
    ASSUME IsBuffer(scratch, SCRATCH_BUFFER_SIZE), NEW at \in Int,
           NEW text, IsText(text), Held(scratch, at, text), text.length > 0
    PROVE  ReaderOver(at, text.length) = Reader(text.value)
<1>1. text.length \in Nat /\ text.value # Garbage
  BY DEF IsText
<1>2. Content(scratch, at, at + text.length) = text.value
  BY <1>1, HeldRead
<1> QED BY <1>1, <1>2 DEF ReaderOver

(***************************************************************************)
(* The searches find what is there once.                                   *)
(***************************************************************************)
LEMMA FoundThere ==
    ASSUME NEW doc, IsObject(doc), NEW text, Single(text, doc), NEW t \in Valued(text, doc),
           NEW from, \A i \in Members(doc) : doc[i] = Name(text) => from <= i,
           NEW found, Finds(doc, text, from, found)
    PROVE  found.result = "Success" /\ CurrentToken(found.reader) = t
<1>1. PICK i \in Members(doc) : i < Len(doc) /\ doc[i] = Name(text)
  BY DEF Valued
<1>2. found.result = "Success"
  BY <1>1 DEF Finds, NoneNamed
<1>3. CurrentToken(found.reader) \in Valued(text, doc)
  BY <1>2, FoundIsValued
<1> QED BY <1>2, <1>3 DEF Single

LEMMA MembersBehindBegin ==
    ASSUME NEW doc, IsObject(doc)
    PROVE  \A i \in Members(doc) : 2 <= i
<1> SUFFICES ASSUME NEW i \in Members(doc)
             PROVE  2 <= i
  OBVIOUS
<1>1. i \in 1 .. Len(doc) /\ Len(doc) \in Nat /\ doc[i].kind = "PropertyName"
  BY MemberIsName DEF IsObject
<1>2. doc[1] = BeginObject
  BY <1>1 DEF IsObject
<1>3. BeginObject.kind # "PropertyName"
  BY DEF BeginObject, Token
<1> QED BY <1>1, <1>2, <1>3

LEMMA StringFoundThere ==
    ASSUME NEW doc, IsObject(doc), NEW text, Single(text, doc),
           NEW t \in Valued(text, doc), t.kind = "String"
    PROVE  LET found == StringFound(FirstName(Reader(doc)), text)
           IN  found.result = "Success" /\ CurrentToken(found.reader) = t
<1> DEFINE found == Find(FirstName(Reader(doc)), text)
<1>1. Finds(doc, text, 2, found)
  BY FindFromName DEF FirstName
<1>2. found.result = "Success" /\ CurrentToken(found.reader) = t
  <2> HIDE DEF found
  <2> QED BY <1>1, FoundThere, MembersBehindBegin
<1> QED BY <1>2 DEF StringFound, TokenType

LEMMA SignedKeyThere ==
    ASSUME NEW header, IsObject(header), header[2] # Name("sjwk"), Single("sjwk", header),
           NEW t \in Valued("sjwk", header), t.kind = "String"
    PROVE  LET found == prvFindSJWKValue(Reader(header))
           IN  found.result = "Success" /\ CurrentToken(found.reader) = t
<1> DEFINE found == Find(Moved(Reader(header)), "sjwk")
<1>1. Finds(header, "sjwk", 3, found)
  BY FindFromBegin
<1>2. \A i \in Members(header) : header[i] = Name("sjwk") => 3 <= i
  <2>1. \A i \in Members(header) : 2 <= i /\ i \in Nat
    BY MembersBehindBegin, MemberIsName
  <2> QED BY <2>1
<1>3. found.result = "Success" /\ CurrentToken(found.reader) = t
  <2> HIDE DEF found
  <2> QED BY <1>1, <1>2, FoundThere
<1> QED BY <1>3 DEF prvFindSJWKValue, StringFound, TokenType

(***************************************************************************)
(* A document as it should be, and its signing key.                        *)
(***************************************************************************)
Regular(c) == Genuine(c.manifest, c.doc) /\ WellFormed(c.doc)

\* What makes a document genuine, but for the manifest, said of its signing key.
Approved(jwk, doc) ==
    /\ \E root \in RootKeys :
         String(root) \in Valued("kid", jwk.header.value) /\ SignedBy(root, jwk)
    /\ String("RS256") \in Valued("alg", jwk.payload.value)
    /\ \E n \in Valued("n", jwk.payload.value) :
         Signed(n.value.value.modulusOf, <<doc.header.value, doc.payload.value>>)

LEMMA KeysOfAreIn ==
    ASSUME NEW doc, Len(doc.header.value) \in Nat
    PROVE  JWKsOf(doc) \subseteq JWKsIn(doc.header.value)
<1> DEFINE header == doc.header.value
<1> SUFFICES ASSUME NEW t \in Valued("sjwk", header), t.kind = "String"
             PROVE  t.value \in JWKsIn(header)
  BY DEF JWKsOf
<1>1. PICK i \in Members(header) : i < Len(header) /\ header[i] = Name("sjwk") /\ t = header[i + 1]
  BY DEF Valued
<1>2. i \in 1 .. Len(header) /\ i + 1 \in 1 .. Len(header)
  BY <1>1 DEF Members
<1>3. Name("sjwk").kind = "PropertyName" /\ Name("sjwk").text = "sjwk"
  BY DEF Name, Token
<1>4. TokenIsTextEqual([doc |-> header, at |-> i], "sjwk")
  BY <1>1, <1>2, <1>3 DEF TokenIsTextEqual, CurrentToken
<1> QED BY <1>1, <1>2, <1>4 DEF JWKsIn

LEMMA RegularKey ==
    ASSUME NEW c, IsCall(c), c.at # "Idle", Regular(c)
    PROVE  LET found == SearchedKey(c)
               jwk   == CurrentToken(found.reader).value
           IN  /\ IsUpdateDocument(c.doc) /\ found.result = "Success"
               /\ Approved(jwk, c.doc) /\ IsSigningKey(jwk, c.doc)
<1> DEFINE header == c.doc.header.value
<1>1. c.doc \in Documents /\ Len(header) \in Nat
  BY DocumentsAssumption DEF IsCall
<1>2. PICK jwk \in JWKsOf(c.doc) : Approved(jwk, c.doc)
  BY DEF Regular, Genuine, Approved
<1>3. IsUpdateDocument(c.doc)
  <2>1. jwk \in JWKsIn(header)
    BY <1>1, KeysOfAreIn
  <2> QED BY <1>1, <1>2, <2>1, SigningKeysAssumption DEF Approved
<1>4. PICK t \in Valued("sjwk", header) : t.kind = "String" /\ t.value = jwk
  BY DEF JWKsOf
<1>5. IsObject(header)
  BY <1>3 DEF IsUpdateDocument
<1>6. SearchedKey(c).result = "Success" /\ CurrentToken(SearchedKey(c).reader) = t
  <2>1. header[2] # Name("sjwk") /\ Single("sjwk", header)
    BY DEF Regular, WellFormed
  <2> QED BY <1>4, <1>5, <2>1, SignedKeyThere DEF SearchedKey
<1>7. IsSigningKey(jwk, c.doc)
  BY DEF Regular, WellFormed
<1> QED BY <1>2, <1>3, <1>4, <1>6, <1>7

\* What the sections need to know of the key that was found.
LEMMA RegularParts ==
    ASSUME NEW c, IsCall(c), c.at # "Idle", Regular(c), KeyFound(c)
    PROVE  /\ Approved(Key(c), c.doc) /\ IsSigningKey(Key(c), c.doc)
           /\ Trusted(Key(c)) /\ IsKeyDocument(Key(c))
           /\ HasKeyParts(Key(c).payload.value)
<1> DEFINE jwk   == Key(c)
           parts == jwk.payload.value
<1>1. jwk = CurrentToken(SearchedKey(c).reader).value
  BY DEF Key, KeyFound, Span
<1> HIDE DEF jwk
<1>2. Approved(jwk, c.doc) /\ IsSigningKey(jwk, c.doc)
  BY <1>1, RegularKey
<1>3. Trusted(jwk) /\ IsKeyDocument(jwk)
  BY <1>2, KeyShown DEF Approved, Trusted, jwk
<1>4. HasKeyParts(parts)
  <2>1. IsObject(parts) /\ parts[Len(parts)] = EndObject
    BY <1>2, <1>3 DEF IsKeyDocument, Fits, IsSigningKey
  <2>2. \A p \in KeyParts : \E t : t \in Valued(p, parts)
    BY <1>2 DEF Approved, IsSigningKey, KeyParts
  <2>3. \A p \in KeyParts : \A t \in Valued(p, parts) : ~IsEmpty(t)
    BY <1>2 DEF IsSigningKey
  <2>4. \A p \in KeyParts : \A t \in Valued(p, parts) : t.kind = "String"
    BY <1>3, KeyPartsAreStrings
  <2> QED BY <2>1, <2>2, <2>3, <2>4 DEF HasKeyParts
<1> QED BY <1>2, <1>3, <1>4 DEF jwk

\* Where the parts of the signing key are to be found.
SpansIn(c) ==
    \A p \in KeyParts :
      /\ c.cx[p].at = JWKPayloadAt /\ c.cx[p].length = Key(c).payload.length
      /\ c.cx[p].doc = Key(c).payload.value

ModulusIn(b, c)  == Held(b, KeyNAt, c.cx.n.token.value) /\ c.cx.nLength = c.cx.n.token.value.length
ExponentIn(b, c) == Held(b, KeyEAt, c.cx.e.token.value) /\ c.cx.eLength = c.cx.e.token.value.length

\* The call has not failed, and what later sections read is in its region.
Finding(b, c) ==
    /\ c.at # "Failed"
    /\ c.at = "ValidateRootKey" => Held(b, JWKHeaderAt, Key(c).header)
    /\ c.at \in {"ValidateRootKey", "FindKeyParts", "VerifyJWK"} =>
         Held(b, JWKSignatureAt, Key(c).signature)
    /\ c.at \in {"ValidateRootKey", "FindKeyParts", "VerifyJWK", "DecodeJWS", "DecodeSigningKey",
                 "VerifyJWS"} => Held(b, JWKPayloadAt, Key(c).payload)
    /\ c.at \in {"FindKeyParts", "VerifyJWK"} => c.cx.root = Key(c).signature.value.by
    /\ c.at \in {"VerifyJWK", "DecodeJWS", "DecodeSigningKey", "VerifyJWS"} => SpansIn(c)
    /\ c.at \in {"DecodeSigningKey", "VerifyJWS", "VerifySHA"} =>
         Held(b, JWSPayloadAt, c.doc.payload)
    /\ c.at \in {"DecodeSigningKey", "VerifyJWS"} => Held(b, JWSSignatureAt, c.doc.signature)
    /\ c.at = "VerifyJWS" => ModulusIn(b, c) /\ ExponentIn(b, c)

LEMMA NothingNeeded ==
    ASSUME IsCall(call), NEW at \in {"FindSJWK", "DecodeJWK", "Authenticated"}, NEW cx, Goto(at, cx),
           NEW b
    PROVE  Finding(b, call')
<1> DEFINE c == [at |-> at, manifest |-> call.manifest, doc |-> call.doc, cx |-> cx]
<1>1. call' = c
  BY Gone
<1>2. Finding(b, c)
  BY DEF Finding
<1> HIDE DEF c
<1> QED BY <1>1, <1>2

LEMMA FindingAfterDecodeHeader ==
    ASSUME CallInv(scratch, call), Regular(call), DecodeHeader
    PROVE  Finding(scratch', call')
<1>1. IsCall(call)
  BY DEF CallInv
<1>2. Goto("FindSJWK", [call.cx EXCEPT !.headerLength = call.doc.header.length])
  BY DEF DecodeHeader, Regular, WellFormed
<1> QED BY <1>1, <1>2, NothingNeeded

LEMMA FindingAfterFindSJWK ==
    ASSUME CallInv(scratch, call), Regular(call), FindSJWK
    PROVE  Finding(scratch', call')
<1> DEFINE length == call.cx.headerLength
           found  == prvFindSJWKValue(ReaderOver(JWSHeaderAt, length))
<1>1. IsBuffer(scratch, SCRATCH_BUFFER_SIZE) /\ IsCall(call) /\ call.at # "Idle" /\ HeaderIn(scratch, call)
  BY DEF CallInv, Stage, FindSJWK
<1>2. ReaderOver(JWSHeaderAt, length) = Reader(call.doc.header.value)
  <2>1. IsText(call.doc.header) /\ call.doc.header.length > 0 /\ JWSHeaderAt \in Int
    BY <1>1, DocumentsAssumption, RegionsAre DEF IsCall
  <2>2. Held(scratch, JWSHeaderAt, call.doc.header) /\ length = call.doc.header.length
    BY <1>1 DEF Held, HeaderIn
  <2> QED BY <1>1, <2>1, <2>2, HeldReader
<1>3. found = SearchedKey(call)
  BY <1>2 DEF SearchedKey
<1>4. found.result = "Success" /\ Splits(CurrentToken(found.reader).value)
  <2> HIDE DEF found
  <2> QED BY <1>1, <1>3, RegularKey DEF IsSigningKey
<1>5. Goto("DecodeJWK", [call.cx EXCEPT !.reader = found.reader,
                                        !.jwk    = Span(JWSHeaderAt, length, found.reader)])
  BY <1>4 DEF FindSJWK
<1> HIDE DEF found, length
<1> QED BY <1>1, <1>5, NothingNeeded

LEMMA SignatureShown ==
    ASSUME NEW jwk, NEW doc, Approved(jwk, doc), IsSigningKey(jwk, doc)
    PROVE  \E root \in RootKeys :
             /\ String(root) \in Valued("kid", jwk.header.value)
             /\ Shows(jwk.signature, root, <<jwk.header.value, jwk.payload.value>>, RootKeyLength)
             /\ jwk.signature.length > 0 /\ jwk.signature.value.by = root
<1>1. PICK root \in RootKeys : String(root) \in Valued("kid", jwk.header.value)
  BY DEF Approved
<1>2. String(root).text = root
  BY DEF String, Token
<1>3. Shows(jwk.signature, root, <<jwk.header.value, jwk.payload.value>>, RootKeyLength)
  BY <1>1, <1>2 DEF IsSigningKey
<1>4. jwk.signature.length > 0 /\ jwk.signature.value.by = root
  BY <1>3, RootKeyLengthAssumption DEF Shows, IsText
<1> QED BY <1>1, <1>3, <1>4

LEMMA FindingAfterDecodeJWK ==
    ASSUME CallInv(scratch, call), Regular(call), DecodeJWK
    PROVE  Finding(scratch', call')
<1> DEFINE jwk       == Key(call)
           header    == Decoded(scratch, jwk.header, JWKHeaderAt, JWK_HEADER_SIZE)
           content   == Decoded(header, jwk.payload, JWKPayloadAt, JWK_PAYLOAD_SIZE)
           signature == Decoded(content, jwk.signature, JWKSignatureAt, SIGNATURE_SIZE)
           cx == [call.cx EXCEPT !.jwkHeaderLength  = jwk.header.length,
                                 !.jwkPayloadLength = jwk.payload.length]
           c  == [at |-> "ValidateRootKey", manifest |-> call.manifest, doc |-> call.doc,
                  cx |-> cx]
<1>1. /\ IsBuffer(scratch, SCRATCH_BUFFER_SIZE) /\ IsCall(call) /\ call.at # "Idle"
      /\ HeaderIn(scratch, call) /\ KeyFound(call)
  BY DEF CallInv, Stage, DecodeJWK
<1>2. /\ IsKeyDocument(jwk) /\ Approved(jwk, call.doc) /\ IsSigningKey(jwk, call.doc)
  BY <1>1, RegularParts
<1>3. /\ Decodes(jwk.header, JWK_HEADER_SIZE) /\ IsText(jwk.header) /\ jwk.header.length > 0
      /\ Decodes(jwk.payload, JWK_PAYLOAD_SIZE) /\ IsText(jwk.payload) /\ jwk.payload.length > 0
      /\ Decodes(jwk.signature, SIGNATURE_SIZE) /\ IsText(jwk.signature)
      /\ jwk.signature.length > 0
  <2> HIDE DEF jwk
  <2>1. IsText(jwk.signature) /\ Decodes(jwk.signature, SIGNATURE_SIZE) /\ jwk.signature.length > 0
    BY <1>2, SignatureShown DEF Shows
  <2> QED BY <1>2, <2>1 DEF IsKeyDocument, Fits
<1>4. TextOf(call.cx.jwk) = jwk
  BY <1>1, KeyIntact
<1> HIDE DEF jwk
<1>5. scratch' = signature /\ Goto("ValidateRootKey", cx)
  BY <1>3, <1>4 DEF DecodeJWK
<1>6. /\ JWKHeaderAt \in Int /\ JWK_HEADER_SIZE \in Int /\ 1 <= JWK_HEADER_SIZE
      /\ JWKPayloadAt \in Int /\ JWK_PAYLOAD_SIZE \in Int /\ 1 <= JWK_PAYLOAD_SIZE
      /\ JWKSignatureAt \in Int /\ SIGNATURE_SIZE \in Int /\ 1 <= SIGNATURE_SIZE
      /\ JWKPayloadAt + JWK_PAYLOAD_SIZE <= JWKHeaderAt
      /\ JWKHeaderAt + jwk.header.length <= JWKSignatureAt
      /\ JWKPayloadAt + jwk.payload.length <= JWKSignatureAt
  BY <1>3, RegionsAre DEF IsText, Decodes
<1>7. IsBuffer(header, SCRATCH_BUFFER_SIZE) /\ Held(header, JWKHeaderAt, jwk.header)
  BY <1>1, <1>3, <1>6, DecodingFits, HeldDecoded
<1> HIDE DEF header
<1>8. /\ IsBuffer(content, SCRATCH_BUFFER_SIZE)
      /\ Held(content, JWKHeaderAt, jwk.header) /\ Held(content, JWKPayloadAt, jwk.payload)
  <2>1. Held(content, JWKHeaderAt, jwk.header)
    BY <1>3, <1>6, <1>7, HeldKept
  <2> QED BY <1>3, <1>6, <1>7, <2>1, DecodingFits, HeldDecoded
<1> HIDE DEF content
<1>9. /\ Held(signature, JWKHeaderAt, jwk.header) /\ Held(signature, JWKPayloadAt, jwk.payload)
      /\ Held(signature, JWKSignatureAt, jwk.signature)
  <2>1. Held(signature, JWKHeaderAt, jwk.header)
    BY <1>3, <1>6, <1>8, HeldKept
  <2>2. Held(signature, JWKPayloadAt, jwk.payload)
    BY <1>3, <1>6, <1>8, HeldKept
  <2> QED BY <1>3, <1>6, <1>8, <2>1, <2>2, HeldDecoded
<1> HIDE DEF signature
<1>10. call' = c
  BY <1>1, <1>5, Gone
<1>11. cx.jwk = call.cx.jwk
  BY <1>1, ContextFields DEF IsCall, IsContext
<1> HIDE DEF cx
<1>12. Key(c) = jwk
  BY <1>11 DEF Key, jwk
<1>13. Finding(signature, c)
  BY <1>9, <1>12 DEF Finding
<1> HIDE DEF c
<1> QED BY <1>5, <1>10, <1>13

LEMMA FindingAfterValidateRootKey ==
    ASSUME CallInv(scratch, call), Regular(call), Finding(scratch, call), ValidateRootKey
    PROVE  Finding(scratch', call')
<1> DEFINE jwk    == Key(call)
           length == call.cx.jwkHeaderLength
           found  == prvFindRootKeyValue(ReaderOver(JWKHeaderAt, length))
           kid    == CurrentToken(found.reader).text
           cx     == [call.cx EXCEPT !.root = kid]
           c      == [at |-> "FindKeyParts", manifest |-> call.manifest, doc |-> call.doc,
                      cx |-> cx]
<1>1. /\ IsBuffer(scratch, SCRATCH_BUFFER_SIZE) /\ IsCall(call) /\ call.at # "Idle"
      /\ scratch' = scratch /\ KeyFound(call)
      /\ Trusted(jwk) => KeyHeaderIn(scratch, call)
  BY DEF CallInv, Stage, ValidateRootKey
<1>2. /\ Held(scratch, JWKHeaderAt, jwk.header) /\ Held(scratch, JWKPayloadAt, jwk.payload)
      /\ Held(scratch, JWKSignatureAt, jwk.signature)
  BY DEF Finding, ValidateRootKey
<1>3. /\ IsKeyDocument(jwk) /\ Approved(jwk, call.doc) /\ IsSigningKey(jwk, call.doc) /\ Trusted(jwk)
  BY <1>1, RegularParts
<1>4. length = jwk.header.length /\ length > 0 /\ IsText(jwk.header) /\ IsObject(jwk.header.value)
  BY <1>1, <1>3 DEF KeyHeaderIn, IsKeyDocument, Fits
<1> HIDE DEF jwk
<1>5. PICK root \in RootKeys :
        String(root) \in Valued("kid", jwk.header.value) /\ jwk.signature.value.by = root
  BY <1>3, SignatureShown
<1>6. found = StringFound(FirstName(Reader(jwk.header.value)), "kid")
  <2>1. ReaderOver(JWKHeaderAt, length) = Reader(jwk.header.value)
    BY <1>1, <1>2, <1>4, RegionsAre, HeldReader
  <2> QED BY <2>1 DEF prvFindRootKeyValue
<1>7. String(root).kind = "String" /\ String(root).text = root
  BY DEF String, Token
<1>8. found.result = "Success" /\ kid = root
  <2>1. Single("kid", jwk.header.value)
    BY <1>3 DEF IsSigningKey
  <2> HIDE DEF found
  <2> QED BY <1>4, <1>5, <1>6, <1>7, <2>1, StringFoundThere
<1>9. Goto("FindKeyParts", cx)
  BY <1>4, <1>8 DEF ValidateRootKey
<1> HIDE DEF found, kid
<1>10. call' = c
  BY <1>1, <1>9, Gone
<1>11. cx.jwk = call.cx.jwk /\ cx.root = kid
  BY <1>1, ContextFields DEF IsCall, IsContext
<1> HIDE DEF cx
<1>12. Key(c) = jwk /\ c.cx.root = jwk.signature.value.by
  BY <1>5, <1>8, <1>11 DEF Key, jwk
<1>13. Finding(scratch, c)
  BY <1>2, <1>12 DEF Finding
<1> HIDE DEF c
<1> QED BY <1>1, <1>10, <1>13

LEMMA FindingAfterFindKeyParts ==
    ASSUME CallInv(scratch, call), Regular(call), Finding(scratch, call), FindKeyParts
    PROVE  Finding(scratch', call')
<1> DEFINE jwk     == Key(call)
           length  == call.cx.jwkPayloadLength
           reader  == ReaderOver(JWKPayloadAt, length)
           parts   == prvFindKeyParts(reader)
           Part(p) == Span(JWKPayloadAt, length, [reader EXCEPT !.at = parts[p]])
           cx == [call.cx EXCEPT !.n = Part("n"), !.e = Part("e"), !.alg = Part("alg")]
           c  == [at |-> "VerifyJWK", manifest |-> call.manifest, doc |-> call.doc, cx |-> cx]
<1>1. /\ IsBuffer(scratch, SCRATCH_BUFFER_SIZE) /\ IsCall(call) /\ call.at # "Idle"
      /\ scratch' = scratch /\ KeyFound(call)
      /\ Trusted(jwk) => KeyPayloadIn(scratch, call)
  BY DEF CallInv, Stage, FindKeyParts
<1>2. /\ Held(scratch, JWKPayloadAt, jwk.payload) /\ Held(scratch, JWKSignatureAt, jwk.signature)
      /\ call.cx.root = jwk.signature.value.by
  BY DEF Finding, FindKeyParts
<1>3. IsKeyDocument(jwk) /\ Trusted(jwk) /\ HasKeyParts(jwk.payload.value)
  BY <1>1, RegularParts
<1>4. length = jwk.payload.length /\ length > 0 /\ IsText(jwk.payload)
  BY <1>1, <1>3 DEF KeyPayloadIn, IsKeyDocument, Fits
<1> HIDE DEF jwk
<1>5. reader = Reader(jwk.payload.value)
  BY <1>1, <1>2, <1>4, RegionsAre, HeldReader
<1>6. parts.at # 0 /\ HasAll(parts)
  <2> HIDE DEF reader
  <2> QED BY <1>3, <1>5, KeyPartsThere
<1>7. length # 0
  BY <1>4 DEF IsText
<1>8. Goto("VerifyJWK", cx)
  BY <1>6, <1>7 DEF FindKeyParts
<1>9. \A p \in KeyParts : /\ Part(p).at = JWKPayloadAt /\ Part(p).length = jwk.payload.length
                          /\ Part(p).doc = jwk.payload.value
  <2> HIDE DEF reader, length, parts
  <2> QED BY <1>4, <1>5 DEF Span, Reader
<1>10. call' = c
  BY <1>1, <1>8, Gone
<1> HIDE DEF Part
<1>11. /\ cx.jwk = call.cx.jwk /\ cx.root = call.cx.root
       /\ \A p \in KeyParts : cx[p] = Part(p)
  BY <1>1, ContextFields DEF IsCall, IsContext, KeyParts
<1> HIDE DEF cx
<1>12. Key(c) = jwk /\ SpansIn(c)
  <2>1. c.cx = cx
    OBVIOUS
  <2>2. Key(c) = jwk
    BY <1>11, <2>1 DEF Key, jwk
  <2> HIDE DEF c
  <2> QED BY <1>9, <1>11, <2>1, <2>2 DEF SpansIn
<1>13. Finding(scratch, c)
  BY <1>2, <1>11, <1>12 DEF Finding
<1> HIDE DEF c
<1> QED BY <1>1, <1>10, <1>13

LEMMA FindingAfterVerifyJWK ==
    ASSUME CallInv(scratch, call), Regular(call), Finding(scratch, call), VerifyJWK
    PROVE  Finding(scratch', call')
<1> DEFINE jwk    == Key(call)
           input  == <<jwk.header.value, jwk.payload.value>>
           hashed == WithHash(scratch, input)
           shown  == Content(hashed, JWKSignatureAt, JWKSignatureAt + RootKeyLength)
           c      == [at |-> "DecodeJWS", manifest |-> call.manifest, doc |-> call.doc,
                      cx |-> call.cx]
<1>1. /\ IsBuffer(scratch, SCRATCH_BUFFER_SIZE) /\ IsCall(call) /\ call.at # "Idle"
      /\ HeaderIn(scratch, call) /\ KeyFound(call)
  BY DEF CallInv, Stage, VerifyJWK
<1>2. /\ Held(scratch, JWKPayloadAt, jwk.payload) /\ Held(scratch, JWKSignatureAt, jwk.signature)
      /\ call.cx.root = jwk.signature.value.by /\ SpansIn(call)
  BY DEF Finding, VerifyJWK
<1>3. IsKeyDocument(jwk) /\ Approved(jwk, call.doc) /\ IsSigningKey(jwk, call.doc)
  BY <1>1, RegularParts
<1>4. TextOf(call.cx.jwk) = jwk
  BY <1>1, KeyIntact
<1> HIDE DEF jwk
<1>5. Shows(jwk.signature, call.cx.root, input, RootKeyLength)
  BY <1>2, <1>3, SignatureShown
<1>6. SignatureOf(shown, call.cx.root, input)
  <2>1. /\ IsText(jwk.signature) /\ RootKeyLength \in Nat /\ 0 < RootKeyLength
        /\ RootKeyLength <= jwk.signature.length /\ jwk.signature.length <= SIGNATURE_SIZE
        /\ jwk.signature.value = [by |-> call.cx.root, over |-> input]
    BY <1>5, RootKeyLengthAssumption DEF Shows, Decodes
  <2>2. JWKSignatureAt \in Int /\ JWKSignatureAt + RootKeyLength <= CalculationAt
    BY <2>1, RegionsAre DEF IsText
  <2> HIDE DEF input
  <2>3. shown = jwk.signature.value
    BY <1>1, <1>2, <2>1, <2>2, HeldHashed
  <2> HIDE DEF shown
  <2> QED BY <2>1, <2>3 DEF SignatureOf, IsText
<1>7. Held(hashed, JWKPayloadAt, jwk.payload)
  <2>1. /\ IsText(jwk.payload) /\ jwk.payload.length \in Nat /\ 0 < jwk.payload.length
        /\ JWKPayloadAt \in Int /\ JWKPayloadAt + jwk.payload.length <= CalculationAt
    BY <1>3, RegionsAre DEF IsKeyDocument, Fits, IsText, Decodes
  <2> QED BY <1>1, <1>2, <2>1, HeldHashed DEF Held
<1>8. scratch' = hashed /\ Goto("DecodeJWS", call.cx)
  BY <1>4, <1>6 DEF VerifyJWK
<1> HIDE DEF hashed, shown
<1>9. call' = c
  BY <1>1, <1>8, Gone
<1>10. Key(c) = jwk /\ SpansIn(c)
  BY <1>2 DEF Key, SpansIn, jwk
<1>11. Finding(hashed, c)
  BY <1>7, <1>10 DEF Finding
<1> HIDE DEF c
<1> QED BY <1>8, <1>9, <1>11

\* The signature of the document is the signing key's, and long enough for it.
LEMMA UpdateShown ==
    ASSUME NEW c, IsCall(c), c.at # "Idle", Regular(c), Vouched(c)
    PROVE  LET n == c.cx.n.token.value
               e == c.cx.e.token.value
           IN  /\ Shows(c.doc.signature, c.doc.signature.value.by,
                        <<c.doc.header.value, c.doc.payload.value>>, n.length)
               /\ Decodes(n, RSA3072_SIZE) /\ n.value = [modulusOf |-> c.doc.signature.value.by]
               /\ IsText(n) /\ n.length > 0
               /\ Decodes(e, SIGNING_KEY_E_SIZE)
               /\ e.value = [exponentOf |-> c.doc.signature.value.by]
               /\ IsText(e) /\ e.length > 0
               /\ c.cx.alg.token = String("RS256")
<1> DEFINE jwk   == Key(c)
           parts == jwk.payload.value
           n     == c.cx.n.token
           e     == c.cx.e.token
           alg   == c.cx.alg.token
<1>1. /\ n \in Valued("n", parts) /\ e \in Valued("e", parts) /\ alg \in Valued("alg", parts)
      /\ ~IsEmpty(e)
  BY DEF Vouched, HasParts, KeyParts
<1>2. IsKeyDocument(jwk) /\ Approved(jwk, c.doc) /\ IsSigningKey(jwk, c.doc)
  BY RegularParts DEF Vouched
<1>3. IsText(n.value) /\ n.value.length > 0
  BY ModulusShown
<1>4. IsText(e.value) /\ e.value.length > 0
  <2>1. e = Opaque(e.value) /\ IsText(e.value)
    BY <1>1, <1>2 DEF IsKeyDocument, AreTexts
  <2> HIDE DEF e
  <2> QED BY <1>1, <2>1, TextShown
<1> HIDE DEF jwk, n, e, alg
<1>5. /\ Shows(c.doc.signature, c.doc.signature.value.by,
               <<c.doc.header.value, c.doc.payload.value>>, n.value.length)
      /\ Decodes(n.value, RSA3072_SIZE)
      /\ n.value.value = [modulusOf |-> c.doc.signature.value.by]
  BY <1>1, <1>2 DEF IsSigningKey
<1>6. /\ Single("e", parts) /\ Single("alg", parts)
      /\ \E t \in Valued("e", parts) :
           /\ Decodes(t.value, SIGNING_KEY_E_SIZE)
           /\ t.value.value = [exponentOf |-> c.doc.signature.value.by]
  BY <1>2 DEF IsSigningKey, KeyParts
<1>7. /\ Decodes(e.value, SIGNING_KEY_E_SIZE)
      /\ e.value.value = [exponentOf |-> c.doc.signature.value.by]
  BY <1>1, <1>6 DEF Single
<1>8. alg = String("RS256")
  BY <1>1, <1>2, <1>6 DEF Single, Approved
<1> QED BY <1>3, <1>4, <1>5, <1>7, <1>8 DEF n, e, alg

LEMMA PayloadShown ==
    ASSUME NEW c, c.doc \in Documents, Regular(c)
    PROVE  IsText(c.doc.payload) /\ c.doc.payload.length \in 1 .. JWS_PAYLOAD_SIZE
<1> DEFINE text == c.doc.payload
<1>1. IsText(text) /\ text.length > 0
  BY DocumentsAssumption
<1>2. text.length <= JWS_PAYLOAD_SIZE
  BY DEF Regular, WellFormed, Decodes
<1> HIDE DEF text
<1>3. text.length \in 1 .. JWS_PAYLOAD_SIZE
  BY <1>1, <1>2, RegionsAre DEF IsText
<1> QED BY <1>1, <1>3 DEF text

LEMMA FindingAfterDecodeJWS ==
    ASSUME CallInv(scratch, call), Regular(call), Finding(scratch, call), DecodeJWS
    PROVE  Finding(scratch', call')
<1> DEFINE text      == call.doc
           key       == Key(call).payload
           content   == Decoded(scratch, text.payload, JWSPayloadAt, JWS_PAYLOAD_SIZE)
           signature == Decoded(content, text.signature, JWSSignatureAt, SIGNATURE_SIZE)
           cx == [call.cx EXCEPT !.jwsPayloadLength = text.payload.length]
           c  == [at |-> "DecodeSigningKey", manifest |-> call.manifest, doc |-> call.doc,
                  cx |-> cx]
<1>1. /\ IsBuffer(scratch, SCRATCH_BUFFER_SIZE) /\ IsCall(call) /\ call.at # "Idle"
      /\ Vouched(call) /\ call.doc \in Documents
  BY DEF CallInv, Stage, DecodeJWS, IsCall
<1>2. Held(scratch, JWKPayloadAt, key) /\ SpansIn(call)
  BY DEF Finding, DecodeJWS
<1>3. /\ IsText(key) /\ key.length > 0 /\ key.length <= JWK_PAYLOAD_SIZE
  BY <1>1, VouchedIs DEF IsKeyDocument, Fits, Decodes
<1>4. /\ Decodes(text.payload, JWS_PAYLOAD_SIZE) /\ IsText(text.payload) /\ text.payload.length > 0
      /\ Decodes(text.signature, SIGNATURE_SIZE) /\ IsText(text.signature)
      /\ text.signature.length > 0
  BY <1>1, DocumentsAssumption, UpdateShown DEF Regular, WellFormed, Splits, Shows
<1>5. scratch' = signature /\ Goto("DecodeSigningKey", cx)
  BY <1>4 DEF DecodeJWS
<1> HIDE DEF key, text
<1>6. /\ JWSPayloadAt \in Int /\ JWS_PAYLOAD_SIZE \in Int /\ 1 <= JWS_PAYLOAD_SIZE
      /\ JWKPayloadAt \in Int
      /\ JWSSignatureAt \in Int /\ SIGNATURE_SIZE \in Int /\ 1 <= SIGNATURE_SIZE
      /\ JWKPayloadAt + key.length <= JWSPayloadAt
      /\ JWKPayloadAt + key.length <= JWSSignatureAt
      /\ JWSPayloadAt + text.payload.length <= JWSSignatureAt
  BY <1>3, <1>4, RegionsAre DEF IsText, Decodes
<1>7. /\ IsBuffer(content, SCRATCH_BUFFER_SIZE)
      /\ Held(content, JWKPayloadAt, key) /\ Held(content, JWSPayloadAt, text.payload)
  <2>1. Held(content, JWKPayloadAt, key)
    BY <1>1, <1>2, <1>3, <1>6, HeldKept
  <2> QED BY <1>1, <1>4, <1>6, <2>1, DecodingFits, HeldDecoded
<1> HIDE DEF content
<1>8. /\ Held(signature, JWKPayloadAt, key) /\ Held(signature, JWSPayloadAt, text.payload)
      /\ Held(signature, JWSSignatureAt, text.signature)
  <2>1. Held(signature, JWKPayloadAt, key)
    BY <1>3, <1>6, <1>7, HeldKept
  <2>2. Held(signature, JWSPayloadAt, text.payload)
    BY <1>4, <1>6, <1>7, HeldKept
  <2> QED BY <1>4, <1>6, <1>7, <2>1, <2>2, HeldDecoded
<1> HIDE DEF signature
<1>9. call' = c
  BY <1>1, <1>5, Gone
<1>10. cx.jwk = call.cx.jwk /\ \A p \in KeyParts : cx[p] = call.cx[p]
  BY <1>1, ContextFields DEF IsCall, IsContext, KeyParts
<1> HIDE DEF cx
<1>11. Key(c) = Key(call) /\ SpansIn(c)
  BY <1>2, <1>10 DEF Key, SpansIn
<1>12. Finding(signature, c)
  BY <1>8, <1>11 DEF Finding, key, text
<1> HIDE DEF c
<1> QED BY <1>5, <1>9, <1>12

\* What a span shows while the document under it is held.
LEMMA SpanShown ==
    ASSUME NEW span, NEW text, IsText(text), Held(scratch, span.at, text),
           span.length = text.length, span.doc = text.value
    PROVE  Intact(span) /\ TextOf(span) = span.token.value
  BY DEF Intact, TextOf, Held

LEMMA FindingAfterDecodeSigningKey ==
    ASSUME CallInv(scratch, call), Regular(call), Finding(scratch, call), DecodeSigningKey
    PROVE  Finding(scratch', call')
<1> DEFINE key == Key(call).payload
           n   == call.cx.n.token.value
           e   == call.cx.e.token.value
           nIn == Decoded(scratch, n, KeyNAt, RSA3072_SIZE)
           eIn == Decoded(nIn, e, KeyEAt, SIGNING_KEY_E_SIZE)
           cx  == [call.cx EXCEPT !.nLength = n.length, !.eLength = e.length]
           c   == [at |-> "VerifyJWS", manifest |-> call.manifest, doc |-> call.doc, cx |-> cx]
           payload   == call.doc.payload
           signature == call.doc.signature
<1>1. /\ IsBuffer(scratch, SCRATCH_BUFFER_SIZE) /\ IsCall(call) /\ call.at # "Idle"
      /\ Vouched(call) /\ call.doc \in Documents
  BY DEF CallInv, Stage, DecodeSigningKey, IsCall
<1>2. /\ Held(scratch, JWKPayloadAt, key) /\ SpansIn(call)
      /\ Held(scratch, JWSPayloadAt, payload) /\ Held(scratch, JWSSignatureAt, signature)
  BY DEF Finding, DecodeSigningKey
<1>3. /\ IsText(key) /\ key.length > 0 /\ key.length <= JWK_PAYLOAD_SIZE
  BY <1>1, VouchedIs DEF IsKeyDocument, Fits, Decodes
<1>4. TextOf(call.cx.n) = n /\ TextOf(call.cx.e) = e
  <2>1. \A p \in KeyParts : /\ call.cx[p].at = JWKPayloadAt /\ call.cx[p].length = key.length
                            /\ call.cx[p].doc = key.value
    BY <1>2 DEF SpansIn
  <2>2. "n" \in KeyParts /\ "e" \in KeyParts
    BY DEF KeyParts
  <2> HIDE DEF key
  <2> QED BY <1>2, <1>3, <2>1, <2>2, SpanShown
<1>5. /\ Decodes(n, RSA3072_SIZE) /\ IsText(n) /\ n.length > 0
      /\ Decodes(e, SIGNING_KEY_E_SIZE) /\ IsText(e) /\ e.length > 0
      /\ IsText(signature) /\ signature.length \in 1 .. SIGNATURE_SIZE
  <2>1. /\ Shows(signature, signature.value.by, <<call.doc.header.value, payload.value>>, n.length)
        /\ Decodes(n, RSA3072_SIZE) /\ IsText(n) /\ n.length > 0
        /\ Decodes(e, SIGNING_KEY_E_SIZE) /\ IsText(e) /\ e.length > 0
    BY <1>1, UpdateShown
  <2> HIDE DEF n, e, signature
  <2> QED BY <2>1 DEF Shows, IsText, Decodes
<1>6. IsText(payload) /\ payload.length \in 1 .. JWS_PAYLOAD_SIZE
  BY <1>1, PayloadShown
<1>7. scratch' = eIn /\ Goto("VerifyJWS", cx)
  BY <1>4, <1>5 DEF DecodeSigningKey
<1> HIDE DEF key, n, e, payload, signature
<1>8. /\ KeyNAt \in Int /\ RSA3072_SIZE \in Int /\ 1 <= RSA3072_SIZE
      /\ KeyEAt \in Int /\ SIGNING_KEY_E_SIZE \in Int /\ 1 <= SIGNING_KEY_E_SIZE
      /\ JWKPayloadAt \in Int /\ JWSPayloadAt \in Int /\ JWSSignatureAt \in Int
      /\ JWKPayloadAt + key.length <= KeyNAt /\ JWSPayloadAt + payload.length <= KeyNAt
      /\ JWSSignatureAt + signature.length <= KeyNAt
      /\ JWKPayloadAt + key.length <= KeyEAt /\ JWSPayloadAt + payload.length <= KeyEAt
      /\ JWSSignatureAt + signature.length <= KeyEAt /\ KeyNAt + n.length <= KeyEAt
      /\ signature.length > 0 /\ payload.length > 0
  BY <1>3, <1>5, <1>6, RegionsAre DEF IsText, Decodes
<1>9. /\ IsBuffer(nIn, SCRATCH_BUFFER_SIZE) /\ Held(nIn, KeyNAt, n)
      /\ Held(nIn, JWKPayloadAt, key) /\ Held(nIn, JWSPayloadAt, payload)
      /\ Held(nIn, JWSSignatureAt, signature)
  <2>1. Held(nIn, JWKPayloadAt, key)
    BY <1>1, <1>2, <1>3, <1>8, HeldKept
  <2>2. Held(nIn, JWSPayloadAt, payload)
    BY <1>1, <1>2, <1>6, <1>8, HeldKept
  <2>3. Held(nIn, JWSSignatureAt, signature)
    BY <1>1, <1>2, <1>5, <1>8, HeldKept
  <2> QED BY <1>1, <1>5, <1>8, <2>1, <2>2, <2>3, DecodingFits, HeldDecoded
<1> HIDE DEF nIn
<1>10. /\ Held(eIn, KeyNAt, n) /\ Held(eIn, KeyEAt, e)
       /\ Held(eIn, JWKPayloadAt, key) /\ Held(eIn, JWSPayloadAt, payload)
       /\ Held(eIn, JWSSignatureAt, signature)
  <2>1. Held(eIn, JWKPayloadAt, key)
    BY <1>3, <1>8, <1>9, HeldKept
  <2>2. Held(eIn, JWSPayloadAt, payload)
    BY <1>6, <1>8, <1>9, HeldKept
  <2>3. Held(eIn, JWSSignatureAt, signature)
    BY <1>5, <1>8, <1>9, HeldKept
  <2>4. Held(eIn, KeyNAt, n)
    BY <1>5, <1>8, <1>9, HeldKept
  <2> QED BY <1>5, <1>8, <1>9, <2>1, <2>2, <2>3, <2>4, HeldDecoded
<1> HIDE DEF eIn
<1>11. call' = c
  BY <1>1, <1>7, Gone
<1>12. /\ cx.jwk = call.cx.jwk /\ \A p \in KeyParts : cx[p] = call.cx[p]
       /\ cx.n = call.cx.n /\ cx.e = call.cx.e /\ cx.nLength = n.length /\ cx.eLength = e.length
  BY <1>1, ContextFields DEF IsCall, IsContext, KeyParts
<1> HIDE DEF cx
<1>13. Key(c) = Key(call) /\ SpansIn(c)
  BY <1>2, <1>12 DEF Key, SpansIn
<1>14. ModulusIn(eIn, c) /\ ExponentIn(eIn, c)
  BY <1>10, <1>12 DEF ModulusIn, ExponentIn, n, e
<1>15. Finding(eIn, c)
  BY <1>10, <1>13, <1>14 DEF Finding, key, payload, signature
<1> HIDE DEF c
<1> QED BY <1>7, <1>11, <1>15

LEMMA FindingAfterVerifyJWS ==
    ASSUME CallInv(scratch, call), Regular(call), Finding(scratch, call), VerifyJWS
    PROVE  Finding(scratch', call')
<1> DEFINE input     == <<call.doc.header.value, call.doc.payload.value>>
           hashed    == WithHash(scratch, input)
           signer    == call.doc.signature.value.by
           nText     == call.cx.n.token.value
           eText     == call.cx.e.token.value
           nLength   == call.cx.nLength
           eLength   == call.cx.eLength
           n         == Content(scratch, KeyNAt, KeyNAt + nLength)
           e         == Content(scratch, KeyEAt, KeyEAt + eLength)
           shown     == Content(hashed, JWSSignatureAt, JWSSignatureAt + nLength)
           key       == Key(call).payload
           payload   == call.doc.payload
           signature == call.doc.signature
           c         == [at |-> "VerifySHA", manifest |-> call.manifest, doc |-> call.doc,
                         cx |-> call.cx]
<1>1. /\ IsBuffer(scratch, SCRATCH_BUFFER_SIZE) /\ IsCall(call) /\ call.at # "Idle"
      /\ Vouched(call) /\ call.doc \in Documents
  BY DEF CallInv, Stage, VerifyJWS, IsCall
<1>2. /\ Held(scratch, JWKPayloadAt, key) /\ SpansIn(call)
      /\ Held(scratch, JWSPayloadAt, payload) /\ Held(scratch, JWSSignatureAt, signature)
      /\ Held(scratch, KeyNAt, nText) /\ nLength = nText.length
      /\ Held(scratch, KeyEAt, eText) /\ eLength = eText.length
  BY DEF Finding, ModulusIn, ExponentIn, VerifyJWS
<1>3. /\ Shows(signature, signer, input, nText.length)
      /\ Decodes(nText, RSA3072_SIZE) /\ nText.value = [modulusOf |-> signer]
      /\ IsText(nText) /\ nText.length > 0
      /\ eText.value = [exponentOf |-> signer] /\ IsText(eText) /\ eText.length > 0
      /\ call.cx.alg.token = String("RS256")
  BY <1>1, UpdateShown
<1>4. Intact(call.cx.alg) /\ call.cx.alg.token.text = "RS256"
  <2>1. IsText(key)
    BY <1>1, VouchedIs DEF IsKeyDocument, Fits
  <2>2. /\ call.cx.alg.at = JWKPayloadAt /\ call.cx.alg.length = key.length
        /\ call.cx.alg.doc = key.value
    BY <1>2 DEF SpansIn, KeyParts
  <2>3. String("RS256").text = "RS256"
    BY DEF String, Token
  <2> HIDE DEF key
  <2> QED BY <1>2, <1>3, <2>1, <2>2, <2>3, SpanShown
<1>5. IsText(payload) /\ payload.length \in 1 .. JWS_PAYLOAD_SIZE
  BY <1>1, PayloadShown
<1> HIDE DEF nText, eText, nLength, eLength, signature, payload, signer, key, input
<1>6. n = [modulusOf |-> signer] /\ e = [exponentOf |-> signer] /\ IsKey(n, e)
  <2>1. /\ KeyNAt \in Int /\ KeyEAt \in Int /\ nLength \in Nat /\ eLength \in Nat
        /\ 0 < nLength /\ 0 < eLength
    BY <1>2, <1>3, RegionsAre DEF IsText
  <2>2. n = nText.value
    BY <1>1, <1>2, <1>3, <2>1, HeldRead
  <2>3. e = eText.value
    BY <1>1, <1>2, <1>3, <2>1, HeldRead
  <2> HIDE DEF n, e
  <2>4. n # Garbage /\ DOMAIN n = {"modulusOf"} /\ e = [exponentOf |-> n.modulusOf]
    BY <1>3, <2>2, <2>3 DEF IsText
  <2> QED BY <1>3, <2>2, <2>3, <2>4 DEF IsKey
<1>7. SignatureOf(shown, signer, input)
  <2>1. /\ IsText(signature) /\ nLength \in Nat /\ 0 < nLength /\ nLength <= signature.length
        /\ nLength <= RSA3072_SIZE /\ signature.value = [by |-> signer, over |-> input]
    BY <1>2, <1>3 DEF Shows, Decodes, IsText
  <2>2. JWSSignatureAt \in Int /\ JWSSignatureAt + nLength <= CalculationAt
    BY <2>1, RegionsAre
  <2>3. shown = signature.value
    BY <1>1, <1>2, <2>1, <2>2, HeldHashed
  <2> HIDE DEF shown
  <2> QED BY <2>1, <2>3 DEF SignatureOf, IsText
<1>8. Held(hashed, JWSPayloadAt, payload)
  <2>1. /\ payload.length \in Nat /\ 0 < payload.length
        /\ JWSPayloadAt \in Int /\ JWSPayloadAt + payload.length <= CalculationAt
    BY <1>5, RegionsAre
  <2> QED BY <1>1, <1>2, <1>5, <2>1, HeldHashed DEF Held
<1>9. scratch' = hashed /\ Goto("VerifySHA", call.cx)
  <2>1. SignatureOf(shown, n.modulusOf, input)
    <3> HIDE DEF n, shown
    <3> QED BY <1>6, <1>7
  <2>2. /\ scratch' = IF IsKey(n, e) THEN hashed ELSE scratch
        /\ IF IsKey(n, e) /\ SignatureOf(shown, n.modulusOf, input)
           THEN Goto("VerifySHA", call.cx) ELSE Fail
    BY <1>4 DEF VerifyJWS, Imported, nLength, eLength, input
  <2> QED BY ONLY <1>6, <2>1, <2>2
<1> HIDE DEF hashed, n, e, shown
<1>10. call' = c
  BY <1>1, <1>9, Gone
<1>11. Finding(hashed, c)
  BY <1>8 DEF Finding, payload
<1> HIDE DEF c
<1> QED BY <1>9, <1>10, <1>11

LEMMA FindingAfterVerifySHA ==
    ASSUME CallInv(scratch, call), Regular(call), Finding(scratch, call), VerifySHA
    PROVE  Finding(scratch', call')
<1> DEFINE hash    == SHA256(call.manifest)
           withSHA == Write(scratch, ManifestSHAAt, ManifestSHAAt + SHA256_SIZE, hash)
           payload == call.doc.payload
           doc     == payload.value
           found   == prvFindManifestSHA(ReaderOver(JWSPayloadAt, call.cx.jwsPayloadLength))
           token   == CurrentToken(found.reader)
           text    == token.value
           parsed  == Decoded(withSHA, text, ParsedSHAAt, SHA256_SIZE)
<1>1. /\ IsBuffer(scratch, SCRATCH_BUFFER_SIZE) /\ IsCall(call) /\ call.at # "Idle"
      /\ call.doc \in Documents /\ call.cx.jwsPayloadLength = payload.length
  BY DEF CallInv, Stage, VerifySHA, IsCall, PayloadIn
<1>2. Held(scratch, JWSPayloadAt, payload)
  BY DEF Finding, VerifySHA
<1>3. IsText(payload) /\ payload.length \in 1 .. JWS_PAYLOAD_SIZE
  BY <1>1, PayloadShown
<1>4. /\ IsUpdateDocument(call.doc) /\ Single("sha256", doc)
      /\ \A sha \in Valued("sha256", doc) :
           Decodes(sha.value, SHA256_SIZE) /\ sha.value.length = SHA256_SIZE
      /\ \E sha \in Valued("sha256", doc) : sha.value.value = hash
  BY <1>1, RegularKey DEF Regular, WellFormed, Genuine
<1>5. ReaderOver(JWSPayloadAt, call.cx.jwsPayloadLength) = Reader(doc)
  <2>1. payload.length > 0 /\ JWSPayloadAt \in Int
    BY <1>3, RegionsAre
  <2> HIDE DEF payload
  <2> QED BY <1>1, <1>2, <1>3, <2>1, HeldReader
<1>6. /\ found.result = "Success" /\ token \in Valued("sha256", doc) /\ text.value = hash
      /\ IsText(text) /\ Decodes(text, SHA256_SIZE) /\ text.length = SHA256_SIZE
  <2> HIDE DEF payload, hash
  <2>1. PICK sha \in Valued("sha256", doc) : sha.value.value = hash
    BY <1>4
  <2>2. IsObject(doc) /\ sha = Opaque(sha.value) /\ IsText(sha.value)
    BY <1>4 DEF IsUpdateDocument, AreTexts, payload
  <2>3. sha.kind = "String"
    BY <2>2, OpaqueIs
  <2>4. found = StringFound(FirstName(Reader(doc)), "sha256")
    BY <1>5 DEF prvFindManifestSHA
  <2> HIDE DEF found, doc
  <2>5. found.result = "Success" /\ token = sha
    BY <1>4, <2>2, <2>3, <2>4, StringFoundThere
  <2> QED BY <1>4, <2>1, <2>2, <2>5
<1> HIDE DEF payload
<1>7. /\ Content(parsed, ManifestSHAAt, ManifestSHAAt + SHA256_SIZE) = hash
      /\ Content(parsed, ParsedSHAAt, ParsedSHAAt + SHA256_SIZE) = hash
  <2> HIDE DEF found, token, text, hash
  <2> QED BY <1>1, <1>6, HashesShown
<1>8. Goto("Authenticated", call.cx)
  <2> HIDE DEF hash
  <2> QED BY <1>6, <1>7 DEF VerifySHA, SameHash, hash
<1> HIDE DEF found, withSHA, parsed
<1> QED BY <1>1, <1>8, NothingNeeded

\* Such a document splits, so that a call for it begins.
LEMMA FindingManifestAuthenticate ==
    ASSUME NEW manifest, NEW doc, ManifestAuthenticate(manifest, doc), Regular(call')
    PROVE  Finding(scratch', call')
<1> DEFINE c == [at |-> IF Splits(doc) THEN "DecodeHeader" ELSE "Failed",
                 manifest |-> manifest, doc |-> doc, cx |-> NoContext]
<1>1. call' = c
  BY DEF ManifestAuthenticate
<1>2. Regular(c) => Splits(doc)
  BY DEF Regular, WellFormed
<1>3. ASSUME NEW b, Splits(doc)
      PROVE  Finding(b, c)
  BY <1>3 DEF Finding
<1> HIDE DEF c
<1> QED BY <1>1, <1>2, <1>3

\* No call for a document as it should be has failed.
FindingInv(b, c) == Regular(c) => Finding(b, c)

LEMMA NothingInIdle ==
    ASSUME NEW b
    PROVE  FindingInv(b, Idle)
  BY DEF FindingInv, Finding, Idle

LEMMA JwsStepKeepsCall ==
    ASSUME IsCall(call), JwsStep
    PROVE  call'.manifest = call.manifest /\ call'.doc = call.doc
<1>1. \E at, cx : Goto(at, cx)
  <2>1. CASE DecodeHeader
    BY <2>1 DEF DecodeHeader, Fail
  <2>2. CASE FindSJWK
    BY <2>2 DEF FindSJWK, Fail
  <2>3. CASE DecodeJWK
    BY <2>3 DEF DecodeJWK, Fail
  <2>4. CASE ValidateRootKey
    BY <2>4 DEF ValidateRootKey, Fail
  <2>5. CASE FindKeyParts
    BY <2>5 DEF FindKeyParts, Fail
  <2>6. CASE VerifyJWK
    BY <2>6 DEF VerifyJWK, Fail
  <2>7. CASE DecodeJWS
    BY <2>7 DEF DecodeJWS, Fail
  <2>8. CASE DecodeSigningKey
    BY <2>8 DEF DecodeSigningKey, Fail
  <2>9. CASE VerifyJWS
    BY <2>9 DEF VerifyJWS, Fail
  <2>10. CASE VerifySHA
    BY <2>10 DEF VerifySHA, Fail
  <2> QED BY <2>1, <2>2, <2>3, <2>4, <2>5, <2>6, <2>7, <2>8, <2>9, <2>10 DEF JwsStep
<1> QED BY <1>1, Gone

LEMMA FindingKept ==
    ASSUME CallInv(scratch, call), FindingInv(scratch, call), JwsStep
    PROVE  FindingInv(scratch', call')
<1>1. call'.manifest = call.manifest /\ call'.doc = call.doc
  BY JwsStepKeepsCall DEF CallInv
<1>2. ASSUME Regular(call')
      PROVE  Regular(call)
  BY <1>1, <1>2 DEF Regular
<1>3. ASSUME Regular(call), Finding(scratch, call)
      PROVE  Finding(scratch', call')
  BY <1>3, FindingAfterDecodeHeader, FindingAfterFindSJWK, FindingAfterDecodeJWK,
     FindingAfterValidateRootKey, FindingAfterFindKeyParts, FindingAfterVerifyJWK,
     FindingAfterDecodeJWS, FindingAfterDecodeSigningKey, FindingAfterVerifyJWS,
     FindingAfterVerifySHA DEF JwsStep
<1> QED BY <1>2, <1>3 DEF FindingInv

\* What the invariant says of a call that has failed.
LEMMA FindingSays == FindingInv(scratch, call) => GenuineAuthenticates
  BY DEF FindingInv, Regular, Finding, GenuineAuthenticates
===============================================================================
