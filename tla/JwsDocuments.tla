------------------------------ MODULE JwsDocuments ------------------------------
(***************************************************************************)
(* The JSON Web Signatures the instances of Jws are checked with: the one  *)
(* the update service makes for a manifest, and those that differ from it  *)
(* in a few places.  A difference is a field of `plan'; signatures follow  *)
(* it, since what is signed is the text as it is, except that a root key   *)
(* signs no JWK whose text does not decode into the room the device has.   *)
(***************************************************************************)
EXTENDS Jws, SequencesExt

Object(members) == <<BeginObject>> \o FlattenSeq(members) \o <<EndObject>>
Member(name, value) == <<Name(name), value>>
Nested(name) == <<Name(name), BeginArray, String("a"), BeginObject, EndObject, EndArray>>

\* A part of a document, in Base64: what it decodes to, or why it does not.
Encoded(how, value, length, room) ==
    CASE how = "ok"   -> [valid |-> TRUE, length |-> length, value |-> value]
      [] how = "long" -> [valid |-> TRUE, length |-> room + 1, value |-> value]
      [] how = "bad"  -> [valid |-> FALSE, length |-> length, value |-> value]
      [] how = "none" -> [valid |-> TRUE, length |-> 0, value |-> value]

SHA256Text(of, length) ==
    Opaque([valid |-> TRUE, length |-> length, value |-> [hashOf |-> of]])

\* A manifest the update service has not signed.
Unsigned == "unsigned"

\* The ways a document can differ, and the document that does not.
Values ==
    [dots |-> {1}, header |-> {"long", "bad"},
     sjwk |-> {"afterNested", "first", "missing", "number"}, jwkDots |-> {3},
     jwkHeader |-> {"long", "bad"}, jwkPayload |-> {"long", "bad"},
     jwkSig |-> {"long", "bad"}, kid |-> {"root2", "root9", "missing"},
     parts |-> {"reordered", "no n", "twice"}, alg |-> {"ES256"}, n |-> {"long", "bad", "none"},
     e |-> {"long"}, jwkBy |-> {"other"}, payload |-> {"long", "bad"},
     signature |-> {"long", "bad"}, by |-> {"other"},
     sha |-> (Manifests \ {Unsigned}) \cup {"short", "missing"}]

AsIssued(manifest) ==
    [dots |-> 2, header |-> "ok", sjwk |-> "second", jwkDots |-> 2, jwkHeader |-> "ok",
     jwkPayload |-> "ok", jwkSig |-> "ok", kid |-> "root1", parts |-> "all",
     alg |-> "RS256", key |-> "key", n |-> "ok", e |-> "ok", jwkBy |-> "kid", payload |-> "ok",
     signature |-> "ok", by |-> "key", sha |-> manifest]

Changed(plans) ==
    plans \cup UNION {{[p EXCEPT ![f] = v] : v \in Values[f]} :
                         p \in plans, f \in DOMAIN Values}

JWKHeader(plan) ==
    Object(<<Member("alg", String("RS256"))>> \o
           IF plan.kid = "missing" THEN << >> ELSE <<Member("kid", String(plan.kid))>>)

JWKPayload(plan) ==
    LET n   == Member("n", Opaque(Encoded(plan.n, [modulusOf |-> plan.key], 384, 384)))
        e   == Member("e", Opaque(Encoded(plan.e, [exponentOf |-> plan.key], 3, 10)))
        alg == Member("alg", String(plan.alg))
        kty == Member("kty", String("RSA"))
    IN  Object(CASE plan.parts = "all"       -> <<kty, n, e, alg>>
                 [] plan.parts = "reordered" -> <<alg, Nested("x5c"), e, n>>
                 [] plan.parts = "twice"     -> <<n, kty, n, e, alg>>
                 [] plan.parts = "no n"      -> <<kty, e, alg>>)

SignatureBy(how, by, input) ==
    Encoded(how, [by |-> by, over |-> input], 384, 400)

JWK(plan) ==
    LET asSigned == <<JWKHeader(plan), JWKPayload(plan)>>
    IN  [dots      |-> plan.jwkDots,
         header    |-> Encoded(plan.jwkHeader,
                               IF plan.jwkHeader = "ok" THEN JWKHeader(plan) ELSE << >>, 40, 48),
         payload   |-> Encoded(plan.jwkPayload,
                               IF plan.jwkPayload = "ok" THEN JWKPayload(plan) ELSE << >>, 650, 700),
         signature |-> SignatureBy(plan.jwkSig,
                                 IF plan.jwkBy = "kid" THEN plan.kid ELSE "other", asSigned)]

JWSHeader(plan) ==
    LET alg  == Member("alg", String("RS256"))
        sjwk == Member("sjwk", Opaque(JWK(plan)))
    IN  Object(CASE plan.sjwk = "second"      -> <<alg, sjwk>>
                 [] plan.sjwk = "afterNested" -> <<alg, Nested("crit"), sjwk>>
                 [] plan.sjwk = "first"       -> <<sjwk, alg>>
                 [] plan.sjwk = "missing"     -> <<alg>>
                 [] plan.sjwk = "number"      -> <<alg, Member("sjwk", Number(1))>>)

JWSPayload(plan) ==
    Object(CASE plan.sha = "missing" -> << >>
             [] plan.sha = "short"   -> <<Member("sha256", SHA256Text("short", 20))>>
             [] OTHER                -> <<Member("sha256", SHA256Text(plan.sha, 32))>>)

Document(plan) ==
    [dots      |-> plan.dots,
     header    |-> Encoded(plan.header, JWSHeader(plan), 1200, 1400),
     payload   |-> Encoded(plan.payload, JWSPayload(plan), 57, 60),
     signature |-> SignatureBy(plan.signature, plan.by, <<JWSHeader(plan), JWSPayload(plan)>>)]

\* Somebody else has signed that one, with the service's JWK or with their own.
Issued   == {AsIssued(m) : m \in Manifests \ {Unsigned}}
Forged   == {[AsIssued(Unsigned) EXCEPT !.by = "other"],
             [AsIssued(Unsigned) EXCEPT !.by = "other", !.key = "other", !.jwkBy = "other"]}

\* Every document with at most one difference from an issued one.
WithOneDifference == {Document(p) : p \in Changed(Issued) \cup Forged}
=================================================================================
