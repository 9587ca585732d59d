---------------------------- MODULE MCDeviceUpdate ----------------------------
(***************************************************************************)
(* Instances of DeviceUpdate.  Three manifests exist, of which the update  *)
(* service has signed two.  The requests are the first with every document *)
(* that differs from the issued one in at most one place, the second as    *)
(* issued, the third with signatures of somebody else, a manifest that     *)
(* cannot be parsed, a cancellation, a request without a manifest, a       *)
(* request for a file the manifest does not name, and for files too large  *)
(* for an int32_t, whose size is told as a negative or a smaller number.   *)
(* The second manifest has more files than a file can have hashes.         *)
(***************************************************************************)
EXTENDS DeviceUpdate, JwsDocuments

MCManifests == {"m1", "m2", Unsigned}

\* Files are named by their hashes.
MCFiles  == {"f1", "f2", "large", "huge"}
MCSizeOf == [f1 |-> 3, f2 |-> 2, large |-> 5, huge |-> 12]

File(name, hashes) == [name |-> name, size |-> MCSizeOf[name], hashes |-> hashes]

Manifest(id, files) ==
    [updateId |-> id, steps |-> <<"step of " \o id>>, files |-> files]

MCManifestContent ==
    [m1 |-> Manifest("u1", <<File("f1", <<"f1", "f1 by sha512">>)>>),
     m2 |-> Manifest("u2", <<File("f2", <<"f2">>), File("f1", <<"f1">>), File("f2", << >>)>>),
     unsigned |-> Manifest("u3", <<File("f2", <<"f2">>)>>),
     broken |-> NULL]

MCDeviceProperties ==
    [manufacturer |-> "maker", model |-> "model", updateId |-> "u0",
     custom |-> [count |-> 1, names |-> <<"location">>, values |-> <<"here">>]]

Message(manifest, signature, url) ==
    [wellFormed |-> TRUE, action |-> "ApplyDownload", id |-> "w", manifest |-> manifest,
     signature |-> signature, urls |-> <<url>>]

IssuedFor(m) == Document(AsIssued(m))

Other ==
    {Message("m2", IssuedFor("m2"), "f2"), Message("m2", IssuedFor("m2"), "f1"),
     Message("m1", IssuedFor("m2"), "f1"), Message("m1", IssuedFor("m1"), "large"),
     Message("m1", IssuedFor("m1"), "huge"),
     Message("broken", IssuedFor("m1"), "f1"), Message(NULL, IssuedFor("m1"), "f1"),
     [Message(NULL, NULL, "f1") EXCEPT !.action = "Cancel"],
     [Message(NULL, NULL, "f1") EXCEPT !.wellFormed = FALSE]}

MCMessages == Other \cup {Message("m1", d, "f1") : d \in WithOneDifference}
                    \cup {Message(Unsigned, Document(p), "f2") : p \in Forged}

Unreadable == [Message(NULL, NULL, "f1") EXCEPT !.wellFormed = FALSE]

\* The string with the broken manifest begins with a quotation mark and goes on
\* as members of the request do: unescaped it is a request without a manifest.
UnescapedFrom(m) ==
    IF m.manifest = "broken" THEN Message(NULL, IssuedFor("m1"), "f1") ELSE Unreadable

MCUnescaped == [m \in MCMessages |-> UnescapedFrom(m)]

\* One update as it should be, for the runs about a single download.
FewMessages  == {Message("m1", IssuedFor("m1"), "f1"), Unreadable}
FewUnescaped == [m \in FewMessages |-> UnescapedFrom(m)]
================================================================================
