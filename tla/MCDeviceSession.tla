---------------------------- MODULE MCDeviceSession ----------------------------
(***************************************************************************)
(* An instance of DeviceSession.  A message is put together from its       *)
(* properties, so that what is in it is known without reading it.          *)
(***************************************************************************)
EXTENDS DeviceSession, SequencesExt, TLC

\* The defaults of azure_iot_config_defaults.h, and lengths on both sides of
\* every limit: 208 bytes are left of 256, 33 of them for the hash.
MCPasswordMax == 256

MCTokenLengths ==
    [used : {0, 1, 100, 207, 208, 209, 257}, key : {1, 32, 75, 76, 174, 175, 209},
     signature : {44, 48, 49}, password : {150, 208, 209}, hashes : BOOLEAN]

MCComponents == {"c", "d"}
MCKnown      == {<<"c", "p">>, <<"", "p">>, <<"d", "q">>, <<"", "q">>}
MCRooms      == {1, 4, 8, 12, 14, 15, 18, 20, 22, 24, 28, 40, 60}

\* A property or a component: a name and the tokens of its value.
Entry(name, value) == [name |-> name, value |-> value]

Entries(entries) ==
    FlattenSeq([i \in 1 .. Len(entries) |-> <<Name(entries[i].name)>> \o entries[i].value])

Object(entries) == <<BeginObject>> \o Entries(entries) \o <<EndObject>>

Version(n) == Entry("$version", <<Number(n)>>)
Marker     == Entry("__t", <<String("c")>>)

\* The properties among the entries of one object, and of the components.
PropertiesAmong(entries, within) ==
    {[component |-> within, name |-> e.name, value |-> e.value[1]] :
       e \in {x \in Range(entries) : x.name \notin {"$version", "__t"}}}

\* A section is a sequence of root entries and of components, each given by
\* its entries: [name, entries].
Component(name, entries) == [name |-> name, entries |-> entries]

IsComponent(x) == "entries" \in DOMAIN x

SectionEntries(section) ==
    [i \in 1 .. Len(section) |->
       IF IsComponent(section[i]) THEN Entry(section[i].name, Object(section[i].entries))
                                  ELSE section[i]]

PropertiesOfSection(section) ==
    PropertiesAmong(SelectSeq(section, LAMBDA x : ~IsComponent(x)), "")
      \cup UNION {PropertiesAmong(x.entries, x.name) : x \in {y \in Range(section) : IsComponent(y)}}

Both(device, service) == (FromDevice :> device) @@ (FromService :> service)

WritableMessage(section, n) ==
    [type |-> Writable, doc |-> Object(SectionEntries(section)), version |-> n,
     properties |-> Both({}, PropertiesOfSection(section))]

RequestedMessage(desired, reported, n) ==
    [type |-> Requested,
     doc |-> Object(<<Entry("desired", Object(SectionEntries(desired))),
                      Entry("reported", Object(SectionEntries(reported)))>>),
     version |-> n,
     properties |-> Both(PropertiesOfSection(reported), PropertiesOfSection(desired))]

One   == <<String("one")>>
Two   == <<String("two")>>
Three == <<Number(3)>>

\* Not known, and an object or array with names and values that are.
Nested == Entry("u", Object(<<Entry("p", Two), Entry("q", Object(<< >>)), Entry("a", Three)>>))
Listed == Entry("w", <<BeginArray>> \o Object(<<Entry("p", Two)>>) \o <<EndArray>>)

MCPackets ==
    { WritableMessage(<<Entry("p", One), Version(5)>>, 5),
      WritableMessage(<<Version(6), Component("c", <<Marker, Entry("p", One), Nested>>),
                        Entry("p", Two), Component("d", <<Entry("q", Three)>>)>>, 6),
      WritableMessage(<<Component("c", <<Listed, Entry("p", One)>>),
                        Component("d", <<Marker, Entry("p", Two), Entry("q", Three)>>),
                        Nested, Entry("q", One), Version(7)>>, 7),
      WritableMessage(<<Entry("e", Object(<<Marker, Entry("p", One)>>)), Entry("p", Two), Version(8)>>, 8),
      WritableMessage(<<Version(9)>>, 9),
      WritableMessage(<<Entry("p", One)>>, 0),
      RequestedMessage(<<Component("c", <<Entry("p", Two)>>), Version(3)>>,
                       <<Entry("p", One), Version(4), Component("c", <<Entry("p", One), Nested>>)>>, 3),
      RequestedMessage(<<Entry("q", One), Component("d", <<Entry("q", Three)>>), Version(2)>>,
                       <<Component("d", <<Marker, Entry("q", One)>>), Version(4)>>, 2),
      NoPacket }
================================================================================
