---------------------------- MODULE MCOverrides ----------------------------
(* A document with two pools and pairs for TLC. *)
EXTENDS Overrides

\* The keys in the order of their bytes, and what they are without case.
Spelled ==
  <<"MasterProfile", "a", "adminUsername", "agentPoolProfiles", "b", "count", "dnsPrefix",
    "extraConfigs", "imageReference", "linuxBootstrapProfile", "linuxProfile", "masterProfile", "masterprofile",
    "name", "orchestratorProfile">>

MCKeys == Range(Spelled)
MCElement == [n \in -1 .. 7 |-> <<"[-1]", "[0]", "[1]", "[2]", "[3]", "[4]", "[5]", "[6]", "[7]">>[n + 2]]
MCRank == [k \in MCKeys \union Range(MCElement) |->
             IF k \in MCKeys THEN CHOOSE i \in DOMAIN Spelled : Spelled[i] = k
                             ELSE 100 + CHOOSE n \in DOMAIN MCElement : MCElement[n] = k]
MCFolded == [k \in MCKeys \union Range(MCElement) |->
               IF k \in {"MasterProfile", "masterprofile"} THEN "masterProfile" ELSE k]
MCNumber == [t \in {"0", "00", "1", "7", "-1", "5"} |->
               CASE t \in {"0", "00"} -> 0 [] t = "1" -> 1 [] t = "7" -> 7 [] t = "-1" -> -1 [] t = "5" -> 5]

Pool(n, field) == <<"agentPoolProfiles", MCElement[n], field>>
Image(n) == Append(Pool(n, "imageReference"), "name")
MCFree == <<"orchestratorProfile", "linuxBootstrapProfile", "extraConfigs">>

MCSchema ==
  LET strings == {<<"masterProfile", "dnsPrefix">>, <<"linuxProfile", "adminUsername">>}
                 \union {Pool(n, "name") : n \in 0 .. 1} \union {Image(n) : n \in 0 .. 1}
      numbers == {<<"masterProfile", "count">>} \union {Pool(n, "count") : n \in 0 .. 1}
  IN [f \in strings \union numbers |-> IF f \in strings THEN "string" ELSE "int"]

Text(t) == [stringValue |-> t, intValue |-> 0]
Int3 == [stringValue |-> "", intValue |-> 3]

Base == [f \in {<<"masterProfile", "count">>, <<"linuxProfile", "adminUsername">>,
                Pool(0, "name"), Pool(0, "count"), Pool(1, "name"), Image(1), Append(MCFree, "a")} |->
           IF f[Len(f)] \in {"count", "a"} THEN Int3 ELSE Text("x")]

\* The member of extraConfigs has a value, is an object, or is missing.
MCFiles ==
  LET a    == Append(MCFree, "a")
      rest == DOMAIN Base \ {a}
  IN {Base, [f \in rest \union {Append(a, "b")} |-> IF f \in rest THEN Base[f] ELSE Int3],
      [f \in rest |-> Base[f]]}

Plain(name) == [name |-> name, index |-> Unindexed, property |-> <<>>]
Indexed(name, index, property) == [name |-> name, index |-> index, property |-> property]
OfPool(index, field) == Indexed(<<"agentPoolProfiles">>, index, <<field>>)
\* Found in the pools that have an image: the second one, and the first when it gets one.
OfImage(index, field) == Indexed(<<"agentPoolProfiles", "imageReference">>, index, <<field>>)

\* The keys, each with the texts it may be given.
Asked ==
  LET of(keys, texts) == [i \in DOMAIN keys |-> [key |-> keys[i], texts |-> texts]]
      Names == <<Plain(<<"MasterProfile", "count">>), Plain(<<"masterprofile", "count">>),
                 OfPool("0", "count"), OfPool("1", "count"), OfPool("7", "count"),
                 OfPool("x", "count"), OfPool("-1", "count")>>
      Objects == <<Plain(<<"masterProfile">>), Plain(<<"agentPoolProfiles">>),
                   Plain(<<"agentPoolProfiles", "count">>), Plain(<<"masterProfile", "count", "a">>),
                   Plain(MCFree \o <<"a">>), Plain(MCFree \o <<"a", "b">>),
                   Plain(MCFree \o <<"b">>), Plain(MCFree)>>
      Images == <<OfImage("0", "name"), OfImage("1", "name"), OfImage("-1", "name"),
                  Indexed(<<"agentPoolProfiles">>, "0", <<"imageReference", "name">>),
                  Indexed(<<"agentPoolProfiles", "name">>, "0", <<"a">>)>>
  IN of(<<Plain(<<"masterProfile", "count">>)>>, {<<"5">>, <<"7">>, <<"">>})
     \o of(<<Plain(<<"masterProfile", "dnsPrefix">>)>>, {<<"x">>, <<"5">>, <<"">>})
     \o of(<<Plain(<<"linuxProfile", "adminUsername">>)>>, {<<>>, <<"z", "y">>})
     \o of(<<OfPool("0", "name")>>, {<<"y">>}) \o of(<<OfPool("00", "name")>>, {<<"z">>})
     \o of(Images, {<<"y">>}) \o of(Names, {<<"5">>}) \o of(Objects, {<<"7">>})

Numbered == UNION {{<<i, t>> : t \in Asked[i].texts} : i \in DOMAIN Asked}

\* Pairs of different keys may come in any order: one is enough.
MCCommands ==
  UNION {{[i \in 1 .. n |-> [key |-> Asked[c[i][1]].key, texts |-> c[i][2]]] :
            c \in {d \in [1 .. n -> Numbered] : \A i \in 1 .. n - 1 : d[i][1] <= d[i + 1][1]}} :
         n \in 0 .. 3}
=============================================================================
