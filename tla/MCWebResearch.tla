--------------------------- MODULE MCWebResearch ---------------------------
(* An excerpt of vendors.yaml (Learn), one that prefers and falls back to    *)
(* strict domains (Lenient), and one the loader refuses, which lists an      *)
(* official domain under a blocked one.                                      *)
EXTENDS WebResearch

LearnHost == <<"com", "microsoft", "learn">>
OpenHost == <<"com", "openai">>
PlatformHost == <<"com", "openai", "platform">>
GitHub == <<"com", "github">>
Farm == <<"com", "farm">>
Ietf == <<"org", "ietf">>

Alias(spaces, length) == [spaces |-> spaces, length |-> length]
Azure == Alias(0, 5)
Search3 == Alias(2, 15)    \* "azure ai search"
Gpt == Alias(0, 3)

Learn ==
  [vendors |-> <<"azure", "openai">>,
   aliases |-> [azure |-> {Azure, Search3}, openai |-> {Gpt}],
   official |-> [azure |-> <<LearnHost>>, openai |-> <<PlatformHost, OpenHost>>],
   tiers |-> [azure |-> <<[domain |-> LearnHost, tier |-> 1]>>,
              openai |-> <<[domain |-> PlatformHost, tier |-> 1]>>],
   repositories |-> [azure |-> {[host |-> GitHub, path |-> <<"azure">>]}, openai |-> {}],
   mode |-> [azure |-> "strict", openai |-> "strict"],
   blocked |-> {Farm}, secondary |-> {Ietf}, fallback |-> <<>>, fallbackMode |-> "prefer"]

Lenient == [Learn EXCEPT !.mode = [azure |-> "strict", openai |-> "prefer"],
                         !.official.openai = <<Append(OpenHost, "www"), PlatformHost>>,
                         !.fallback = <<Ietf>>, !.fallbackMode = "strict"]
Refused == [Learn EXCEPT !.official.openai = <<Append(Farm, "openai")>>,
                         !.tiers.openai = <<>>]
MCRegistries == {Learn, Lenient, Refused}

MCNames == [strong |-> {Azure, Search3, Gpt}, weak |-> {Azure}, neutral |-> {}]
MCSuggests == [azure |-> {}, open |-> {"openai"}, acme |-> {}, none |-> {}]
MCOverrides == {<<>>, <<Farm, Ietf>>, <<Append(Farm, "www")>>}

Page(host, path, text) == [host |-> host, path |-> path, text |-> text]
Guide == Page(LearnHost, <<"search">>, TRUE)
Owned == Page(GitHub, <<"azure", "sdk">>, TRUE)
Stranger == Page(GitHub, <<"azureevil", "sdk">>, TRUE)
Mirror == Page(Append(Farm, "blog"), <<>>, TRUE)
Rfc == Page(Append(Ietf, "www"), <<>>, TRUE)
Cookbook == Page(Append(OpenHost, "cookbook"), <<>>, TRUE)
Empty == Page(PlatformHost, <<>>, FALSE)
Garbled == Page(<<>>, <<>>, TRUE)
MCPages == {Guide, Owned, Stranger, Mirror, Rfc, Cookbook, Empty, Garbled}
MCFixtures == <<Rfc, Owned, Stranger, Guide, Cookbook, Mirror, Empty>>
MCRelevance == [q \in {"strong", "weak", "neutral"} |-> [p \in MCPages |->
  IF p \in {Rfc, Stranger} THEN 80 ELSE IF p = Cookbook /\ q = "weak" THEN 0 ELSE 60]]
=============================================================================
