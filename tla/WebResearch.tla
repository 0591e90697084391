---------------------------- MODULE WebResearch ----------------------------
(***************************************************************************)
(* Web research (app/tools/web_research): the vendor a question is about,    *)
(* the domains a search may draw from, the search providers, and the sifting *)
(* of what they return, for the searches of one thread.  The model proposes  *)
(* a vendor (_understand), and a thread keeps the last proposal; only the    *)
(* registry (config/policies/vendors.yaml) knows domains.  A host is the     *)
(* sequence of its labels, the top-level one first, so a subdomain of a host *)
(* extends it; a page is its host, path and whether it has content.          *)
(***************************************************************************)
EXTENDS Integers, FiniteSetsExt, SequencesExt, Lists

CONSTANTS
  Registries,      \* what vendors.yaml may hold
  Questions, Names,    \* queries, and the aliases each contains as whole phrases
  Hints, Suggests,     \* the model's vendor guesses, and the keys each is a part or
                       \* the display name of
  Overrides,       \* allowed_domains a caller may pin; <<>> for none
  Pages,           \* of the web: [host, path, text]
  Fixtures,        \* the recorded pages, in file order
  Relevance,       \* of a page to a query, in hundredths
  MaxResults

Modes == {"strict", "prefer"}
NoVendor == "none"
NoHint == "none"
NoMode == "default"

Hosts == (UNION {ToSet(o) : o \in Overrides})
           \cup (UNION {UNION {ToSet(r.official[v]) : v \in ToSet(r.vendors)} : r \in Registries})
           \cup (UNION {ToSet(r.fallback) : r \in Registries})
Keys == UNION {ToSet(r.vendors) : r \in Registries}
Repositories == UNION {UNION {r.repositories[v] : v \in ToSet(r.vendors)} : r \in Registries}

ASSUME RegistryAssumption ==
  /\ NoVendor \notin Keys
  /\ \A r \in Registries :
       /\ r.vendors \in Seq(Keys)
       /\ r.official \in [ToSet(r.vendors) -> Seq(Hosts)]
       /\ r.tiers \in [ToSet(r.vendors) -> Seq([domain : Hosts, tier : 1..5])]
       /\ r.mode \in [ToSet(r.vendors) -> Modes] /\ r.fallbackMode \in Modes

ASSUME ThreadAssumption ==
  /\ Questions # {} /\ <<>> \in Overrides
  /\ Fixtures \in Seq(Pages) /\ MaxResults \in Nat
  /\ Relevance \in [Questions -> [Pages -> Nat]]

\* normalise_domain, and the "www." that every comparison drops.
Normal(host) == IF host # <<>> /\ Last(host) = "www" THEN Front(host) ELSE host

\* domain_matches, and the same comparison in is_blocked and tier_for_domain.
DomainMatches(host, allowed) == host # <<>> /\ IsPrefix(Normal(allowed), Normal(host))
OnAny(host, domains) == \E d \in domains : DomainMatches(host, d)
RepositoryMatches(page, repository) ==
  /\ DomainMatches(page.host, repository.host)
  /\ IsPrefix(repository.path, page.path)

\* load_vendor_registry rejects the file otherwise, and nothing starts.
ValidRegistry(r) ==
  /\ r.vendors # <<>>
  /\ \A v \in ToSet(r.vendors) :
       /\ r.official[v] # <<>>
       /\ {r.tiers[v][i].domain : i \in DOMAIN r.tiers[v]} \subseteq ToSet(r.official[v])
       /\ \A d \in ToSet(r.official[v]) : ~OnAny(d, r.blocked)

VARIABLES
  registry, provider,
  vendorHint,      \* vendor_key of the thread
  request,         \* the search in progress: [question, override, mode]
  stage,           \* idle, asked, answered, failed
  policy,          \* the DomainPolicy it resolved to
  results,         \* what the provider returned: [page, score]
  evidence,        \* [page, score, tier], in order
  rejected         \* the others

vars == <<registry, provider, vendorHint, request, stage, policy, results, evidence, rejected>>

-----------------------------------------------------------------------------
(* Vendor detection *)

Weight(alias) == 100 + 75 * alias.spaces + 2 * alias.length

\* The weights of any aliases of a question add up.
ASSUME WeightAssumption ==
  \A q \in Questions : IsFiniteSet(Names[q])
    /\ \A aliases \in SUBSET Names[q] : MapThenSumSet(Weight, aliases) \in Nat

NamedAliases(q, v) == Names[q] \cap registry.aliases[v]
Keywords(q, v) == MapThenSumSet(Weight, NamedAliases(q, v))

\* A registry key, or the first key the guess is a part or the display name of.
ResolvedHint(hint) ==
  LET known == ToSet(registry.vendors)
      near == {i \in DOMAIN registry.vendors : registry.vendors[i] \in Suggests[hint]}
  IN IF hint \in known THEN hint
     ELSE IF near = {} THEN NoVendor
     ELSE registry.vendors[CHOOSE i \in near : \A j \in near : i <= j]

\* Mutant: the guess decides.
HintWeightDecides(hint, v) == IF ResolvedHint(hint) = v THEN 1500 ELSE 0
HintWeight(hint, v) == IF ResolvedHint(hint) = v THEN 150 ELSE 0
VendorScore(q, hint, v) == Keywords(q, v) + HintWeight(hint, v)

\* The first of the highest scores, keyword matches before the hint.
Precedence(q, v) ==
  LET i == CHOOSE i \in DOMAIN registry.vendors : registry.vendors[i] = v
  IN IF NamedAliases(q, v) # {} THEN i ELSE i + Len(registry.vendors)

Detect(q, hint) ==
  LET scored == {v \in ToSet(registry.vendors) :
                   NamedAliases(q, v) # {} \/ ResolvedHint(hint) = v}
      best == {v \in scored : \A w \in scored :
                 VendorScore(q, hint, w) <= VendorScore(q, hint, v)}
  IN IF scored = {} THEN NoVendor
     ELSE CHOOSE v \in best : \A w \in best : Precedence(q, v) <= Precedence(q, w)

-----------------------------------------------------------------------------
(* The policy of one search *)

\* resolve: pinned domains minus the blocked, the vendor's, or the fallback.
Resolve(q, hint, override, mode, defaultMode) ==
  LET vendor == Detect(q, hint)
      Given(m) == IF mode = NoMode THEN m ELSE mode
  IN IF override # <<>>
     THEN [allowed |-> {d \in ToSet(override) : ~OnAny(d, registry.blocked)},
           mode |-> Given(defaultMode), vendor |-> NoVendor, repositories |-> {}]
     ELSE IF vendor = NoVendor
     THEN [allowed |-> ToSet(registry.fallback), mode |-> Given(registry.fallbackMode),
           vendor |-> NoVendor, repositories |-> {}]
     ELSE [allowed |-> ToSet(registry.official[vendor]), mode |-> Given(registry.mode[vendor]),
           vendor |-> vendor, repositories |-> registry.repositories[vendor]]

\* search_domains: whole repository hosts; IsPermitted compares the owners.
SearchDomains == policy.allowed \cup {r.host : r \in policy.repositories}

\* Mutant: repositories are permitted by host, whoever owns them.
IsPermittedByHost(page) ==
  /\ page.host # <<>>
  /\ ~OnAny(page.host, registry.blocked)
  /\ policy.mode = "strict" /\ policy.allowed # {} => OnAny(page.host, SearchDomains)
\* Mutant: the subdomains of a blocked domain are not blocked.
IsPermittedExact(page) ==
  /\ page.host # <<>>
  /\ Normal(page.host) \notin registry.blocked
  /\ policy.mode = "strict" /\ policy.allowed # {} =>
       \/ OnAny(page.host, policy.allowed)
       \/ \E r \in policy.repositories : RepositoryMatches(page, r)
IsPermitted(page) ==
  /\ page.host # <<>>
  /\ ~OnAny(page.host, registry.blocked)
  /\ policy.mode = "strict" /\ policy.allowed # {} =>
       \/ OnAny(page.host, policy.allowed)
       \/ \E r \in policy.repositories : RepositoryMatches(page, r)

\* tier_for_domain: the first entry that matches; 0 if none does.
TierOf(v, host) ==
  LET fits == {i \in DOMAIN registry.tiers[v] :
                 DomainMatches(host, registry.tiers[v][i].domain)}
  IN IF fits = {} THEN 0
     ELSE registry.tiers[v][CHOOSE i \in fits : \A j \in fits : i <= j].tier

\* classify: by the vendor of the search, then by any other, then by reputation.
OtherTier(host) ==
  LET fits == {i \in DOMAIN registry.vendors : TierOf(registry.vendors[i], host) # 0}
  IN IF fits = {} THEN 0
     ELSE TierOf(registry.vendors[CHOOSE i \in fits : \A j \in fits : i <= j], host)

\* Mutant: the vendor of the search vouches for its own results.
ClassifyOwn(page) ==
  IF policy.vendor = NoVendor THEN 5 ELSE TierOf(policy.vendor, page.host)
Classify(page) ==
  LET v == policy.vendor
      own == IF v = NoVendor THEN 0
             ELSE IF TierOf(v, page.host) # 0 THEN TierOf(v, page.host)
             ELSE IF OnAny(page.host, ToSet(registry.official[v])) THEN 2
             ELSE IF \E r \in registry.repositories[v] : RepositoryMatches(page, r) THEN 3
             ELSE 0
  IN IF own # 0 THEN own
     ELSE IF OtherTier(page.host) # 0 THEN OtherTier(page.host)
     ELSE IF OnAny(page.host, registry.secondary) THEN 4 ELSE 5

-----------------------------------------------------------------------------
(* Providers *)

\* auto takes Tavily if it has a key; without key or package it becomes fixtures.
BuildProvider(requested, key, package) ==
  LET resolved == IF requested = "auto" THEN IF key THEN "tavily" ELSE "fixture"
                  ELSE requested
  IN IF resolved = "tavily" /\ ~(key /\ package) THEN "fixture" ELSE resolved

\* The lexical score, doubled for preferred domains, before it is capped at 1.
FixtureScore(page) ==
  LET s == Relevance[request.question][page]
  IN IF policy.mode = "prefer" /\ OnAny(page.host, SearchDomains) THEN 2 * s ELSE s

\* Mutant: the fixtures ignore the domains.
ReplayableAnywhere(page) == ~OnAny(page.host, registry.blocked) /\ FixtureScore(page) > 0
Replayable(page) ==
  /\ ~OnAny(page.host, registry.blocked)
  /\ policy.mode = "strict" /\ SearchDomains # {} => OnAny(page.host, SearchDomains)
  /\ FixtureScore(page) > 0

\* The replayable pages by falling score, in file order among equals, cut.
FixtureResults ==
  LET pages == {i \in DOMAIN Fixtures : Replayable(Fixtures[i])}
      Ahead(i, j) == LET a == FixtureScore(Fixtures[i])
                         b == FixtureScore(Fixtures[j])
                     IN a > b \/ (a = b /\ i < j)
      ranked == Ranked(pages, {p \in pages \X pages : Ahead(p[1], p[2])})
      Scored(i) == LET s == FixtureScore(Fixtures[i])
                   IN [page |-> Fixtures[i], score |-> IF s > 100 THEN 100 ELSE s]
  IN [n \in 1..(IF Len(ranked) < MaxResults THEN Len(ranked) ELSE MaxResults) |->
        Scored(ranked[n])]

\* Tavily is external, and its domain filter is its own: any pages, in any order.
TavilyResults ==
  UNION {[1..n -> [page : Pages, score : {Relevance[request.question][p] : p \in Pages}]] :
           n \in 0..MaxResults}

-----------------------------------------------------------------------------
(* The searches of a thread *)

NoPolicy == [allowed |-> {}, mode |-> "strict", vendor |-> NoVendor, repositories |-> {}]
AnyQuestion == CHOOSE q \in Questions : TRUE

Init ==
  /\ registry \in {r \in Registries : ValidRegistry(r)}
  /\ \E requested \in {"auto", "tavily", "fixture", "none"}, key, package \in BOOLEAN :
       provider = BuildProvider(requested, key, package)
  /\ vendorHint = NoHint
  /\ stage = "idle" /\ policy = NoPolicy
  /\ request = [question |-> AnyQuestion, override |-> <<>>, mode |-> NoMode]
  /\ results = <<>> /\ evidence = <<>> /\ rejected = {}

\* _understand: the model proposes a vendor; when it fails the old proposal stays.
Understand ==
  /\ stage # "asked"
  /\ vendorHint' \in Hints \cup {NoHint}
  /\ UNCHANGED <<registry, provider, request, stage, policy, results, evidence, rejected>>

Asked(q, override, mode) ==
  /\ request' = [question |-> q, override |-> override, mode |-> mode]
  /\ results' = <<>> /\ evidence' = <<>> /\ rejected' = {}
  /\ UNCHANGED <<registry, provider, vendorHint>>

Search(q, override, mode, defaultMode) ==
  /\ stage # "asked"
  /\ Asked(q, override, mode)
  /\ stage' = "asked"
  /\ policy' = Resolve(q, vendorHint, override, mode, defaultMode)

\* An empty query is an error value.
SearchBlank ==
  /\ stage # "asked"
  /\ Asked(request.question, <<>>, NoMode)
  /\ stage' = "failed" /\ policy' = NoPolicy

\* _to_evidence: the permitted results with content, by tier, then by falling
\* score; the sort is stable.
Accepted(found) == {i \in DOMAIN found : IsPermitted(found[i].page) /\ found[i].page.text}
Graded(hit) == [page |-> hit.page, score |-> hit.score, tier |-> Classify(hit.page)]
Outranks(a, b) == a.tier < b.tier \/ (a.tier = b.tier /\ a.score > b.score)

\* Mutant: only the tier counts.
SortedByTier(found, order) ==
  \A i, j \in DOMAIN order : i < j =>
    Graded(found[order[i]]).tier <= Graded(found[order[j]]).tier
Sorted(found, order) ==
  \A i, j \in DOMAIN order : i < j =>
    LET a == Graded(found[order[i]])
        b == Graded(found[order[j]])
    IN ~Outranks(b, a) /\ (Outranks(a, b) \/ order[i] < order[j])

ToEvidence(found) ==
  /\ \E order \in [1..Cardinality(Accepted(found)) -> Accepted(found)] :
       /\ IsInjective(order) /\ Sorted(found, order)
       /\ evidence' = [n \in DOMAIN order |-> Graded(found[order[n]])]
  /\ rejected' = {found[i] : i \in DOMAIN found \ Accepted(found)}

Answered(found) ==
  /\ results' = found
  /\ ToEvidence(found)
  /\ stage' = "answered"
  /\ UNCHANGED <<registry, provider, vendorHint, request, policy>>

TavilyAnswers ==
  /\ stage = "asked" /\ provider = "tavily"
  /\ \E found \in TavilyResults : Answered(found)

FixtureAnswers ==
  /\ stage = "asked" /\ provider = "fixture"
  /\ Answered(FixtureResults)

\* A timeout or any error of Tavily, and every search of the unavailable provider.
SearchFails ==
  /\ stage = "asked" /\ provider \in {"tavily", "none"}
  /\ stage' = "failed"
  /\ UNCHANGED <<registry, provider, vendorHint, request, policy, results, evidence, rejected>>

Answer == TavilyAnswers \/ FixtureAnswers \/ SearchFails

Next ==
  \/ Understand \/ SearchBlank \/ Answer
  \/ \E q \in Questions, override \in Overrides, mode \in Modes \cup {NoMode},
        defaultMode \in Modes : Search(q, override, mode, defaultMode)

Spec == Init /\ [][Next]_vars
-----------------------------------------------------------------------------
(* Properties *)

Hit == [page : Pages, score : Int]
Policies == [allowed : SUBSET Hosts, mode : Modes, vendor : Keys \cup {NoVendor},
             repositories : SUBSET Repositories]

TypeOK ==
  /\ registry \in Registries /\ provider \in {"tavily", "fixture", "none"}
  /\ vendorHint \in Hints \cup {NoHint}
  /\ request \in [question : Questions, override : Overrides, mode : Modes \cup {NoMode}]
  /\ stage \in {"idle", "asked", "answered", "failed"}
  /\ policy \in Policies
  /\ results \in Seq(Hit) /\ rejected \subseteq Hit
  /\ evidence \in Seq([page : Pages, score : Int, tier : 1..5])

Evidence == {evidence[i].page : i \in DOMAIN evidence}
OfficialOf(v, page) ==
  \/ OnAny(page.host, ToSet(registry.official[v]))
  \/ \E r \in registry.repositories[v] : RepositoryMatches(page, r)
Named(q) == {v \in ToSet(registry.vendors) : NamedAliases(q, v) # {}}

\* The worst a confused model, or the stale guess of an earlier run, can do to a
\* question that names a vendor is to select another vendor's official sources:
\* all evidence comes from one vendor's domains or its own repositories, whatever
\* the provider returns, unless the caller pinned domains or the mode is prefer.
WrongVendorAtWorst ==
  stage = "answered" /\ request.override = <<>> /\ Named(request.question) # {} =>
    \E v \in ToSet(registry.vendors) :
      \/ request.mode = "prefer" \/ (request.mode = NoMode /\ registry.mode[v] = "prefer")
      \/ \A page \in Evidence : OfficialOf(v, page)

\* The model's guess is one signal: a named vendor whose keywords lead every other by
\* more than the weight of a hint (1.5) is searched whatever the model guesses.
HintOutweighed ==
  stage \in {"asked", "answered"} /\ request.override = <<>> =>
    \A v \in Named(request.question) :
      (\A w \in ToSet(registry.vendors) \ {v} :
         Keywords(request.question, w) + 150 < Keywords(request.question, v))
      => policy.vendor = v

\* The blocklist holds for every subdomain, mode, provider and pinned domain.
BlocklistAbsolute ==
  \A page \in Evidence, d \in registry.blocked : ~DomainMatches(page.host, d)

\* Authority is earned and comes first: a page of one of the three official tiers
\* belongs to some vendor, and no page is behind a less authoritative one, or one as
\* authoritative and less relevant.
AuthorityFirst ==
  /\ \A i \in DOMAIN evidence : evidence[i].tier <= 3 =>
       \E v \in ToSet(registry.vendors) : OfficialOf(v, evidence[i].page)
  /\ \A i, j \in DOMAIN evidence : i < j => ~Outranks(evidence[j], evidence[i])

\* The fixtures mirror the live provider: a strict search leaves nothing off-policy to
\* discard but other owners' repositories and pages without content.
FixtureMirrors ==
  stage = "answered" /\ provider = "fixture" /\ policy.mode = "strict"
    /\ policy.allowed # {} =>
    \A hit \in rejected :
      \/ ~hit.page.text
      \/ OnAny(hit.page.host, {r.host : r \in policy.repositories})
=============================================================================
