------------------------- MODULE WebResearchProofs -------------------------
(* Theorems about WebResearch for every registry, web, model and provider.  *)
EXTENDS WebResearch, SetFacts, TLAPS

-----------------------------------------------------------------------------
(* What evidence is *)

\* Every page of the evidence is one the policy of its search permits.
Permitted == \A i \in DOMAIN evidence : IsPermitted(evidence[i].page)

\* A search starts with an empty list, under its own policy.
LEMMA SiftedIsPermitted ==
  ASSUME NEW found, Answered(found)
  PROVE  Permitted'
<1>1. PICK order \in [1..Cardinality(Accepted(found)) -> Accepted(found)] :
        evidence' = [n \in DOMAIN order |-> Graded(found[order[n]])]
  BY DEF Answered, ToEvidence
<1>2. policy' = policy /\ registry' = registry
  BY DEF Answered
<1>3. ASSUME NEW n \in DOMAIN evidence' PROVE IsPermitted(evidence'[n].page)
  <2>1. order[n] \in Accepted(found) /\ evidence'[n] = Graded(found[order[n]])
    BY <1>1, <1>3
  <2>2. evidence'[n].page = found[order[n]].page
    BY <2>1 DEF Graded
  <2>3. IsPermitted(found[order[n]].page)
    BY <2>1 DEF Accepted
  <2> QED  BY <2>2, <2>3
<1> QED  BY <1>2, <1>3 DEF Permitted, IsPermitted

THEOREM EvidenceIsPermitted == Spec => []Permitted
<1>1. Init => Permitted
  BY DEF Init, Permitted
<1>2. ASSUME Permitted, [Next]_vars PROVE Permitted'
  <2>1. CASE Understand \/ SearchFails
    BY <1>2, <2>1 DEF Understand, SearchFails, Permitted, IsPermitted
  <2>2. ASSUME NEW q, NEW override, NEW mode, Asked(q, override, mode) PROVE Permitted'
    BY <2>2 DEF Asked, Permitted
  <2>3. ASSUME NEW found, Answered(found) PROVE Permitted'
    BY <2>3, SiftedIsPermitted
  <2>4. CASE UNCHANGED vars
    BY <1>2, <2>4 DEF vars, Permitted, IsPermitted
  <2> QED
    BY <1>2, <2>1, <2>2, <2>3, <2>4
    DEF Next, Answer, Search, SearchBlank, TavilyAnswers, FixtureAnswers
<1> QED  BY <1>1, <1>2, PTL DEF Spec

\* No page of a blocked domain or of its subdomains ever becomes evidence, in any
\* mode, from any provider and whatever a caller pinned.
THEOREM BlocklistHolds == Spec => []BlocklistAbsolute
<1>1. Permitted => BlocklistAbsolute
  BY DEF Permitted, IsPermitted, OnAny, BlocklistAbsolute, Evidence
<1> QED  BY <1>1, EvidenceIsPermitted, PTL

-----------------------------------------------------------------------------
(* Authority *)

\* A vendor vouches for a domain only if it lists it as its own.
LEMMA TierIsOfficial ==
  ASSUME ValidRegistry(registry), NEW v \in ToSet(registry.vendors), NEW page,
         TierOf(v, page.host) # 0
  PROVE  OfficialOf(v, page)
<1>1. PICK i \in DOMAIN registry.tiers[v] : DomainMatches(page.host, registry.tiers[v][i].domain)
  BY DEF TierOf
<1>2. registry.tiers[v][i].domain \in ToSet(registry.official[v])
  BY DEF ValidRegistry
<1> QED  BY <1>1, <1>2 DEF OfficialOf, OnAny

LEMMA OtherIsOfficial ==
  ASSUME ValidRegistry(registry), NEW page, OtherTier(page.host) # 0
  PROVE  \E v \in ToSet(registry.vendors) : OfficialOf(v, page)
<1>1. PICK i \in DOMAIN registry.vendors : TierOf(registry.vendors[i], page.host) # 0
  BY DEF OtherTier
<1>2. registry.vendors[i] \in ToSet(registry.vendors)
  BY DEF ToSet
<1> QED  BY <1>1, <1>2, TierIsOfficial

\* Only an official page gets one of the first three tiers.
THEOREM EarnedTier ==
  ASSUME ValidRegistry(registry), policy.vendor \in ToSet(registry.vendors) \cup {NoVendor},
         NEW page, Classify(page) <= 3
  PROVE  \E v \in ToSet(registry.vendors) : OfficialOf(v, page)
<1> DEFINE v == policy.vendor
<1>1. CASE OtherTier(page.host) # 0
  BY <1>1, OtherIsOfficial
<1>2. CASE v # NoVendor /\ TierOf(v, page.host) # 0
  BY <1>2, TierIsOfficial
<1>3. CASE v # NoVendor /\ OnAny(page.host, ToSet(registry.official[v]))
  BY <1>3 DEF OfficialOf
<1>4. CASE v # NoVendor /\ \E r \in registry.repositories[v] : RepositoryMatches(page, r)
  BY <1>4 DEF OfficialOf
<1>5. CASE /\ OtherTier(page.host) = 0
           /\ v = NoVendor \/ ( /\ TierOf(v, page.host) = 0
                                /\ ~OnAny(page.host, ToSet(registry.official[v]))
                                /\ ~\E r \in registry.repositories[v] : RepositoryMatches(page, r))
  <2>1. Classify(page) \in {4, 5}
    BY <1>5 DEF Classify
  <2> QED  BY <2>1
<1> QED  BY <1>1, <1>2, <1>3, <1>4, <1>5

-----------------------------------------------------------------------------
(* Detection *)

Scored(q, hint) ==
  {v \in ToSet(registry.vendors) : NamedAliases(q, v) # {} \/ ResolvedHint(hint) = v}

\* The registry is one the loader accepts.
RegistryFit == registry \in Registries /\ ValidRegistry(registry)

LEMMA ScoreIsNat ==
  ASSUME NEW q \in Questions, NEW hint, NEW v
  PROVE  VendorScore(q, hint, v) \in Nat
<1>1. Keywords(q, v) \in Nat
  BY WeightAssumption DEF WeightAssumption, Keywords, NamedAliases
<1>2. HintWeight(hint, v) \in Nat
  BY DEF HintWeight
<1> QED  BY <1>1, <1>2 DEF VendorScore

\* Some vendor has the highest score.
LEMMA BestExists ==
  ASSUME RegistryFit, NEW q \in Questions, NEW hint, Scored(q, hint) # {}
  PROVE  \E v \in Scored(q, hint) : \A w \in Scored(q, hint) :
           VendorScore(q, hint, w) <= VendorScore(q, hint, v)
<1> DEFINE vendors == registry.vendors
           list == [i \in 1..Len(vendors) |-> VendorScore(q, hint, vendors[i])]
           all == {list[i] : i \in 1..Len(vendors)}
           scores == {VendorScore(q, hint, v) : v \in Scored(q, hint)}
<1>1. vendors \in Seq(Keys) /\ Len(vendors) \in Nat /\ DOMAIN vendors = 1..Len(vendors)
  BY RegistryAssumption DEF RegistryAssumption, RegistryFit
<1>2. list \in Seq(Nat) /\ Len(list) = Len(vendors)
  BY <1>1, ScoreIsNat
<1>3. IsFiniteSet({list[i] : i \in 1..Len(vendors)})
  <2>1. Len(vendors) \in 0..Len(list)
    BY <1>1, <1>2
  <2> HIDE DEF list
  <2> QED  BY <1>2, <2>1, FiniteRange
<1>4. ASSUME NEW v \in Scored(q, hint) PROVE VendorScore(q, hint, v) \in all
  <2>1. PICK i \in DOMAIN vendors : vendors[i] = v
    BY DEF Scored, ToSet
  <2> QED  BY <1>1, <2>1
<1>5. scores \in SUBSET all
  BY <1>4
<1>6. IsFiniteSet(scores)
  BY <1>3, <1>5, FS_Subset
<1>7. scores \in SUBSET Nat /\ scores # {}
  BY ScoreIsNat
<1>8. Max(scores) \in scores /\ \A x \in scores : x <= Max(scores)
  <2> HIDE DEF scores
  <2> QED  BY <1>6, <1>7, MaxNat
<1>9. PICK v \in Scored(q, hint) : VendorScore(q, hint, v) = Max(scores)
  BY <1>8
<1> QED  BY <1>8, <1>9

\* A vendor of the registry has a position in it.
LEMMA PrecedenceIsNat ==
  ASSUME RegistryFit, NEW q, NEW v \in ToSet(registry.vendors)
  PROVE  Precedence(q, v) \in Nat
<1>1. DOMAIN registry.vendors = 1..Len(registry.vendors) /\ Len(registry.vendors) \in Nat
  BY RegistryAssumption DEF RegistryAssumption, RegistryFit
<1>2. \E i \in DOMAIN registry.vendors : registry.vendors[i] = v
  BY DEF ToSet
<1>3. (CHOOSE i \in DOMAIN registry.vendors : registry.vendors[i] = v) \in 1..Len(registry.vendors)
  BY <1>1, <1>2
<1> QED  BY <1>1, <1>3 DEF Precedence

\* A question that names a vendor, or a guess that resolves to one, is about a
\* vendor of the registry: the guess of the model is never taken as it stands.
THEOREM DetectsKnownVendor ==
  ASSUME RegistryFit, NEW q \in Questions, NEW hint
  PROVE  IF Scored(q, hint) = {} THEN Detect(q, hint) = NoVendor
         ELSE Detect(q, hint) \in ToSet(registry.vendors)
<1> DEFINE scored == Scored(q, hint)
           best == {v \in scored : \A w \in scored :
                      VendorScore(q, hint, w) <= VendorScore(q, hint, v)}
           ranks == {Precedence(q, v) : v \in best}
<1>1. CASE scored = {}
  BY <1>1 DEF Detect, Scored
<1>2. CASE scored # {}
  <2>1. best # {} /\ best \subseteq ToSet(registry.vendors)
    BY <1>2, BestExists DEF Scored
  <2>2. ranks \in SUBSET Nat /\ ranks # {}
    BY <2>1, PrecedenceIsNat
  <2>3. PICK m \in ranks : \A x \in ranks : m <= x
    <3> HIDE DEF ranks
    <3> QED  BY <2>2, LeastNat
  <2>4. PICK v \in best : Precedence(q, v) = m
    BY <2>3
  <2>5. \A w \in best : Precedence(q, v) <= Precedence(q, w)
    BY <2>3, <2>4
  <2>6. Detect(q, hint) =
          CHOOSE u \in best : \A w \in best : Precedence(q, u) <= Precedence(q, w)
    BY <1>2 DEF Detect, Scored
  <2>7. Detect(q, hint) \in best
    <3> HIDE DEF best
    <3> QED  BY <2>4, <2>5, <2>6
  <2> QED  BY <1>2, <2>1, <2>7
<1> QED  BY <1>1, <1>2

-----------------------------------------------------------------------------
(* What a search is made under *)

NeedsVendor == request.override = <<>> /\ Named(request.question) # {}

\* The policy of a search that pins nothing and names a vendor is that of some
\* vendor of the registry.
VendorPolicy ==
  LET v == policy.vendor
  IN /\ v \in ToSet(registry.vendors)
     /\ policy.allowed = ToSet(registry.official[v])
     /\ policy.repositories = registry.repositories[v]
     /\ policy.mode = IF request.mode = NoMode THEN registry.mode[v] ELSE request.mode
     /\ request.mode \in Modes \cup {NoMode}

PolicyFit ==
  /\ RegistryFit
  /\ policy.vendor \in ToSet(registry.vendors) \cup {NoVendor}
  /\ stage \in {"asked", "answered"} /\ NeedsVendor => VendorPolicy

\* A question that names a vendor has candidates, so one of them is chosen.
LEMMA NamedIsDetected ==
  ASSUME RegistryFit, NEW q \in Questions, NEW hint, Named(q) # {}
  PROVE  Detect(q, hint) \in ToSet(registry.vendors) /\ Detect(q, hint) # NoVendor
<1>1. Scored(q, hint) # {}
  BY DEF Named, Scored
<1>2. Detect(q, hint) \in ToSet(registry.vendors)
  BY <1>1, DetectsKnownVendor
<1>3. ToSet(registry.vendors) \subseteq Keys
  BY DEF RegistryFit, Keys
<1> QED  BY <1>2, <1>3, RegistryAssumption DEF RegistryAssumption

LEMMA SearchFitsPolicy ==
  ASSUME PolicyFit, NEW q \in Questions, NEW override, NEW mode \in Modes \cup {NoMode},
         NEW defaultMode, Search(q, override, mode, defaultMode)
  PROVE  PolicyFit'
<1> DEFINE v == Detect(q, vendorHint)
           Given(m) == IF mode = NoMode THEN m ELSE mode
<1>1. RegistryFit /\ registry' = registry
  BY DEF PolicyFit, Search, Asked
<1>2. /\ request' = [question |-> q, override |-> override, mode |-> mode]
      /\ policy' = Resolve(q, vendorHint, override, mode, defaultMode)
  BY DEF Search, Asked
<1>3. RegistryFit'
  BY <1>1 DEF RegistryFit, ValidRegistry, OnAny, DomainMatches
<1>4. v \in ToSet(registry.vendors) \cup {NoVendor}
  BY <1>1, DetectsKnownVendor
<1>5. policy'.vendor \in ToSet(registry.vendors) \cup {NoVendor}
  BY <1>2, <1>4 DEF Resolve
<1>6. ASSUME NeedsVendor' PROVE VendorPolicy'
  <2>1. override = <<>> /\ Named(q) # {}
    BY <1>1, <1>2, <1>6 DEF NeedsVendor, Named, NamedAliases
  <2>2. v \in ToSet(registry.vendors) /\ v # NoVendor
    BY <1>1, <2>1, NamedIsDetected
  <2>3. policy' = [allowed |-> ToSet(registry.official[v]), mode |-> Given(registry.mode[v]),
                   vendor |-> v, repositories |-> registry.repositories[v]]
    <3> HIDE DEF v
    <3> QED  BY <1>2, <2>1, <2>2 DEF Resolve, v
  <2> HIDE DEF v
  <2> QED  BY <1>1, <1>2, <2>2, <2>3 DEF VendorPolicy
<1> QED  BY <1>1, <1>3, <1>5, <1>6 DEF PolicyFit

\* The searches of a thread are made under policies that fit.
LEMMA PolicyAlwaysFits == Spec => []PolicyFit
<1>1. Init => PolicyFit
  BY DEF Init, PolicyFit, RegistryFit, NoPolicy
<1>2. ASSUME PolicyFit, [Next]_vars PROVE PolicyFit'
  <2>1. CASE Understand \/ SearchFails \/ UNCHANGED vars
    BY <1>2, <2>1 DEF Understand, SearchFails, vars, PolicyFit, RegistryFit, NeedsVendor,
                      VendorPolicy, Named, NamedAliases
  <2>2. CASE SearchBlank
    BY <1>2, <2>2 DEF SearchBlank, Asked, PolicyFit, RegistryFit, NoPolicy
  <2>3. ASSUME NEW found, Answered(found), stage = "asked" PROVE PolicyFit'
    BY <1>2, <2>3 DEF Answered, PolicyFit, RegistryFit, NeedsVendor, VendorPolicy, Named,
                      NamedAliases
  <2>4. ASSUME NEW q \in Questions, NEW override \in Overrides, NEW mode \in Modes \cup {NoMode},
               NEW defaultMode \in Modes, Search(q, override, mode, defaultMode)
        PROVE  PolicyFit'
    BY <1>2, <2>4, SearchFitsPolicy
  <2> QED
    BY <1>2, <2>1, <2>2, <2>3, <2>4 DEF Next, Answer, TavilyAnswers, FixtureAnswers
<1> QED  BY <1>1, <1>2, PTL DEF Spec

\* A question that names a vendor is answered from one vendor's own sources, or under
\* the mode that only prefers them, whatever the model guessed.
THEOREM WrongVendorIsBounded == Spec => []WrongVendorAtWorst
<1>1. ASSUME PolicyFit, Permitted PROVE WrongVendorAtWorst
  <2> SUFFICES ASSUME stage = "answered", NeedsVendor
               PROVE  \E v \in ToSet(registry.vendors) :
                        \/ request.mode = "prefer"
                        \/ (request.mode = NoMode /\ registry.mode[v] = "prefer")
                        \/ \A page \in Evidence : OfficialOf(v, page)
    BY DEF WrongVendorAtWorst, NeedsVendor
  <2> DEFINE v == policy.vendor
  <2>1. VendorPolicy
    BY <1>1 DEF PolicyFit
  <2>2. v \in ToSet(registry.vendors) /\ policy.allowed = ToSet(registry.official[v])
        /\ policy.repositories = registry.repositories[v]
    BY <2>1 DEF VendorPolicy
  <2>3. ToSet(registry.official[v]) # {}
    <3>1. registry.official[v] # <<>>
      BY <1>1, <2>2 DEF PolicyFit, RegistryFit, ValidRegistry
    <3>2. registry.official[v] \in Seq(Hosts)
      BY <1>1, <2>2, RegistryAssumption DEF RegistryAssumption, PolicyFit, RegistryFit
    <3>3. 1 \in DOMAIN registry.official[v]
      <4> HIDE DEF v
      <4> QED  BY <3>1, <3>2
    <3> QED  BY <3>3 DEF ToSet
  <2>4. policy.mode \in {"strict", "prefer"}
    BY <1>1, <2>1, RegistryAssumption
    DEF VendorPolicy, Modes, NoMode, RegistryAssumption, PolicyFit, RegistryFit
  <2>5. CASE policy.mode = "strict"
    BY <1>1, <2>2, <2>3, <2>5 DEF Permitted, IsPermitted, Evidence, OfficialOf
  <2>6. CASE policy.mode = "prefer"
    BY <2>1, <2>2, <2>6 DEF VendorPolicy
  <2> QED  BY <2>4, <2>5, <2>6
<1> QED  BY <1>1, PolicyAlwaysFits, EvidenceIsPermitted, PTL

\* A guess adds at most its weight, so it cannot make up a larger lead.
LEMMA LeaderIsDetected ==
  ASSUME RegistryFit, NEW q \in Questions, NEW hint, NEW v \in Named(q),
         \A w \in ToSet(registry.vendors) \ {v} : Keywords(q, w) + 150 < Keywords(q, v)
  PROVE  Detect(q, hint) = v
<1> DEFINE scored == Scored(q, hint)
           best == {u \in scored : \A w \in scored :
                      VendorScore(q, hint, w) <= VendorScore(q, hint, u)}
<1>1. v \in ToSet(registry.vendors) /\ v \in scored
  BY DEF Named, Scored
<1>2. \A w : Keywords(q, w) \in Nat /\ HintWeight(hint, w) \in 0..150
             /\ VendorScore(q, hint, w) = Keywords(q, w) + HintWeight(hint, w)
  <2>1. \A w : Keywords(q, w) \in Nat
    BY WeightAssumption DEF WeightAssumption, Keywords, NamedAliases
  <2>2. \A w : HintWeight(hint, w) \in 0..150
    BY DEF HintWeight
  <2> QED  BY <2>1, <2>2 DEF VendorScore
<1>3. ASSUME NEW w \in scored \ {v}
      PROVE  VendorScore(q, hint, w) < VendorScore(q, hint, v)
  <2>1. Keywords(q, w) + 150 < Keywords(q, v)
    BY <1>3 DEF Scored
  <2> QED  BY <1>2, <2>1
<1>4. VendorScore(q, hint, v) <= VendorScore(q, hint, v)
  BY <1>2
<1>5. \A u, w : ~(VendorScore(q, hint, u) < VendorScore(q, hint, w)
                  /\ VendorScore(q, hint, w) <= VendorScore(q, hint, u))
  BY ScoreIsNat
<1>6. \A w \in scored : VendorScore(q, hint, w) <= VendorScore(q, hint, v)
  <2>1. \A w \in scored \ {v} : VendorScore(q, hint, w) <= VendorScore(q, hint, v)
    BY <1>3, ScoreIsNat
  <2> HIDE DEF scored
  <2> QED  BY <1>4, <2>1
<1>7. best = {v}
  <2> HIDE DEF scored
  <2> QED  BY <1>1, <1>3, <1>5, <1>6
<1>8. Precedence(q, v) <= Precedence(q, v)
  BY <1>1, PrecedenceIsNat
<1>9. Detect(q, hint) = CHOOSE u \in best : \A w \in best : Precedence(q, u) <= Precedence(q, w)
  BY <1>1 DEF Detect, Scored
<1> HIDE DEF best, scored
<1> QED  BY <1>7, <1>8, <1>9

\* No guess of the model overrules a question that speaks clearly enough of one vendor.
THEOREM ClearNamesDecide == Spec => []HintOutweighed
<1>1. Init => HintOutweighed
  BY DEF Init, HintOutweighed
<1>2. ASSUME RegistryFit, HintOutweighed, [Next]_vars PROVE HintOutweighed'
  <2>1. CASE Understand \/ SearchFails \/ UNCHANGED vars
    BY <1>2, <2>1 DEF Understand, SearchFails, vars, HintOutweighed, Named, NamedAliases, Keywords
  <2>2. CASE SearchBlank
    BY <2>2 DEF SearchBlank, HintOutweighed
  <2>3. ASSUME NEW found, Answered(found), stage = "asked" PROVE HintOutweighed'
    BY <1>2, <2>3 DEF Answered, HintOutweighed, Named, NamedAliases, Keywords
  <2>4. ASSUME NEW q \in Questions, NEW override, NEW mode, NEW defaultMode,
               Search(q, override, mode, defaultMode)
        PROVE  HintOutweighed'
    <3>1. /\ request'.question = q /\ request'.override = override /\ registry' = registry
          /\ policy' = Resolve(q, vendorHint, override, mode, defaultMode)
      BY <2>4 DEF Search, Asked
    <3>2. ASSUME override = <<>>, NEW v \in Named(q),
                 \A w \in ToSet(registry.vendors) \ {v} : Keywords(q, w) + 150 < Keywords(q, v)
          PROVE  policy'.vendor = v
      <4>1. Detect(q, vendorHint) = v
        BY <1>2, <3>2, LeaderIsDetected
      <4>2. v # NoVendor
        BY <1>2, RegistryAssumption DEF Named, RegistryFit, Keys, RegistryAssumption
      <4> QED  BY <3>1, <3>2, <4>1, <4>2 DEF Resolve
    <3> QED  BY <3>1, <3>2 DEF HintOutweighed, Named, NamedAliases, Keywords
  <2> QED
    BY <1>2, <2>1, <2>2, <2>3, <2>4 DEF Next, Answer, TavilyAnswers, FixtureAnswers
<1>3. PolicyFit => RegistryFit
  BY DEF PolicyFit
<1> QED  BY <1>1, <1>2, <1>3, PolicyAlwaysFits, PTL DEF Spec

-----------------------------------------------------------------------------
(* The order of evidence *)

InOrder ==
  /\ \A i \in DOMAIN evidence : evidence[i].tier = Classify(evidence[i].page)
  /\ \A i, j \in DOMAIN evidence : i < j => ~Outranks(evidence[j], evidence[i])

\* A page keeps its class as long as the policy and the registry last.
LEMMA SameClass ==
  ASSUME UNCHANGED <<policy, registry>>, NEW page
  PROVE  Classify(page)' = Classify(page)
BY DEF Classify, TierOf, OtherTier

\* What is sorted stays in order when the order is applied.
LEMMA SiftedIsRanked ==
  ASSUME NEW found, Answered(found)
  PROVE  InOrder'
<1>1. PICK order \in [1..Cardinality(Accepted(found)) -> Accepted(found)] :
        Sorted(found, order) /\ evidence' = [n \in DOMAIN order |-> Graded(found[order[n]])]
  BY DEF Answered, ToEvidence
<1>2. policy' = policy /\ registry' = registry
  BY DEF Answered
<1>3. ASSUME NEW n \in DOMAIN evidence' PROVE evidence'[n].tier = Classify(evidence'[n].page)
  BY <1>1, <1>3 DEF Graded
<1>4. ASSUME NEW i \in DOMAIN evidence', NEW j \in DOMAIN evidence', i < j
      PROVE  ~Outranks(evidence'[j], evidence'[i])
  <2>1. ~Outranks(Graded(found[order[j]]), Graded(found[order[i]]))
    BY <1>1, <1>4 DEF Sorted
  <2> QED  BY <1>1, <1>4, <2>1
<1>5. \A n \in DOMAIN evidence' : evidence'[n].tier = Classify(evidence[n].page)'
  <2>1. SUFFICES ASSUME NEW n \in DOMAIN evidence', NEW page, page = evidence'[n].page
                 PROVE  evidence'[n].tier = Classify(page)'
    OBVIOUS
  <2>2. evidence'[n].tier = Classify(page)
    BY <1>3, <2>1
  <2> QED  BY <1>2, <2>2, SameClass
<1> QED  BY <1>4, <1>5 DEF InOrder, Outranks

LEMMA EvidenceIsRanked == Spec => []InOrder
<1>1. Init => InOrder
  BY DEF Init, InOrder
<1>2. ASSUME InOrder, [Next]_vars PROVE InOrder'
  <2>1. CASE Understand \/ SearchFails \/ UNCHANGED vars
    <3>1. UNCHANGED <<policy, registry, evidence>>
      BY <2>1 DEF Understand, SearchFails, vars
    <3>2. \A i \in DOMAIN evidence : Classify(evidence[i].page)' = Classify(evidence[i].page)
      BY <3>1 DEF Classify, TierOf, OtherTier
    <3> QED  BY <1>2, <3>1, <3>2 DEF InOrder, Outranks
  <2>2. ASSUME NEW q, NEW override, NEW mode, Asked(q, override, mode) PROVE InOrder'
    BY <2>2 DEF Asked, InOrder
  <2>3. ASSUME NEW found, Answered(found) PROVE InOrder'
    BY <2>3, SiftedIsRanked
  <2> QED
    BY <1>2, <2>1, <2>2, <2>3
    DEF Next, Answer, Search, SearchBlank, TavilyAnswers, FixtureAnswers
<1> QED  BY <1>1, <1>2, PTL DEF Spec

\* Evidence that claims one of the official tiers is some vendor's own page, and the
\* list leads with the most authoritative and, among those, the most relevant.
THEOREM AuthorityIsEarned == Spec => []AuthorityFirst
<1>1. ASSUME PolicyFit, InOrder PROVE AuthorityFirst
  <2>1. ASSUME NEW i \in DOMAIN evidence, evidence[i].tier <= 3
        PROVE  \E v \in ToSet(registry.vendors) : OfficialOf(v, evidence[i].page)
    <3> DEFINE page == evidence[i].page
    <3>1. Classify(page) <= 3
      BY <1>1, <2>1 DEF InOrder
    <3>2. ValidRegistry(registry) /\ policy.vendor \in ToSet(registry.vendors) \cup {NoVendor}
      BY <1>1 DEF PolicyFit, RegistryFit
    <3> HIDE DEF page
    <3>3. \E v \in ToSet(registry.vendors) : OfficialOf(v, page)
      BY <3>1, <3>2, EarnedTier
    <3> QED  BY <3>3 DEF page
  <2> QED  BY <1>1, <2>1 DEF InOrder, AuthorityFirst
<1> QED  BY <1>1, PolicyAlwaysFits, EvidenceIsRanked, PTL

-----------------------------------------------------------------------------
(* The fixtures *)

\* The score of a page follows from the search in progress.
LEMMA FixtureScored ==
  ASSUME request.question \in Questions, NEW page \in Pages
  PROVE  FixtureScore(page) \in Nat
<1>1. Relevance[request.question][page] \in Nat
  BY ThreadAssumption DEF ThreadAssumption
<1> QED  BY <1>1 DEF FixtureScore

\* What the fixtures return are recorded pages they may replay.
LEMMA FixturesReplayed ==
  ASSUME request.question \in Questions
  PROVE  /\ FixtureResults \in Seq(Hit)
         /\ \A n \in DOMAIN FixtureResults : Replayable(FixtureResults[n].page)
<1> DEFINE pages == {i \in DOMAIN Fixtures : Replayable(Fixtures[i])}
           score(i) == FixtureScore(Fixtures[i])
           order == {p \in pages \X pages :
                       LET a == score(p[1])
                           b == score(p[2])
                       IN a > b \/ (a = b /\ p[1] < p[2])}
           list == Ranked(pages, order)
           Scored1(i) == [page |-> Fixtures[i], score |-> IF score(i) > 100 THEN 100 ELSE score(i)]
           n == IF Len(list) < MaxResults THEN Len(list) ELSE MaxResults
<1>1. FixtureResults = [k \in 1..n |-> Scored1(list[k])]
  BY DEF FixtureResults
<1>2. Fixtures \in Seq(Pages) /\ DOMAIN Fixtures = 1..Len(Fixtures) /\ Len(Fixtures) \in Nat
      /\ MaxResults \in Nat
  BY ThreadAssumption DEF ThreadAssumption
<1>3. pages \subseteq 1..Len(Fixtures) /\ \A i \in pages : Replayable(Fixtures[i])
  BY <1>2
<1>4. IsFiniteSet(pages)
  <2>1. IsFiniteSet(1..Len(Fixtures))
    BY <1>2, FS_Interval
  <2> HIDE DEF pages
  <2> QED  BY <1>3, <2>1, FS_Subset
<1>5. \A i \in pages : i \in Nat /\ Fixtures[i] \in Pages /\ score(i) \in Nat
  BY <1>2, <1>3, FixtureScored
<1>6. \A i, j \in pages :
        <<i, j>> \in order <=> score(i) > score(j) \/ (score(i) = score(j) /\ i < j)
  OBVIOUS
<1> HIDE DEF pages, score, order
<1>7. StrictOrder(pages, order)
  BY <1>5, <1>6 DEF StrictOrder
<1>8. list \in Seq(pages)
  BY <1>4, <1>7, RankedList
<1> HIDE DEF list
<1>9. n \in Nat /\ \A k \in 1..n : list[k] \in pages
  BY <1>2, <1>8
<1> HIDE DEF n
<1>10. \A k \in 1..n : Scored1(list[k]) \in Hit /\ Scored1(list[k]).page = Fixtures[list[k]]
  BY <1>5, <1>9 DEF Hit
<1> HIDE DEF Scored1
<1>11. FixtureResults \in [1..n -> Hit]
  BY <1>1, <1>10
<1>12. \A k \in DOMAIN FixtureResults : Replayable(FixtureResults[k].page)
  BY <1>1, <1>3, <1>9, <1>10
<1> QED  BY <1>9, <1>11, <1>12

\* A strict search of the fixtures rejects only what a repository host brought along.
LEMMA MirrorStep ==
  ASSUME request.question \in Questions, FixtureAnswers
  PROVE  FixtureMirrors'
<1>1. Answered(FixtureResults)
  BY DEF FixtureAnswers
<1>2. policy' = policy /\ registry' = registry
  BY <1>1 DEF Answered
<1>3. rejected' = {FixtureResults[i] : i \in DOMAIN FixtureResults \ Accepted(FixtureResults)}
  BY <1>1 DEF Answered, ToEvidence
<1>4. ASSUME policy.mode = "strict", policy.allowed # {}, NEW hit \in rejected', hit.page.text
      PROVE  OnAny(hit.page.host, {r.host : r \in policy.repositories})
  <2>1. PICK i \in DOMAIN FixtureResults : hit = FixtureResults[i] /\ i \notin Accepted(FixtureResults)
    BY <1>3
  <2> DEFINE page == hit.page
  <2>2. Replayable(page)
    BY <2>1, FixturesReplayed
  <2>3. ~IsPermitted(page)
    BY <1>4, <2>1 DEF Accepted
  <2> HIDE DEF page
  <2>4. SearchDomains # {}
    BY <1>4 DEF SearchDomains
  <2>5. OnAny(page.host, SearchDomains) /\ ~OnAny(page.host, registry.blocked)
    BY <1>4, <2>2, <2>4 DEF Replayable
  <2>6. page.host # <<>>
    BY <2>5 DEF OnAny, DomainMatches
  <2>7. ~OnAny(page.host, policy.allowed)
    BY <2>3, <2>5, <2>6 DEF IsPermitted
  <2>8. OnAny(page.host, {r.host : r \in policy.repositories})
    BY <2>5, <2>7 DEF OnAny, SearchDomains
  <2> QED  BY <2>8 DEF page
<1> QED  BY <1>2, <1>4 DEF FixtureMirrors, OnAny

-----------------------------------------------------------------------------
(* Types *)

LEMMA FallbackTyped ==
  ASSUME NEW reg \in Registries
  PROVE  ToSet(reg.fallback) \subseteq Hosts
<1> SUFFICES ASSUME NEW d \in ToSet(reg.fallback)
             PROVE  d \in Hosts
  OBVIOUS
<1>1. d \in UNION {ToSet(r.fallback) : r \in Registries}
  OBVIOUS
<1> QED  BY <1>1, Zenon DEF Hosts

\* A vendor of the registry has domains and repositories, and some mode.
LEMMA RegistryTyped ==
  ASSUME NEW reg \in Registries, NEW v \in ToSet(reg.vendors)
  PROVE  /\ ToSet(reg.official[v]) \subseteq Hosts /\ reg.repositories[v] \subseteq Repositories
         /\ reg.mode[v] \in Modes /\ reg.fallbackMode \in Modes
         /\ v \in Keys
<1>1. ToSet(reg.official[v]) \subseteq Hosts
  <2> SUFFICES ASSUME NEW d \in ToSet(reg.official[v])
               PROVE  d \in Hosts
    OBVIOUS
  <2>1. d \in UNION {ToSet(reg.official[w]) : w \in ToSet(reg.vendors)}
    OBVIOUS
  <2>2. d \in UNION {UNION {ToSet(r.official[w]) : w \in ToSet(r.vendors)} : r \in Registries}
    BY <2>1
  <2>3. UNION {UNION {ToSet(r.official[v_1]) : v_1 \in ToSet(r.vendors)} : r \in Registries}
          = UNION {UNION {ToSet(r.official[w]) : w \in ToSet(r.vendors)} : r \in Registries}
    OBVIOUS
  <2> QED  BY <2>2, <2>3, Zenon DEF Hosts
<1>2. reg.repositories[v] \subseteq Repositories
  BY DEF Repositories
<1>3. reg.mode[v] \in Modes /\ reg.fallbackMode \in Modes
  BY RegistryAssumption DEF RegistryAssumption
<1>4. v \in Keys
  BY DEF Keys
<1> QED  BY <1>1, <1>2, <1>3, <1>4

LEMMA ResolveTyped ==
  ASSUME RegistryFit, NEW q \in Questions, NEW hint, NEW override \in Overrides,
         NEW mode \in Modes \cup {NoMode}, NEW defaultMode \in Modes
  PROVE  Resolve(q, hint, override, mode, defaultMode) \in Policies
<1> DEFINE v == Detect(q, hint)
<1>1. registry \in Registries /\ v \in ToSet(registry.vendors) \cup {NoVendor}
  BY DetectsKnownVendor DEF RegistryFit
<1>2. ToSet(override) \subseteq Hosts
  BY DEF Hosts
<1>3. ToSet(registry.fallback) \subseteq Hosts /\ registry.fallbackMode \in Modes
  BY <1>1, FallbackTyped, RegistryAssumption DEF RegistryAssumption
<1>4. v # NoVendor => /\ ToSet(registry.official[v]) \subseteq Hosts
                      /\ registry.repositories[v] \subseteq Repositories
                      /\ registry.mode[v] \in Modes /\ v \in Keys
  BY <1>1, RegistryTyped
<1> HIDE DEF v
<1>5. CASE override # <<>>
  <2>1. Resolve(q, hint, override, mode, defaultMode) =
          [allowed |-> {d \in ToSet(override) : ~OnAny(d, registry.blocked)},
           mode |-> IF mode = NoMode THEN defaultMode ELSE mode,
           vendor |-> NoVendor, repositories |-> {}]
    BY <1>5 DEF Resolve
  <2> QED  BY <1>2, <2>1 DEF Policies
<1>6. CASE override = <<>> /\ v = NoVendor
  <2>1. Resolve(q, hint, override, mode, defaultMode) =
          [allowed |-> ToSet(registry.fallback),
           mode |-> IF mode = NoMode THEN registry.fallbackMode ELSE mode,
           vendor |-> NoVendor, repositories |-> {}]
    BY <1>6 DEF Resolve, v
  <2> QED  BY <1>3, <2>1 DEF Policies
<1>7. CASE override = <<>> /\ v # NoVendor
  <2>1. Resolve(q, hint, override, mode, defaultMode) =
          [allowed |-> ToSet(registry.official[v]),
           mode |-> IF mode = NoMode THEN registry.mode[v] ELSE mode,
           vendor |-> v, repositories |-> registry.repositories[v]]
    BY <1>7 DEF Resolve, v
  <2> QED  BY <1>4, <1>7, <2>1 DEF Policies
<1> QED  BY <1>5, <1>6, <1>7

\* A tier is one of the five.
LEMMA TierTyped ==
  ASSUME registry \in Registries, NEW v \in ToSet(registry.vendors), NEW host
  PROVE  TierOf(v, host) \in 0..5
<1> DEFINE tiers == registry.tiers[v]
           fits == {i \in DOMAIN tiers : DomainMatches(host, tiers[i].domain)}
           Entry == [domain : Hosts, tier : 1..5]
<1>1. tiers \in Seq(Entry) /\ \A e \in Entry : e.tier \in 1..5
  BY RegistryAssumption DEF RegistryAssumption
<1> HIDE DEF tiers
<1>2. CASE fits = {}
  BY <1>2 DEF TierOf, tiers
<1>3. CASE fits # {}
  <2>1. fits \subseteq Nat /\ fits \subseteq DOMAIN tiers
    BY <1>1
  <2> HIDE DEF fits
  <2>2. \E i \in fits : \A j \in fits : i <= j
    BY <1>3, <2>1, LeastNat
  <2>3. PICK i \in fits : i = CHOOSE m \in fits : \A j \in fits : m <= j
    BY <2>2
  <2>4. TierOf(v, host) = tiers[i].tier
    BY <1>3, <2>3 DEF TierOf, fits, tiers
  <2> HIDE DEF Entry
  <2>5. tiers[i] \in Entry
    BY <1>1, <2>1
  <2> QED  BY <1>1, <2>4, <2>5
<1> QED  BY <1>2, <1>3

LEMMA ClassTyped ==
  ASSUME registry \in Registries, policy.vendor \in ToSet(registry.vendors) \cup {NoVendor}, NEW page
  PROVE  Classify(page) \in 1..5
<1> DEFINE vendors == registry.vendors
           fits == {i \in DOMAIN vendors : TierOf(vendors[i], page.host) # 0}
<1>1. vendors \in Seq(Keys)
  BY RegistryAssumption DEF RegistryAssumption
<1>2. OtherTier(page.host) \in 0..5
  <2>1. CASE fits = {}
    BY <2>1 DEF OtherTier
  <2>2. CASE fits # {}
    <3>1. fits \subseteq Nat /\ fits \subseteq DOMAIN vendors
      BY <1>1
    <3> HIDE DEF fits
    <3>2. \E i \in fits : \A j \in fits : i <= j
      BY <2>2, <3>1, LeastNat
    <3>3. PICK i \in fits : i = CHOOSE m \in fits : \A j \in fits : m <= j
      BY <3>2
    <3>4. OtherTier(page.host) = TierOf(vendors[i], page.host)
      BY <2>2, <3>3 DEF OtherTier, fits
    <3>5. vendors[i] \in ToSet(vendors)
      BY <3>1 DEF ToSet
    <3> QED  BY <3>4, <3>5, TierTyped
  <2> QED  BY <2>1, <2>2
<1>3. policy.vendor # NoVendor => TierOf(policy.vendor, page.host) \in 0..5
  BY TierTyped
<1> QED  BY <1>2, <1>3 DEF Classify

\* Sifting keeps pages and scores, and adds a tier.
LEMMA SiftTyped ==
  ASSUME registry \in Registries, policy.vendor \in ToSet(registry.vendors) \cup {NoVendor},
         NEW found \in Seq(Hit), ToEvidence(found)
  PROVE  evidence' \in Seq([page : Pages, score : Int, tier : 1..5]) /\ rejected' \subseteq Hit
<1> DEFINE T == [page : Pages, score : Int, tier : 1..5]
<1>1. PICK order \in [1..Cardinality(Accepted(found)) -> Accepted(found)] :
        evidence' = [n \in DOMAIN order |-> Graded(found[order[n]])]
  BY DEF ToEvidence
<1>2. \A i \in DOMAIN found : found[i] \in Hit
  OBVIOUS
<1>3. Accepted(found) \subseteq DOMAIN found /\ Cardinality(Accepted(found)) \in Nat
  <2>1. IsFiniteSet(1..Len(found)) /\ DOMAIN found = 1..Len(found)
    BY FS_Interval
  <2>2. Accepted(found) \subseteq 1..Len(found)
    BY <2>1 DEF Accepted
  <2> QED  BY <2>1, <2>2, FS_Subset, FS_CardinalityType
<1>4. ASSUME NEW hit \in Hit
      PROVE  Graded(hit) \in T
  BY ClassTyped DEF Graded, Hit
<1>5. \A n \in DOMAIN order : Graded(found[order[n]]) \in T
  BY <1>2, <1>3, <1>4
<1>6. evidence' \in [1..Cardinality(Accepted(found)) -> T]
  BY <1>1, <1>5
<1>7. evidence' \in Seq(T)
  <2> HIDE DEF T
  <2> QED  BY <1>3, <1>6
<1>8. rejected' \subseteq Hit
  BY <1>2 DEF ToEvidence
<1> QED  BY <1>7, <1>8

LEMMA TavilyTyped ==
  ASSUME request.question \in Questions, NEW found \in TavilyResults
  PROVE  found \in Seq(Hit)
<1>1. PICK n \in 0..MaxResults :
        found \in [1..n -> [page : Pages, score : {Relevance[request.question][p] : p \in Pages}]]
  BY DEF TavilyResults
<1>2. \A p \in Pages : Relevance[request.question][p] \in Int
  BY ThreadAssumption DEF ThreadAssumption
<1>3. n \in Nat
  BY <1>1, ThreadAssumption DEF ThreadAssumption
<1>4. found \in [1..n -> Hit]
  BY <1>1, <1>2 DEF Hit
<1> QED  BY <1>3, <1>4

\* Every search keeps its types, whatever the provider returns.
THEOREM TypeCorrect == Spec => []TypeOK
<1>1. Init => TypeOK
  <2> SUFFICES ASSUME Init PROVE TypeOK  OBVIOUS
  <2>1. provider \in {"tavily", "fixture", "none"}
    BY DEF Init, BuildProvider
  <2>2. request.question \in Questions /\ request \in
          [question : Questions, override : Overrides, mode : Modes \cup {NoMode}]
    BY ThreadAssumption DEF Init, ThreadAssumption, AnyQuestion
  <2>3. policy \in Policies
    BY DEF Init, NoPolicy, Policies, Modes
  <2> QED  BY <2>1, <2>2, <2>3 DEF Init, TypeOK
<1>2. ASSUME TypeOK, PolicyFit, [Next]_vars PROVE TypeOK'
  <2>0. /\ RegistryFit /\ registry \in Registries /\ request.question \in Questions
        /\ policy.vendor \in ToSet(registry.vendors) \cup {NoVendor}
    BY <1>2 DEF TypeOK, PolicyFit, RegistryFit
  <2>1. CASE Understand \/ SearchFails \/ UNCHANGED vars
    BY <1>2, <2>1 DEF TypeOK, Understand, SearchFails, vars, Hit, Policies
  <2>2. ASSUME NEW q \in Questions, NEW override \in Overrides, NEW mode \in Modes \cup {NoMode},
               NEW defaultMode \in Modes, Search(q, override, mode, defaultMode)
        PROVE  TypeOK'
    <3>1. policy' \in Policies
      BY <2>0, <2>2, ResolveTyped DEF Search
    <3>2. request' \in [question : Questions, override : Overrides, mode : Modes \cup {NoMode}]
      BY <2>2 DEF Search, Asked
    <3> QED  BY <1>2, <2>2, <3>1, <3>2 DEF TypeOK, Search, Asked
  <2>3. CASE SearchBlank
    <3>1. request' \in [question : Questions, override : Overrides, mode : Modes \cup {NoMode}]
      BY <2>0, <2>3, ThreadAssumption DEF SearchBlank, Asked, ThreadAssumption
    <3>2. policy' \in Policies
      BY <2>3 DEF SearchBlank, NoPolicy, Policies, Modes
    <3> QED  BY <1>2, <2>3, <3>1, <3>2 DEF TypeOK, SearchBlank, Asked
  <2>4. ASSUME NEW found \in Seq(Hit), Answered(found) PROVE TypeOK'
    <3>1. evidence' \in Seq([page : Pages, score : Int, tier : 1..5]) /\ rejected' \subseteq Hit
      BY <2>0, <2>4, SiftTyped DEF Answered
    <3> QED  BY <1>2, <2>4, <3>1 DEF TypeOK, Answered, Policies, Hit
  <2>5. CASE TavilyAnswers
    BY <2>0, <2>4, <2>5, TavilyTyped DEF TavilyAnswers
  <2>6. CASE FixtureAnswers
    BY <2>0, <2>4, <2>6, FixturesReplayed DEF FixtureAnswers
  <2> QED  BY <1>2, <2>1, <2>2, <2>3, <2>5, <2>6 DEF Next, Answer
<1> QED  BY <1>1, <1>2, PolicyAlwaysFits, PTL DEF Spec

\* What a strict search of the fixtures discards, the live provider would return too.
THEOREM FixturesMirrorTheWeb == Spec => []FixtureMirrors
<1>1. Init => FixtureMirrors
  BY DEF Init, FixtureMirrors
<1>2. ASSUME TypeOK, FixtureMirrors, [Next]_vars PROVE FixtureMirrors'
  <2>1. CASE Understand \/ SearchFails \/ UNCHANGED vars
    BY <1>2, <2>1 DEF Understand, SearchFails, vars, FixtureMirrors, OnAny
  <2>2. ASSUME NEW q, NEW override, NEW mode, Asked(q, override, mode), stage' # "answered"
        PROVE  FixtureMirrors'
    BY <2>2 DEF FixtureMirrors
  <2>3. CASE TavilyAnswers
    BY <2>3 DEF TavilyAnswers, Answered, FixtureMirrors
  <2>4. CASE FixtureAnswers
    BY <1>2, <2>4, MirrorStep DEF TypeOK
  <2> QED  BY <1>2, <2>1, <2>2, <2>3, <2>4 DEF Next, Answer, Search, SearchBlank
<1> QED  BY <1>1, <1>2, TypeCorrect, PTL DEF Spec
=============================================================================
