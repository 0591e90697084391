---------------------------- MODULE MCAgentGraph ----------------------------
(* Bounded instances of AgentGraph. *)
EXTENDS AgentGraph

CONSTANTS r1, r2, t1, t2, t3, i1, o1, o2

MCRequests == {r1}
MCTopics == {t1, t2, t3}
MCMissing == {"details"}
MCPassages == {i1, o1, o2}
MCInternal == {i1}
MCMalicious == {o2}

LOCAL Research(needs, chans, qs) ==
  [workflow |-> "research", needsRetrieval |-> needs, channels |-> chans, queries |-> qs]

\* A direct answer, a plan without a channel, one query on one channel,
\* two queries on both, the longest plan the schema admits, and a triage.
MCPlans ==
  {Research(FALSE, {}, <<>>), Research(TRUE, {}, <<>>), Research(TRUE, {"official"}, <<t1>>),
   Research(TRUE, Channels, <<t1>>), Research(TRUE, Channels, <<t1, t2, t1, t3>>),
   [workflow |-> "triage", needsRetrieval |-> TRUE, channels |-> Channels, queries |-> <<t1>>]}

\* Enough; not enough with no, stale, one and several reformulations.
MCAssessments ==
  {[sufficient |-> TRUE, missing |-> "", refined |-> <<>>],
   [sufficient |-> FALSE, missing |-> "details", refined |-> <<>>],
   [sufficient |-> FALSE, missing |-> "", refined |-> <<t1>>],
   [sufficient |-> FALSE, missing |-> "details", refined |-> <<t1, t2, t3>>]}

\* For several runs on one thread: every branch, one retrieval of two queries.
MCThreadPlans ==
  {Research(FALSE, {}, <<>>), Research(TRUE, Channels, <<t1>>),
   [workflow |-> "triage", needsRetrieval |-> FALSE, channels |-> {}, queries |-> <<t1>>]}
MCThreadAssessments ==
  {[sufficient |-> TRUE, missing |-> "", refined |-> <<>>],
   [sufficient |-> FALSE, missing |-> "details", refined |-> <<t1, t2>>]}
=============================================================================
