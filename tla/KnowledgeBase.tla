--------------------------- MODULE KnowledgeBase ---------------------------
(* What ingestion promises of the knowledge base: every document shows one   *)
(* whole version of its content or nothing, and a new version is shown only  *)
(* after the old one is gone.                                                *)
CONSTANTS Documents, Contents    \* Contents: the texts of each version

VARIABLE content     \* the texts a document shows

Init == content = [d \in Documents |-> {}]

Clear(d) == content' = [content EXCEPT ![d] = {}]

Show(d, texts) ==
  /\ content[d] = {}
  /\ content' = [content EXCEPT ![d] = texts]

Next == \E d \in Documents : Clear(d) \/ \E texts \in Contents : Show(d, texts)
Spec == Init /\ [][Next]_content
=============================================================================
