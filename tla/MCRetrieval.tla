---------------------------- MODULE MCRetrieval ----------------------------
(* A question near d1 that d2 answers in other words, and one about d2 alone *)
(* to which no passage is near enough, so that its words must answer it.     *)
(* TopK = 2 cuts fused lists.                                                *)
EXTENDS MCIngestion, Retrieval

CONSTANT r1

MCShort == [v \in {"one", "two", "empty"} |->
  CASE v = "one" -> {x, y} [] v = "two" -> {y} [] OTHER -> {}]

MCNear == [nearest |-> <<<<d1, y>>, <<d2, x>>, <<d1, x>>>>,
           near |-> {<<d1, y>>, <<d2, x>>}, some |-> {x, y}, every |-> {y},
           lexical |-> <<<<d2, y>>, <<d2, x>>, <<d1, x>>, <<d1, y>>>>, scope |-> Docs]
MCWithin == [nearest |-> <<<<d1, y>>, <<d2, y>>>>, near |-> {}, some |-> {x}, every |-> {x},
             lexical |-> <<<<d1, x>>, <<d2, x>>>>, scope |-> {d2}]
MCQueries == {MCNear, MCWithin}
=============================================================================
