---------------------------- MODULE MCIngestion ----------------------------
(* Two versions that share a chunk and one without text, so that replacing a *)
(* document both keeps and drops chunks; two models of equal dimensions.     *)
EXTENDS Ingestion

CONSTANTS d1, d2, t1, t2, x, y, z, m1, m2

MCContent == [v \in {"one", "two", "empty"} |->
  CASE v = "one" -> {x, y} [] v = "two" -> {y, z} [] OTHER -> {}]
MCDim == [m \in Models |-> 2]
MCSeeds == <<d1, d2>>
MCOneSeed == <<d2>>

\* A directory and an upload of different documents.
MCApart == [t \in {t1, t2} |-> IF t = t1 THEN {<<d1>>} ELSE {<<d2>>}]
\* A directory and an upload that share a document.
MCShared == [t \in {t1, t2} |-> IF t = t1 THEN {<<d1, d2>>} ELSE {<<d1>>, <<d2>>}]
=============================================================================
