------------------------------ MODULE MCSearch ------------------------------
(* Search for two users, one with three books and one with one, and three  *)
(* queries, two of which differ in case only.  The text of D1 is nothing   *)
(* but spaces.                                                             *)
EXTENDS Search

MCTexts == {"long", "ask", "Ask"}
MCWordsOf == [q \in MCTexts |-> IF q = "long" THEN 700 ELSE 3]
MCKeyOf == [q \in MCTexts |-> IF q = "long" THEN "k1" ELSE "k2"]
MCInterval == [s \in Services |-> IF s = "llm" THEN 0 ELSE 1]

MCOwnerOf == [b \in {"A", "B", "C", "D"} |-> IF b = "C" THEN "u2" ELSE "u1"]
MCChunks == {"A1", "A2", "A3", "A4", "B1", "C1", "D1"}
MCBookOf ==
    [h \in MCChunks |->
        CASE h = "B1" -> "B" [] h = "C1" -> "C" [] h = "D1" -> "D"
          [] OTHER -> "A"]
MCChunkText ==
    [h \in MCChunks |-> CASE h = "A2" -> "A1" [] h = "C1" -> "B1" [] OTHER -> h]
MCLength == [A1 |-> 1000, A3 |-> 700, A4 |-> 200, B1 |-> 300, D1 |-> 0]
MCDistance ==
    [q \in MCTexts |->
        IF q # "long"
        THEN [A1 |-> 3, A2 |-> 2, A3 |-> 2, A4 |-> 1, B1 |-> 1, C1 |-> 1,
              D1 |-> 2]
        ELSE [A1 |-> 1, A2 |-> 1, A3 |-> 2, A4 |-> 3, B1 |-> 4, C1 |-> 1,
              D1 |-> 2]]
MCUserOf == [r1 |-> "u1", r2 |-> "u2"]
=============================================================================
