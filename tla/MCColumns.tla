----------------------------- MODULE MCColumns -----------------------------
(* Columns over bounded files and dbt documents.                           *)
EXTENDS Columns

MCNameHits == [n \in Names |-> IF n = "ip address" THEN {"address", "ip_address"} ELSE {}]

(* Values: harmless, an e-mail, or nine digits (both an SSN and a phone).  *)
Values == {{}, {"email"}, {"ssn", "phone"}}
Column(text, n, sdtypes, rereads) ==
  [text : text, values : UNION {[1..i -> Values] : i \in 0..n}, sdtype : sdtypes, reread : rereads]
Rich   == Column({TRUE}, SampleSize + 1, {"categorical"}, {"numerical"})
Plain  == Column(BOOLEAN, 1, {"id"}, {"numerical"})
Typed  == Column({TRUE}, 0, {"numerical", "id", "datetime"}, {"numerical", "unknown", "datetime"})
Number == [text |-> FALSE, values |-> <<{}>>, sdtype |-> "numerical", reread |-> "numerical"]
MCFiles == {[c \in {"a", "b"} |-> IF c = "a" THEN r ELSE Number] : r \in Rich}
           \cup [{"a", "b"} -> Plain \cup Typed]
           \cup [{"a", "ip address"} -> Plain \cup Typed]

DbtColumn == [name : {"a", "b", NoName}, type : DOMAIN TYPE_MAP \cup {"", "json"},
              tests : SUBSET {"unique", "not_null"}]
Short     == [name : {"a", NoName}, type : {"int", "uuid"}, tests : {{}}]
Model(names, S, n) == [name : names, columns : UNION {[1..i -> S] : i \in 0..n}]
MCDocs ==
  [version : {2}, models : [1..1 -> Model({"m"}, DbtColumn, 2)]]
  \cup [version : {1, 2}, models : UNION
       ({[1..i -> Model({"m", "n"}, Short, 2)] : i \in 0..2}
        \cup {[1..3 -> Model({"m"}, Short, 1)]})]
=============================================================================
