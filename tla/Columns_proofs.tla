--------------------------- MODULE Columns_proofs ---------------------------
(* Which columns a model is fitted on and with which types, and what a dbt *)
(* schema becomes, for any files, documents, overrides and sample size.    *)
EXTENDS Columns, FiniteSetTheorems, WellFoundedInduction, TLAPS

-----------------------------------------------------------------------------
(* The operators the model is built from.                                  *)

(* A set of naturals that is not empty has a least member.                 *)
LEMMA Least ==
  ASSUME NEW T \in SUBSET Nat, T # {}
  PROVE  \E x \in T : \A y \in T : x <= y
<1>1. PICK x \in T : \A y \in T : <<y, x>> \notin OpToRel(<, Nat)
  BY NatLessThanWellFounded, WFMin
<1>2. \A y \in T : ~(y < x)
  BY <1>1 DEF OpToRel
<1> QED
  BY <1>2

(* A set of naturals up to n that is not empty has a greatest member.      *)
LEMMA Greatest ==
  ASSUME NEW n \in Nat, NEW T \in SUBSET (1..n), T # {}
  PROVE  \E x \in T : \A y \in T : y <= x
<1> DEFINE M == {m \in Nat : n - m \in T}
<1>1. PICK t \in T : TRUE
  OBVIOUS
<1>2. n - t \in Nat /\ n - (n - t) = t
  OBVIOUS
<1>3. M \in SUBSET Nat /\ M # {}
  BY <1>2
<1>4. PICK m \in M : \A k \in M : m <= k
  BY <1>3, Least
<1>5. n - m \in T /\ m \in Nat
  BY <1>4
<1>6. ASSUME NEW y \in T
      PROVE  y <= n - m
  <2>1. n - y \in Nat /\ n - (n - y) = y
    OBVIOUS
  <2>2. n - y \in M
    BY <2>1
  <2> QED
    BY <2>2, <1>4, <1>5
<1> QED
  BY <1>5, <1>6

(* The loop over the patterns finds nothing exactly if none of them hits,  *)
(* whatever their order.                                                   *)
LEMMA FirstHitFinds ==
  ASSUME NEW order, DOMAIN order \subseteq Nat, NEW hits,
         \A i \in DOMAIN order : order[i] # "none"
  PROVE  FirstHit(order, hits) # "none" <=> \E i \in DOMAIN order : order[i] \in hits
<1> DEFINE T == {i \in DOMAIN order : order[i] \in hits}
<1>1. CASE T = {}
  BY <1>1 DEF FirstHit
<1>2. CASE T # {}
  <2>1. PICK i \in T : \A j \in T : i <= j
    BY <1>2, Least
  <2> DEFINE First(k) == order[k] \in hits /\ \A j \in DOMAIN order : order[j] \in hits => k <= j
  <2>2. \E k \in DOMAIN order : First(k)
    BY <2>1
  <2>3. (CHOOSE k \in DOMAIN order : First(k)) \in DOMAIN order
    BY <2>2
  <2>4. FirstHit(order, hits) = order[CHOOSE k \in DOMAIN order : First(k)]
    BY <2>2 DEF FirstHit
  <2> QED
    BY <2>1, <2>3, <2>4
<1> QED
  BY <1>1, <1>2

(* A column name is flagged exactly if some heuristic hits it.             *)
LEMMA NameFlagged ==
  ASSUME NEW c \in Names
  PROVE  check_name_heuristics(c) # "none" <=> NameHits[c] # {}
<1>1. /\ DOMAIN NAME_HEURISTICS = 1..11
      /\ \A i \in DOMAIN NAME_HEURISTICS : NAME_HEURISTICS[i] # "none"
  BY DEF NAME_HEURISTICS
<1>2. NameHits[c] \in SUBSET {NAME_HEURISTICS[i] : i \in DOMAIN NAME_HEURISTICS}
  BY HitsAssumption DEF ToSet
<1>3. DOMAIN NAME_HEURISTICS \subseteq Nat
  BY <1>1
<1>4. check_name_heuristics(c) # "none" <=>
        \E i \in DOMAIN NAME_HEURISTICS : NAME_HEURISTICS[i] \in NameHits[c]
  BY <1>1, <1>3, FirstHitFinds DEF check_name_heuristics
<1> QED
  BY <1>2, <1>4

(* The sample is the first values, SampleSize of them if there are so many.*)
SizeOf(values) == IF Len(values) < SampleSize THEN Len(values) ELSE SampleSize
LEMMA SampleIs ==
  ASSUME NEW S, NEW values \in Seq(S)
  PROVE  /\ SizeOf(values) \in Nat
         /\ Len(Sample(values)) = SizeOf(values)
         /\ DOMAIN Sample(values) = 1..SizeOf(values)
         /\ \A i \in 1..SizeOf(values) : Sample(values)[i] = values[i]
<1> DEFINE n == SizeOf(values)
<1>1. n \in 0..Len(values)
  BY SampleAssumption DEF SizeOf
<1>2. Sample(values) = SubSeq(values, 1, n)
  BY DEF Sample, SizeOf
<1> HIDE DEF n
<1>3. /\ SubSeq(values, 1, n) \in Seq(S)
      /\ Len(SubSeq(values, 1, n)) = n
      /\ \A i \in 1..n : SubSeq(values, 1, n)[i] = values[i]
  BY <1>1
<1> QED
  BY <1>1, <1>2, <1>3 DEF n

(* A column's values are flagged exactly if some pattern matches at least  *)
(* one value of the sample and at least three in ten.                      *)
Matches(values, p) == {i \in 1..SizeOf(values) : p \in values[i]}
LEMMA ValuesFlagged ==
  ASSUME NEW values \in Seq(SUBSET ToSet(VALUE_CHECKS))
  PROVE  regex_check_values(values) # "none" <=>
           \E p \in ToSet(VALUE_CHECKS) :
             Matches(values, p) # {}
             /\ 10 * Cardinality(Matches(values, p)) >= 3 * SizeOf(values)
<1> DEFINE n        == SizeOf(values)
           sample   == Sample(values)
           count(p) == Cardinality({i \in DOMAIN sample : p \in sample[i]})
           hits     == {p \in ToSet(VALUE_CHECKS) :
                          count(p) >= 1 /\ 10 * count(p) >= 3 * Len(sample)}
<1>1. /\ DOMAIN VALUE_CHECKS = 1..5
      /\ \A i \in DOMAIN VALUE_CHECKS : VALUE_CHECKS[i] # "none"
  BY DEF VALUE_CHECKS
<1>2. n \in Nat /\ Len(sample) = n /\ DOMAIN sample = 1..n
      /\ \A i \in 1..n : sample[i] = values[i]
  BY SampleIs
<1>3. DOMAIN VALUE_CHECKS \subseteq Nat
  BY <1>1
<1>4. regex_check_values(values) = FirstHit(VALUE_CHECKS, hits)
  BY DEF regex_check_values
<1> HIDE DEF sample, n
<1>5. regex_check_values(values) # "none" <=>
        \E i \in DOMAIN VALUE_CHECKS : VALUE_CHECKS[i] \in hits
  BY <1>1, <1>3, <1>4, FirstHitFinds
<1>6. ToSet(VALUE_CHECKS) = {VALUE_CHECKS[i] : i \in DOMAIN VALUE_CHECKS}
  BY DEF ToSet
<1>7. ASSUME NEW p
      PROVE  /\ count(p) = Cardinality(Matches(values, p))
             /\ count(p) >= 1 <=> Matches(values, p) # {}
  <2>1. {i \in DOMAIN sample : p \in sample[i]} = Matches(values, p)
    BY <1>2 DEF Matches, n
  <2>2. IsFiniteSet(1..n) /\ Matches(values, p) \in SUBSET (1..n)
    BY <1>2, FS_Interval DEF Matches, n
  <2>3. IsFiniteSet(Matches(values, p))
    BY <2>2, FS_Subset
  <2>4. /\ Cardinality(Matches(values, p)) \in Nat
        /\ Cardinality(Matches(values, p)) = 0 <=> Matches(values, p) = {}
    BY <2>3, FS_CardinalityType, FS_EmptySet
  <2>5. count(p) = Cardinality(Matches(values, p))
    BY <2>1
  <2> HIDE DEF count
  <2> QED
    BY <2>4, <2>5
<1>8. hits = {p \in ToSet(VALUE_CHECKS) :
                Matches(values, p) # {} /\ 10 * Cardinality(Matches(values, p)) >= 3 * n}
  <2> HIDE DEF count
  <2> QED
    BY <1>2, <1>7
<1> HIDE DEF hits, count
<1> QED
  BY <1>5, <1>6, <1>8 DEF n

(* The scan flags exactly the columns that are personal data.              *)
LEMMA Flagged ==
  ASSUME input.file \in Files, NEW c \in DOMAIN input.file
  PROVE  c \in {p.column : p \in scan_dataframe(input.file)} <=> IsPii(c)
<1> DEFINE file     == input.file
           values   == file[c].values
           found(d) == IF check_name_heuristics(d) # "none"
                       THEN [column |-> d, pii_type |-> check_name_heuristics(d),
                             detection_method |-> "name_heuristic"]
                       ELSE [column |-> d, detection_method |-> "value_regex",
                             pii_type |-> IF file[d].text THEN regex_check_values(file[d].values)
                                          ELSE "none"]
<1>1. /\ c \in Names /\ file[c].text \in BOOLEAN
      /\ values \in Seq(SUBSET ToSet(VALUE_CHECKS))
  BY FileAssumption
<1>2. scan_dataframe(file) = {p \in {found(d) : d \in DOMAIN file} : p.pii_type # "none"}
  BY DEF scan_dataframe
<1>3. \A d : found(d).column = d
  OBVIOUS
<1>4. found(c).pii_type # "none" <=>
        \/ check_name_heuristics(c) # "none"
        \/ file[c].text /\ regex_check_values(values) # "none"
  <2>1. CASE check_name_heuristics(c) # "none"
    BY <2>1
  <2>2. CASE check_name_heuristics(c) = "none"
    BY <2>2, <1>1
  <2> QED
    BY <2>1, <2>2
<1>5. IsPii(c) <=>
        \/ NameHits[c] # {}
        \/ /\ file[c].text
           /\ \E p \in ToSet(VALUE_CHECKS) :
                Matches(values, p) # {}
                /\ 10 * Cardinality(Matches(values, p)) >= 3 * SizeOf(values)
  BY DEF IsPii, Matches, SizeOf
<1> HIDE DEF found
<1>6. c \in {p.column : p \in scan_dataframe(file)} <=> found(c).pii_type # "none"
  BY <1>2, <1>3
<1>7. check_name_heuristics(c) # "none" <=> NameHits[c] # {}
  BY <1>1, NameFlagged
<1>8. regex_check_values(values) # "none" <=>
        \E p \in ToSet(VALUE_CHECKS) :
          Matches(values, p) # {}
          /\ 10 * Cardinality(Matches(values, p)) >= 3 * SizeOf(values)
  BY <1>1, ValuesFlagged
<1> QED
  BY <1>4, <1>5, <1>6, <1>7, <1>8

(* A type and the property it carries agree, whatever is declared.         *)
Sdtypes     == {"numerical", "categorical", "boolean", "datetime", "id"}
Parsed(col) ==
  /\ col.name \in Names /\ col.sdtype \in Sdtypes
  /\ col.props = "datetime_format" => col.sdtype = "datetime"
  /\ col.props = "regex" => col.sdtype = "id"
LEMMA ColumnParsed ==
  ASSUME NEW col, col.name \in Names
  PROVE  Parsed(parse_column(col))
<1> DEFINE mapped == map_type(col.type)
<1>1. /\ mapped.sdtype \in Sdtypes
      /\ mapped.props = "datetime_format" => mapped.sdtype = "datetime"
      /\ mapped.props = "regex" => mapped.sdtype = "id"
  <2>1. CASE col.type \in DOMAIN TYPE_MAP
    <3>1. col.type \in {"int", "varchar", "bool", "timestamp", "uuid"}
      BY <2>1 DEF TYPE_MAP
    <3>2. Lookup(TYPE_MAP, col.type, <<"categorical", "none">>) = TYPE_MAP[col.type]
      BY <2>1 DEF Lookup
    <3>3. mapped.sdtype = TYPE_MAP[col.type][1] /\ mapped.props = TYPE_MAP[col.type][2]
      BY <3>2 DEF map_type
    <3> HIDE DEF mapped
    <3> QED
      BY <3>1, <3>3 DEF TYPE_MAP, Sdtypes
  <2>2. CASE col.type \notin DOMAIN TYPE_MAP
    <3>1. mapped.sdtype = "categorical" /\ mapped.props = "none"
      BY <2>2 DEF map_type, Lookup
    <3> QED
      BY <3>1 DEF Sdtypes
  <2> QED
    BY <2>1, <2>2
<1>2. /\ parse_column(col).name = col.name
      /\ \/ parse_column(col).sdtype = "id" /\ parse_column(col).props = "none"
         \/ parse_column(col).sdtype = mapped.sdtype /\ parse_column(col).props = mapped.props
  BY DEF parse_column
<1> HIDE DEF mapped
<1> QED
  BY <1>1, <1>2 DEF Parsed, Sdtypes

(* What is parsed of a model: named columns at places of the document.     *)
Declared(columns) ==
  /\ \E n \in Nat : DOMAIN columns \subseteq 1..n
  /\ \A i \in DOMAIN columns : Parsed(columns[i])
LEMMA ModelParsed ==
  ASSUME NEW d \in Docs, NEW i \in DOMAIN d.models
  PROVE  Declared(parse_model(d.models[i]).columns)
<1> DEFINE raw  == d.models[i].columns
           cols == parse_model(d.models[i]).columns
<1>1. raw \in Seq([name : Names \cup {NoName}, type : STRING, tests : SUBSET STRING])
  BY DocAssumption
<1>2. cols = [k \in {k \in DOMAIN raw : Named(raw[k])} |-> parse_column(raw[k])]
  BY DEF parse_model
<1>3. DOMAIN raw = 1..Len(raw) /\ Len(raw) \in Nat
      /\ \A k \in DOMAIN raw : raw[k].name \in Names \cup {NoName}
  <2> DEFINE S == [name : Names \cup {NoName}, type : STRING, tests : SUBSET STRING]
  <2>1. \A col \in S : col.name \in Names \cup {NoName}
    OBVIOUS
  <2> HIDE DEF S, raw
  <2>2. raw \in Seq(S)
    BY <1>1 DEF S
  <2>3. DOMAIN raw = 1..Len(raw) /\ Len(raw) \in Nat /\ \A k \in DOMAIN raw : raw[k] \in S
    BY <2>2
  <2> QED
    BY <2>1, <2>3
<1>4. ASSUME NEW k \in DOMAIN cols
      PROVE  Parsed(cols[k])
  <2>1. k \in DOMAIN raw /\ raw[k].name # NoName /\ cols[k] = parse_column(raw[k])
    BY <1>2 DEF Named
  <2> QED
    BY <2>1, <1>3, ColumnParsed
<1>5. DOMAIN cols \subseteq 1..Len(raw)
  BY <1>2, <1>3
<1> QED
  BY <1>3, <1>4, <1>5 DEF Declared

(* A name that is declared has a last declaration.                         *)
LEMMA LastDeclared ==
  ASSUME NEW columns, Declared(columns), NEW c \in NamesOf(columns)
  PROVE  \E i \in DOMAIN columns : columns[i].name = c /\ LastOf(columns, c) = columns[i]
<1> DEFINE T       == {i \in DOMAIN columns : columns[i].name = c}
           Final(i) == columns[i].name = c
                      /\ \A j \in DOMAIN columns : columns[j].name = c => j <= i
<1>1. PICK n \in Nat : DOMAIN columns \subseteq 1..n
  BY DEF Declared
<1>2. T \in SUBSET (1..n) /\ T # {}
  BY <1>1 DEF NamesOf
<1>3. PICK i \in T : \A j \in T : j <= i
  BY <1>2, Greatest
<1>4. \E k \in DOMAIN columns : Final(k)
  BY <1>3
<1>5. LastOf(columns, c) = columns[CHOOSE k \in DOMAIN columns : Final(k)]
  BY DEF LastOf
<1> QED
  BY <1>4, <1>5

-----------------------------------------------------------------------------
(* What the later stages rest on: a single-table dataset keeps what the    *)
(* upload found of its file; overrides name columns, of this dataset or    *)
(* not; a dbt dataset's metadata and overrides are both read off the       *)
(* columns the parser made; and the model is fitted on the columns the     *)
(* scan left, with the types detected then and the overrides that apply.   *)
Inputs    == [kind : {"csv"}, file : Files] \cup [kind : {"dbt"}, doc : Docs]
AsUploaded ==
  schema.mode = "single_table" =>
    /\ input.file \in Files
    /\ schema.columns = [c \in DOMAIN input.file |-> detected_type(input.file[c].sdtype)]
    /\ schema.pii_columns = scan_dataframe(input.file)
AsChosen ==
  /\ schema.mode = "single_table" => DOMAIN overrides \subseteq Names
  /\ stage = "stored" => schema.mode = "single_table"
  /\ stage \in {"new", "rejected"} => schema.mode = "none"
  /\ schema.mode = "none" => overrides = Empty
AsDeclared ==
  schema.mode = "dbt" =>
    /\ Declared(schema.columns)
    /\ schema.dbt_metadata = to_sdv_metadata(schema.columns)
    /\ overrides = dbt_overrides(schema.columns)
AsFitted ==
  /\ stage # "fitted" => fitted = Empty
  /\ stage = "fitted" =>
       /\ schema.mode = "single_table"
       /\ DOMAIN fitted = DOMAIN input.file \ {p.column : p \in schema.pii_columns}
       /\ \A c \in DOMAIN fitted :
            fitted[c] = IF c \in DOMAIN overrides /\ sdtype_of(overrides[c]) \in SdvTypes
                        THEN sdtype_of(overrides[c]) ELSE input.file[c].reread
ColumnsInv ==
  /\ input \in Inputs
  /\ stage \in {"new", "stored", "queued", "fitted", "rejected", "failed"}
  /\ schema.mode \in {"none", "single_table", "dbt"}
  /\ AsUploaded /\ AsChosen /\ AsDeclared /\ AsFitted

LEMMA InitiallyInv ==
  ASSUME Init
  PROVE  ColumnsInv
<1>1. /\ input \in Inputs /\ stage = "new" /\ schema.mode = "none"
      /\ overrides = Empty /\ fitted = Empty
  BY DEF Init, Inputs
<1> QED
  BY <1>1 DEF ColumnsInv, AsUploaded, AsChosen, AsDeclared, AsFitted

(* Every step of ingestion, request and worker keeps that.                 *)
LEMMA ColumnsInvStep ==
  ASSUME ColumnsInv, [Next]_vars
  PROVE  ColumnsInv'
<1> USE DEF ColumnsInv
<1>1. CASE Upload
  <2> DEFINE cols == [c \in DOMAIN input.file |-> detected_type(input.file[c].sdtype)]
             s    == [mode |-> "single_table", columns |-> cols,
                      pii_columns |-> scan_dataframe(input.file)]
  <2>1. /\ stage = "new" /\ schema' = s /\ stage' = "stored"
        /\ UNCHANGED <<input, overrides, fitted>> /\ input.kind = "csv"
    BY <1>1 DEF Upload
  <2>2. /\ s.mode = "single_table" /\ s.columns = cols
        /\ s.pii_columns = scan_dataframe(input.file)
    OBVIOUS
  <2>3. input.file \in Files
    BY <2>1 DEF Inputs
  <2>4. overrides = Empty /\ fitted = Empty /\ DOMAIN Empty = {}
    BY <2>1 DEF AsChosen, AsFitted, Empty
  <2>5. schema'.mode = "single_table" /\ schema'.columns = cols
        /\ schema'.pii_columns = scan_dataframe(input.file)
    BY <2>1, <2>2
  <2> HIDE DEF s
  <2>6. (input \in Inputs)' /\ AsUploaded'
    BY <2>1, <2>3, <2>5 DEF AsUploaded
  <2>7. AsChosen' /\ AsDeclared' /\ AsFitted'
    BY <2>1, <2>4, <2>5 DEF AsChosen, AsDeclared, AsFitted
  <2> QED
    BY <2>1, <2>5, <2>6, <2>7
<1>2. CASE Request
  <2>1. PICK S \in SUBSET Names : \E o \in [S -> TypeNames] : overrides' = o
    BY <1>2 DEF Request
  <2>2. DOMAIN overrides' \subseteq Names
    BY <2>1
  <2>3. /\ stage = "stored" /\ stage' = "queued" /\ UNCHANGED <<input, schema, fitted>>
        /\ schema.mode = "single_table"
    BY <1>2 DEF Request, AsChosen
  <2> QED
    BY <2>2, <2>3 DEF AsUploaded, AsChosen, AsDeclared, AsFitted
<1>3. CASE Fit
  <2> DEFINE real     == drop_pii_columns(input.file, schema.pii_columns)
             metadata == [c \in DOMAIN real |-> real[c].reread]
  <2>1. /\ DOMAIN real = DOMAIN input.file \ {p.column : p \in schema.pii_columns}
        /\ \A c \in DOMAIN real : real[c] = input.file[c]
    BY DEF drop_pii_columns
  <2>2. fitted' = update_columns(metadata, overrides)
    BY <1>3 DEF Fit
  <2>3. /\ DOMAIN metadata = DOMAIN real
        /\ \A c \in DOMAIN real : metadata[c] = real[c].reread
    OBVIOUS
  <2> HIDE DEF real, metadata
  <2>4. /\ DOMAIN fitted' = DOMAIN real
        /\ \A c \in DOMAIN real :
             fitted'[c] = IF c \in DOMAIN overrides /\ sdtype_of(overrides[c]) \in SdvTypes
                          THEN sdtype_of(overrides[c]) ELSE real[c].reread
    BY <2>2, <2>3 DEF update_columns
  <2>5. /\ schema.mode = "single_table" /\ stage' = "fitted"
        /\ UNCHANGED <<input, schema, overrides>>
    BY <1>3 DEF Fit
  <2>6. AsFitted'
    BY <2>1, <2>4, <2>5 DEF AsFitted
  <2> QED
    BY <2>5, <2>6 DEF AsUploaded, AsChosen, AsDeclared
<1>4. CASE DbtGenerate
  <2> DEFINE models == parse_dbt_schema(input.doc)
  <2>1. PICK i : /\ i \in DOMAIN models
                 /\ schema' = [mode |-> "dbt", columns |-> models[i].columns,
                               dbt_metadata |-> to_sdv_metadata(models[i].columns)]
                 /\ overrides' = dbt_overrides(models[i].columns)
    BY <1>4 DEF DbtGenerate, Target
  <2>2. /\ stage = "new" /\ stage' = "queued" /\ UNCHANGED <<input, fitted>>
        /\ input.kind = "dbt"
    BY <1>4 DEF DbtGenerate
  <2>3. i \in DOMAIN input.doc.models /\ models[i] = parse_model(input.doc.models[i])
    BY <2>1 DEF parse_dbt_schema
  <2>4. input.doc \in Docs
    BY <2>2 DEF Inputs
  <2>5. Declared(models[i].columns)
    BY <2>3, <2>4, ModelParsed
  <2> HIDE DEF models
  <2>6. /\ schema'.mode = "dbt" /\ schema'.columns = models[i].columns
        /\ schema'.dbt_metadata = to_sdv_metadata(models[i].columns)
    BY <2>1
  <2>7. AsDeclared'
    BY <2>1, <2>5, <2>6 DEF AsDeclared, Declared, Parsed
  <2>8. fitted' = Empty
    BY <2>2 DEF AsFitted
  <2> QED
    BY <2>2, <2>6, <2>7, <2>8 DEF AsUploaded, AsChosen, AsFitted
<1>5. CASE FitFails \/ DbtReject \/ UNCHANGED vars
  BY <1>5 DEF FitFails, DbtReject, vars, AsUploaded, AsChosen, AsDeclared, AsFitted
<1> QED
  BY <1>1, <1>2, <1>3, <1>4, <1>5 DEF Next

LEMMA ColumnsInvariant == Spec => []ColumnsInv
<1> QED
  BY InitiallyInv, ColumnsInvStep, PTL DEF Spec

-----------------------------------------------------------------------------
(* A dataset is in one of its stages and modes, and overrides and models   *)
(* speak of named columns only, whatever is uploaded or declared.          *)
THEOREM TypeCorrect == Spec => []TypeOK
<1>1. ColumnsInv => TypeOK
  <2> SUFFICES ASSUME ColumnsInv
               PROVE  TypeOK
    OBVIOUS
  <2>1. CASE schema.mode = "none"
    <3>1. overrides = Empty /\ fitted = Empty /\ DOMAIN Empty = {}
      BY <2>1 DEF ColumnsInv, AsChosen, AsFitted, Empty
    <3> QED
      BY <3>1 DEF ColumnsInv, TypeOK
  <2>2. CASE schema.mode = "single_table"
    <3>1. DOMAIN input.file \subseteq Names
      BY <2>2, FileAssumption DEF ColumnsInv, AsUploaded
    <3>2. DOMAIN overrides \subseteq Names
      BY <2>2 DEF ColumnsInv, AsChosen
    <3>3. DOMAIN fitted \subseteq DOMAIN input.file
      BY <2>2 DEF ColumnsInv, AsFitted, Empty
    <3> QED
      BY <3>1, <3>2, <3>3 DEF ColumnsInv, TypeOK
  <2>3. CASE schema.mode = "dbt"
    <3>1. Declared(schema.columns) /\ overrides = dbt_overrides(schema.columns)
          /\ fitted = Empty /\ DOMAIN Empty = {}
      BY <2>3 DEF ColumnsInv, AsDeclared, AsFitted, Empty
    <3>2. DOMAIN overrides = NamesOf(schema.columns)
      BY <3>1 DEF dbt_overrides
    <3>3. NamesOf(schema.columns) \subseteq Names
      BY <3>1 DEF NamesOf, Declared, Parsed
    <3> QED
      BY <3>1, <3>2, <3>3 DEF ColumnsInv, TypeOK
  <2> QED
    BY <2>1, <2>2, <2>3 DEF ColumnsInv
<1> QED
  BY <1>1, ColumnsInvariant, PTL

(* A column is in the fitted model exactly if nothing flagged its name or  *)
(* its sampled values at ingestion: no personal data is fitted and no      *)
(* other column is lost, for any file, sample size and overrides.          *)
THEOREM PersonalDataNotFitted == Spec => []PiiNeverFitted
<1>1. ColumnsInv => PiiNeverFitted
  <2> SUFFICES ASSUME ColumnsInv, stage = "fitted", NEW c \in DOMAIN input.file
               PROVE  c \in DOMAIN fitted <=> ~IsPii(c)
    BY DEF PiiNeverFitted
  <2>1. /\ input.file \in Files
        /\ DOMAIN fitted = DOMAIN input.file \ {p.column : p \in scan_dataframe(input.file)}
    BY DEF ColumnsInv, AsFitted, AsUploaded
  <2>2. c \in {p.column : p \in scan_dataframe(input.file)} <=> IsPii(c)
    BY <2>1, Flagged
  <2> QED
    BY <2>1, <2>2
<1> QED
  BY <1>1, ColumnsInvariant, PTL

(* The table of tasks.py takes each of the page's types to one SDV knows   *)
(* and the table of schemas.py takes that back to it, while a type in      *)
(* SDV's own words is left as it is.                                       *)
LEMMA TablesAgree ==
  /\ \A o \in PageTypes : sdtype_of(o) \in SdvTypes /\ detected_type(sdtype_of(o)) = o
  /\ \A o \in Sdtypes : sdtype_of(o) = o
  /\ \A o \in SdvTypes : sdtype_of(o) = o
<1>1. \A o : o \notin {"numeric", "categorical", "datetime", "boolean"} => sdtype_of(o) = o
  BY DEF sdtype_of, Lookup, DETECTED_TO_SDTYPE
<1>2. /\ sdtype_of("numeric") = "numerical" /\ sdtype_of("categorical") = "categorical"
      /\ sdtype_of("datetime") = "datetime" /\ sdtype_of("boolean") = "boolean"
  BY DEF sdtype_of, Lookup, DETECTED_TO_SDTYPE
<1>3. /\ detected_type("numerical") = "numeric" /\ detected_type("categorical") = "categorical"
      /\ detected_type("datetime") = "datetime" /\ detected_type("boolean") = "boolean"
  BY DEF detected_type, Lookup, SDTYPE_TO_DETECTED
<1> QED
  BY <1>1, <1>2, <1>3, SdvAssumption DEF PageTypes, Sdtypes

(* Whatever the worker detects on the stored CSV, and whatever else is     *)
(* asked for, a column that is fitted has the type the client chose for    *)
(* it, if that is one the page offers or one SDV knows.                    *)
THEOREM FittedAsChosen == Spec => []TypesAsChosen
<1>1. ColumnsInv => TypesAsChosen
  <2> SUFFICES ASSUME ColumnsInv, stage = "fitted", NEW c \in DOMAIN fitted \cap DOMAIN overrides
               PROVE  /\ overrides[c] \in PageTypes => detected_type(fitted[c]) = overrides[c]
                      /\ overrides[c] \in SdvTypes  => fitted[c] = overrides[c]
    BY DEF TypesAsChosen
  <2>1. sdtype_of(overrides[c]) \in SdvTypes => fitted[c] = sdtype_of(overrides[c])
    BY DEF ColumnsInv, AsFitted
  <2> QED
    BY <2>1, TablesAgree
<1> QED
  BY <1>1, ColumnsInvariant, PTL

(* The metadata stored for a dbt model, its column list and the overrides  *)
(* its task is sent are one reading of the document: whatever columns it   *)
(* declares twice, leaves unnamed or makes ids by their tests.             *)
THEOREM DbtReadAlike == Spec => []DbtConsistent
<1>1. ColumnsInv => DbtConsistent
  <2> SUFFICES ASSUME ColumnsInv, schema.mode = "dbt"
               PROVE  DbtConsistent
    BY DEF DbtConsistent
  <2> DEFINE cols == schema.columns
             meta == schema.dbt_metadata
  <2>1. /\ Declared(cols) /\ meta = to_sdv_metadata(cols)
        /\ overrides = dbt_overrides(cols)
    BY DEF ColumnsInv, AsDeclared
  <2> HIDE DEF cols, meta
  <2>2. DOMAIN meta = NamesOf(cols) /\ DOMAIN overrides = NamesOf(cols)
    BY <2>1 DEF to_sdv_metadata, dbt_overrides
  <2>3. ASSUME NEW c \in DOMAIN overrides
        PROVE  /\ sdtype_of(overrides[c]) = meta[c].sdtype
               /\ meta[c].props = "datetime_format" => overrides[c] = "datetime"
               /\ meta[c].props = "regex" => overrides[c] = "id"
               /\ \E i \in DOMAIN cols : cols[i].name = c /\ cols[i].sdtype = overrides[c]
    <3>1. c \in NamesOf(cols)
      BY <2>2
    <3>2. PICK i \in DOMAIN cols : cols[i].name = c /\ LastOf(cols, c) = cols[i]
      BY <2>1, <3>1, LastDeclared
    <3>3. /\ meta[c] = [sdtype |-> LastOf(cols, c).sdtype, props |-> LastOf(cols, c).props]
          /\ overrides[c] = LastOf(cols, c).sdtype
      BY <2>1, <3>1 DEF to_sdv_metadata, dbt_overrides
    <3>4. /\ meta[c].sdtype = cols[i].sdtype /\ meta[c].props = cols[i].props
          /\ overrides[c] = cols[i].sdtype
      BY <3>2, <3>3
    <3>5. Parsed(cols[i])
      BY <2>1 DEF Declared
    <3> QED
      BY <3>2, <3>4, <3>5, TablesAgree DEF Parsed
  <2> QED
    BY <2>2, <2>3 DEF DbtConsistent, NamesOf, cols, meta
<1> QED
  BY <1>1, ColumnsInvariant, PTL
=============================================================================
