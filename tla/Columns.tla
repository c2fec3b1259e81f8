------------------------------ MODULE Columns ------------------------------
(***************************************************************************)
(* What happens to a dataset's columns between the file and the model: the *)
(* PII scan and the types shown at ingestion (app/pii.py, schemas.py),     *)
(* the overrides of a request, and the metadata the worker fits with,      *)
(* which it detects again on the stored CSV (app/tasks.py); and the same   *)
(* for a dbt schema (app/dbt_parser.py, app/routes/dbt.py).  A name, a     *)
(* value or a type string is represented by what the code's patterns and   *)
(* tables make of it.                                                      *)
(***************************************************************************)
EXTENDS Naturals, Sequences, FiniteSets, SequencesExt

CONSTANTS
  Names,        \* column names; NoName is an empty or missing one
  NoName,
  NameHits,     \* name -> the name heuristics its pattern search finds
  Files,        \* datasets: name -> [text, values, sdtype, reread]; the type
                \* SDV detects at ingestion, and the one the worker detects
  TypeNames,    \* what a client may write for a type in schema_overrides
  SdvTypes,     \* the sdtypes SDV knows
  Docs,         \* dbt documents: [version, models: Seq([name, columns])]
  ModelNames,   \* the models a request may ask for
  SampleSize,   \* non-null values the scan looks at (50)
  MaxModels, MaxColumns  \* _MAX_MODELS (100) and _MAX_COLUMNS (500)

(* The order in which the patterns are tried; the first that hits wins.    *)
NAME_HEURISTICS == <<"name", "email", "phone", "ssn", "dob", "address", "credit_card",
                     "id_document", "ip_address", "financial", "health">>
VALUE_CHECKS    == <<"email", "ssn", "credit_card", "phone", "ip_address">>

(* What the inputs are made of: a value is the set of patterns that match  *)
(* it, and a dbt column has a name, a type and tests, or none of them.     *)
ASSUME HitsAssumption   == NameHits \in [Names -> SUBSET ToSet(NAME_HEURISTICS)]
ASSUME SampleAssumption == SampleSize \in Nat
ASSUME SdvAssumption    == /\ {"numerical", "categorical", "datetime", "boolean"} \subseteq SdvTypes
                           /\ "numeric" \notin SdvTypes
ASSUME FileAssumption   ==
  \A f \in Files :
    /\ DOMAIN f \subseteq Names
    /\ \A c \in DOMAIN f :
         /\ f[c].text \in BOOLEAN
         /\ f[c].values \in Seq(SUBSET ToSet(VALUE_CHECKS))
ASSUME DocAssumption    ==
  \A d \in Docs : \A i \in DOMAIN d.models :
    d.models[i].columns \in
      Seq([name : Names \cup {NoName}, type : STRING, tests : SUBSET STRING])

(* One type string per group of the table, with the property it carries.   *)
TYPE_MAP == [int       |-> <<"numerical", "none">>,
             varchar   |-> <<"categorical", "none">>,
             bool      |-> <<"boolean", "none">>,
             timestamp |-> <<"datetime", "datetime_format">>,
             uuid      |-> <<"id", "regex">>]
SDTYPE_TO_DETECTED == [numerical |-> "numeric", categorical |-> "categorical",
                       datetime |-> "datetime", boolean |-> "boolean", id |-> "categorical"]
(* Mutation: one type is missing from the table.                           *)
DETECTED_TO_SDTYPEM == [categorical |-> "categorical",
                        datetime |-> "datetime", boolean |-> "boolean"]
DETECTED_TO_SDTYPE == [numeric |-> "numerical", categorical |-> "categorical",
                       datetime |-> "datetime", boolean |-> "boolean"]

Lookup(table, x, default) == IF x \in DOMAIN table THEN table[x] ELSE default
detected_type(sdtype)     == Lookup(SDTYPE_TO_DETECTED, sdtype, "categorical")
sdtype_of(name)           == Lookup(DETECTED_TO_SDTYPE, name, name)

(* The loop over the patterns: the label of the first one that hits.       *)
FirstHit(order, hits) ==
  IF \A i \in DOMAIN order : order[i] \notin hits THEN "none"
  ELSE order[CHOOSE i \in DOMAIN order :
               /\ order[i] \in hits
               /\ \A j \in DOMAIN order : order[j] \in hits => i <= j]

check_name_heuristics(name) == FirstHit(NAME_HEURISTICS, NameHits[name])

(* Mutation: all values are looked at, not a sample.                       *)
SampleM(values) == values
Sample(values)  == SubSeq(values, 1, IF Len(values) < SampleSize THEN Len(values) ELSE SampleSize)

(* A value is the set of patterns that match it; 30% of the sample, and at *)
(* least one value, must match.                                            *)
regex_check_values(values) ==
  LET sample   == Sample(values)
      count(p) == Cardinality({i \in DOMAIN sample : p \in sample[i]})
  IN FirstHit(VALUE_CHECKS, {p \in ToSet(VALUE_CHECKS) :
                               count(p) >= 1 /\ 10 * count(p) >= 3 * Len(sample)})

scan_dataframe(file) ==
  LET found(c) == IF check_name_heuristics(c) # "none"
                  THEN [column |-> c, pii_type |-> check_name_heuristics(c),
                        detection_method |-> "name_heuristic"]
                  ELSE [column |-> c, detection_method |-> "value_regex",
                        pii_type |-> IF file[c].text THEN regex_check_values(file[c].values)
                                     ELSE "none"]
  IN {p \in {found(c) : c \in DOMAIN file} : p.pii_type # "none"}

drop_pii_columns(file, pii) ==
  [c \in DOMAIN file \ {p.column : p \in pii} |-> file[c]]

(* metadata.update_column raises for a column that is not in the metadata  *)
(* and for a type that SDV does not know; the worker logs it and goes on   *)
(* with the type it has detected.                                          *)
update_columns(detected, chosen) ==
  [c \in DOMAIN detected |->
     IF c \in DOMAIN chosen /\ sdtype_of(chosen[c]) \in SdvTypes
     THEN sdtype_of(chosen[c]) ELSE detected[c]]

-----------------------------------------------------------------------------
(* A dbt column is [name, type, tests]; the parsed one [name, sdtype,      *)
(* props, warned].                                                         *)
map_type(t) ==
  LET entry == Lookup(TYPE_MAP, t, <<"categorical", "none">>)
  IN [sdtype |-> entry[1], props |-> entry[2], warned |-> t \notin DOMAIN TYPE_MAP \cup {""}]

(* Mutation: the properties of the declared type stay on an id column.     *)
parse_columnM(col) ==
  LET mapped == map_type(col.type)
      isId   == {"unique", "not_null"} \subseteq col.tests
  IN [name |-> col.name, warned |-> mapped.warned, props |-> mapped.props,
      sdtype |-> IF isId THEN "id" ELSE mapped.sdtype]
parse_column(col) ==
  LET mapped == map_type(col.type)
      isId   == {"unique", "not_null"} \subseteq col.tests
  IN [name |-> col.name, warned |-> mapped.warned,
      props |-> IF isId THEN "none" ELSE mapped.props,
      sdtype |-> IF isId THEN "id" ELSE mapped.sdtype]

(* Mutation: a column without a name is kept.                              *)
NamedM(col)        == TRUE
Named(col)         == col.name # NoName
(* The parsed columns stay at their places in the document; the places of  *)
(* those that are dropped are left out.                                    *)
parse_model(model) ==
  [name |-> model.name,
   columns |-> [i \in {i \in DOMAIN model.columns : Named(model.columns[i])} |->
                  parse_column(model.columns[i])]]

Accepted(doc) ==
  /\ doc.version = 2
  /\ Len(doc.models) <= MaxModels
  /\ FoldLeft(LAMBDA n, m : n + Len(m.columns), 0, doc.models) <= MaxColumns

parse_dbt_schema(doc) == [i \in DOMAIN doc.models |-> parse_model(doc.models[i])]

(* The place of the first model of that name, if there is one.             *)
Target(models, name) ==
  {i \in DOMAIN models : models[i].name = name /\ \A j \in 1..(i-1) : models[j].name # name}

(* A dict built column by column: a later column of the same name wins.    *)
NamesOf(columns)   == {columns[i].name : i \in DOMAIN columns}
LastOf(columns, n) ==
  columns[CHOOSE i \in DOMAIN columns :
            /\ columns[i].name = n
            /\ \A j \in DOMAIN columns : columns[j].name = n => j <= i]
to_sdv_metadata(columns) ==
  [n \in NamesOf(columns) |->
     [sdtype |-> LastOf(columns, n).sdtype, props |-> LastOf(columns, n).props]]
dbt_overrides(columns) == [n \in NamesOf(columns) |-> LastOf(columns, n).sdtype]

-----------------------------------------------------------------------------
VARIABLES
  input,      \* the file or dbt document of this dataset
  stage,      \* "new", "stored", "queued", "fitted"; "rejected", "failed"
  schema,     \* datasets.schema_json
  overrides,  \* schema_overrides in the task message
  fitted      \* metadata of the fitted model: column -> sdtype

vars == <<input, stage, schema, overrides, fitted>>

Empty == [c \in {} |-> "none"]

Init ==
  /\ input \in [kind : {"csv"}, file : Files] \cup [kind : {"dbt"}, doc : Docs]
  /\ stage = "new"
  /\ schema = [mode |-> "none"]
  /\ overrides = Empty
  /\ fitted = Empty

(* POST /api/upload, and the sample and database loads: the types and the  *)
(* personal data are those of the frame in memory.  What is stored is a    *)
(* CSV, from which nothing but the names must come back as it was.         *)
Upload ==
  /\ stage = "new" /\ input.kind = "csv"
  /\ stage' = "stored"
  /\ schema' = [mode |-> "single_table",
                columns |-> [c \in DOMAIN input.file |-> detected_type(input.file[c].sdtype)],
                pii_columns |-> scan_dataframe(input.file)]
  /\ UNCHANGED <<input, overrides, fitted>>

(* POST /api/generate: schema_overrides are any strings, for any columns.  *)
Request ==
  /\ stage = "stored"
  /\ \E S \in SUBSET Names : \E o \in [S -> TypeNames] : overrides' = o
  /\ stage' = "queued"
  /\ UNCHANGED <<input, schema, fitted>>

(* The worker: read the stored CSV, drop the flagged columns, detect the   *)
(* types of the rest, apply the overrides.                                 *)
Fit ==
  /\ stage = "queued" /\ schema.mode = "single_table"
  /\ LET real     == drop_pii_columns(input.file, schema.pii_columns)
         metadata == [c \in DOMAIN real |-> real[c].reread]
     IN /\ DOMAIN real # {}
        /\ fitted' = update_columns(metadata, overrides)
  /\ stage' = "fitted"
  /\ UNCHANGED <<input, schema, overrides>>

(* SDV refuses the data or a type it was given for it (or no column is     *)
(* left), or there is no input.                                            *)
FitFails ==
  /\ stage = "queued"
  /\ stage' = "failed"
  /\ UNCHANGED <<input, schema, overrides, fitted>>

(* POST /api/dbt/generate for one model of the document: the first of that *)
(* name.  Its input object is never stored, so the worker cannot fit it.   *)
DbtGenerate ==
  /\ stage = "new" /\ input.kind = "dbt" /\ Accepted(input.doc)
  /\ LET models == parse_dbt_schema(input.doc) IN
       \E name \in ModelNames : \E i \in Target(models, name) :
         LET target == models[i].columns IN
         /\ DOMAIN target # {}
         /\ schema' = [mode |-> "dbt", columns |-> target,
                       dbt_metadata |-> to_sdv_metadata(target)]
         /\ overrides' = dbt_overrides(target)
  /\ stage' = "queued"
  /\ UNCHANGED <<input, fitted>>

(* The document is refused, or has no such model, or one without columns.  *)
DbtReject ==
  /\ stage = "new" /\ input.kind = "dbt"
  /\ \/ ~Accepted(input.doc)
     \/ LET models == parse_dbt_schema(input.doc) IN
          \E name \in ModelNames : \A i \in Target(models, name) : DOMAIN models[i].columns = {}
  /\ stage' = "rejected"
  /\ UNCHANGED <<input, schema, overrides, fitted>>

Next == Upload \/ Request \/ Fit \/ FitFails \/ DbtGenerate \/ DbtReject

Spec == Init /\ [][Next]_vars

-----------------------------------------------------------------------------
TypeOK ==
  /\ stage \in {"new", "stored", "queued", "fitted", "rejected", "failed"}
  /\ schema.mode \in {"none", "single_table", "dbt"}
  /\ DOMAIN overrides \subseteq Names /\ DOMAIN fitted \subseteq Names

(* pii.py's promise that PII columns are excluded from training: a column  *)
(* is fitted exactly if no heuristic finds its name and no pattern matches *)
(* three in ten of its first SampleSize values, as scanned at ingestion.   *)
IsPii(c) ==
  \/ NameHits[c] # {}
  \/ /\ input.file[c].text
     /\ LET n == IF Len(input.file[c].values) < SampleSize
                 THEN Len(input.file[c].values) ELSE SampleSize
        IN \E p \in ToSet(VALUE_CHECKS) :
             LET hits == {i \in 1..n : p \in input.file[c].values[i]}
             IN hits # {} /\ 10 * Cardinality(hits) >= 3 * n
PiiNeverFitted ==
  stage = "fitted" => \A c \in DOMAIN input.file : c \in DOMAIN fitted <=> ~IsPii(c)

(* "User-corrected column types" (tasks.py:137) reach the model: a type    *)
(* chosen in either vocabulary, the page's or SDV's, is the type of the    *)
(* fitted column, whatever was detected before and whatever else the       *)
(* request asks for.  What nobody chose may be fitted as another type than *)
(* the one displayed.                                                      *)
PageTypes == {"numeric", "categorical", "datetime", "boolean"}
TypesAsChosen ==
  stage = "fitted" => \A c \in DOMAIN fitted \cap DOMAIN overrides :
    /\ overrides[c] \in PageTypes => detected_type(fitted[c]) = overrides[c]
    /\ overrides[c] \in SdvTypes  => fitted[c] = overrides[c]

(* A dbt dataset's metadata, its column list and the overrides its task is *)
(* sent agree on every column, whatever is declared twice, and no sdtype   *)
(* carries the property of another.                                        *)
DbtConsistent ==
  schema.mode = "dbt" =>
    /\ DOMAIN schema.dbt_metadata = DOMAIN overrides
    /\ DOMAIN overrides = {schema.columns[i].name : i \in DOMAIN schema.columns}
    /\ \A c \in DOMAIN overrides :
         /\ sdtype_of(overrides[c]) = schema.dbt_metadata[c].sdtype
         /\ schema.dbt_metadata[c].props = "datetime_format" => overrides[c] = "datetime"
         /\ schema.dbt_metadata[c].props = "regex" => overrides[c] = "id"
         /\ \E i \in DOMAIN schema.columns : schema.columns[i].name = c
                                             /\ schema.columns[i].sdtype = overrides[c]
=============================================================================
