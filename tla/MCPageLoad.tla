----------------------------- MODULE MCPageLoad -----------------------------
(***************************************************************************)
(* PageLoad for TLC: pages of up to three records in batches of two, so    *)
(* that the last batch is empty, short or full, with nested, null and      *)
(* absent fields, a record that is no object and a repeated one; strict    *)
(* and permissive pipelines, tables with and without constraints, and      *)
(* configurations that are refused.                                        *)
(***************************************************************************)
EXTENDS PageLoad

CONSTANTS x, y, z

Nested(a) == [id |-> a, v |-> [w |-> z]]
Flat(a) == [id |-> a, v |-> Null]
Short(a) == [id |-> a]

InputsOfModel ==
  {<<>>, <<Nested(x)>>, <<Nested(x), Flat(y)>>, <<Nested(x), Flat(y), Short(z)>>,
   <<Nested(x), Nested(x), Flat(y)>>, <<Nested(x), Null>>}

DocumentsOfModel ==
  Atoms \cup {[w |-> z]}
        \cup UNION {Range(page) : page \in InputsOfModel}

Pipeline(mapping) ==
  [mapping |-> mapping, strict |-> FALSE, batch |-> 2, identifiers |-> TRUE,
   unique |-> {}, notNull |-> {}]

TwoColumns == [id |-> <<"id">>, w |-> <<"v", "w">>]

PipelinesOfModel ==
  {Pipeline(TwoColumns),
   [Pipeline(TwoColumns) EXCEPT !.strict = TRUE],
   [Pipeline(TwoColumns) EXCEPT !.unique = {"id"}],
   [Pipeline(TwoColumns) EXCEPT !.notNull = {"w"}],
   [Pipeline([id |-> <<"id">>]) EXCEPT !.batch = 0],
   [Pipeline([id |-> <<"id">>]) EXCEPT !.identifiers = FALSE],
   Pipeline(<<>>)}

ColumnSetsOfModel == {{"id", "w"}, {"id"}}
=============================================================================
