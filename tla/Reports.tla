------------------------------- MODULE Reports -------------------------------
(***************************************************************************)
(* The tables that sat's commands print (sat/report.py): rows are added,   *)
(* and when the report is printed they are sorted and filtered, and columns*)
(* in which nothing is known are left out.                                 *)
(***************************************************************************)
EXTENDS Filters, Inputs

CONSTANTS
  Requests    \* options of --filter, --fields, --sort-by, --reverse, --show-*

ASSUME RequestsAssumption ==
  /\ Requests # {}
  /\ \A r \in Requests :
       /\ IsSeq(r.filters) /\ \A q \in Range(r.filters) : IsQuery(q)
       /\ IsSeq(r.fns) /\ \A fn \in Range(r.fns) : fn.field \in Range(Headings)
       /\ IsSeq(r.fields) /\ \A f \in Range(r.fields) : IsSeq(f)
       /\ r.sort_by.kind = "place" => r.sort_by.place \in Int
       /\ r.sort_by.kind = "name" => IsSeq(r.sort_by.name)

EMPTY == String(100)
MISSING == String(101)

VARIABLES
  request,        \* one of the requests
  table,          \* the batches to add
  reportPc,
  filter_fn,      \* no filter, or one, as a sequence
  sort_by,        \* the heading to sort by, or none
  display_headings, force_columns,
  rows,           \* self.data
  headings_shown, rows_shown  \* what get_rows_to_print returns

settings == <<request, table>>
prepared == <<filter_fn, sort_by, display_headings, force_columns>>
shown == <<headings_shown, rows_shown>>
reports == <<settings, reportPc, prepared, rows, shown>>

ReportInit(used) ==
  /\ request \in Given(used, Requests)
  /\ table \in Given(used, Tables)
  /\ reportPc = "create"
  /\ filter_fn = <<>>
  /\ sort_by = NoHeading
  /\ display_headings = <<>>
  /\ force_columns = {}
  /\ rows = <<>>
  /\ headings_shown = <<>>
  /\ rows_shown = <<>>

ReportTypeOK ==
  /\ reportPc \in {"create", "add", "sort", "filter", "printed", "exit", "crashed"}
  /\ Len(filter_fn) <= 1
  /\ sort_by \in Range(Headings) \cup {NoHeading}
  /\ Range(display_headings) \subseteq Range(Headings)
  /\ force_columns \subseteq Range(Headings)
  /\ \A i \in DOMAIN rows : DOMAIN rows[i] = Range(Headings)
  /\ Len(rows_shown) <= Len(rows)

\* A heading by its place, from the end if that is negative, or by its name.
SortKey(by) ==
  CASE by.kind = "none" -> NoHeading
    [] by.kind = "name" -> MatchQueryKey(by.name)
    [] by.kind = "place" /\ by.place \in 0..Len(Headings) - 1 -> Headings[by.place + 1]
    [] by.kind = "place" /\ by.place \in -Len(Headings)..-1 ->
         Headings[Len(Headings) + 1 + by.place]
    [] OTHER -> NoHeading

\* The entries of a sequence at some of its places, in their order.
AtPlaces(seq, places) ==
  LET rank(i) == Cardinality({j \in places : j <= i})
  IN  [p \in 1..Cardinality(places) |-> seq[CHOOSE i \in places : rank(i) = p]]

\* The headings that are known, each of them once.
Displayed(fields) ==
  LET h == [i \in DOMAIN fields |-> MatchQueryKey(fields[i])]
  IN  AtPlaces(h, {i \in DOMAIN h : h[i] # NoHeading /\ \A j \in 1..i - 1 : h[j] # h[i]})

Filtering == request.filters # <<>> \/ request.fns # <<>>

FieldsOf(filter) == UNION {filter[i].fields : i \in DOMAIN filter}

\* Report.__init__.
CreateReport ==
  /\ reportPc = "create"
  /\ LET filter == IF Filtering THEN ParseQueries(request.filters, request.fns) ELSE <<>>
         fields == Displayed(request.fields)
     IN  IF Filtering /\ filter = <<>> THEN reportPc' = "exit" /\ UNCHANGED prepared
         ELSE /\ reportPc' = "add"
              /\ filter_fn' = filter
              /\ sort_by' = SortKey(request.sort_by)
              /\ display_headings' = IF request.fields = <<>> THEN Headings ELSE fields
              /\ force_columns' = FieldsOf(filter) \cup Range(fields)
  /\ UNCHANGED <<settings, rows, shown>>

\* add_rows: all rows of a batch or none; a ValueError or TypeError is nobody's.
AddRows ==
  /\ reportPc = "add" /\ table # <<>>
  /\ LET batch == Head(table)
     IN  IF \A i \in DOMAIN batch : Converts(batch[i])
         THEN /\ rows' = rows \o [i \in DOMAIN batch |-> Converted(batch[i])]
              /\ table' = Tail(table)
              /\ UNCHANGED reportPc
         ELSE reportPc' = "crashed" /\ UNCHANGED <<rows, table>>
  /\ UNCHANGED <<request, prepared, shown>>

\* A permutation by the values in the column, stable also in reverse; values
\* of two types cannot be compared, and are sorted as texts, where rows of the
\* same text may have changed places before.
SortsBy(p) ==
  LET value(i) == rows[p[i]][sort_by]
      mixed == \E i, j \in DOMAIN rows : value(i).type # value(j).type
      key(i) == IF mixed THEN value(i).text ELSE value(i).rank
  IN  \A i, j \in DOMAIN rows : i < j =>
        /\ IF request.reverse THEN key(i) >= key(j) ELSE key(i) <= key(j)
        /\ ~mixed /\ key(i) = key(j) => p[i] < p[j]

\* sort_data.
SortData ==
  /\ reportPc = "add" /\ table = <<>>
  /\ reportPc' = "filter"
  /\ IF sort_by = NoHeading THEN UNCHANGED rows
     ELSE \E p \in Bijection(DOMAIN rows, DOMAIN rows) :
            SortsBy(p) /\ rows' = [i \in DOMAIN rows |-> rows[p[i]]]
  /\ UNCHANGED <<settings, prepared, shown>>

RowOutcome(row) ==
  IF filter_fn = <<>> THEN "yes" ELSE filter_fn[1].outcome[row]

Restricted(row, columns) == [h \in columns |-> row[h]]

\* Fault: a column is left out if its first value is the constant.
ConstantFirst(selected, h, value) == selected[1][h] = value

ConstantIn(selected, h, value) == \A i \in DOMAIN selected : selected[i][h] = value

\* remove_constant_values, for EMPTY and for MISSING.
Kept(selected) ==
  LET columns == Range(display_headings)
      empty == {h \in columns : ConstantIn(selected, h, EMPTY)}
      missing == {h \in columns : ConstantIn(selected, h, MISSING)}
  IN  columns \ (((IF request.show_empty THEN {} ELSE empty)
                    \cup (IF request.show_missing THEN {} ELSE missing)) \ force_columns)

\* get_rows_to_print: the first row whose filter raises stops it all.
GetRowsToPrint ==
  /\ reportPc = "filter"
  /\ reportPc' = "printed"
  /\ LET selected == AtPlaces(rows, {i \in DOMAIN rows : RowOutcome(rows[i]) = "yes"})
         kept == IF selected = <<>> THEN Range(display_headings) ELSE Kept(selected)
     IN  IF \E i \in DOMAIN rows : RowOutcome(rows[i]) \in {"KeyError", "TypeError"}
         THEN UNCHANGED shown
         ELSE /\ headings_shown' = AtPlaces(display_headings,
                                     {i \in DOMAIN display_headings : display_headings[i] \in kept})
              /\ rows_shown' = IF kept = {} THEN <<>>
                               ELSE [i \in DOMAIN selected |-> Restricted(selected[i], kept)]
  /\ UNCHANGED <<settings, prepared, rows>>

ReportNext == CreateReport \/ AddRows \/ SortData \/ GetRowsToPrint
=============================================================================
