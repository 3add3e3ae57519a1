------------------------------- MODULE Filters -------------------------------
(***************************************************************************)
(* The rows of sat's reports (sat/report.py) and their filters             *)
(* (sat/filtering.py): a query string is a sequence of comparisons with    *)
(* "and" and "or" between them, which is compiled to one filter; and the   *)
(* abbreviation of headings in sat/util.py.  A heading is the sequence of  *)
(* its letters, all lower case.                                            *)
(*                                                                         *)
(* A value is a number or a string: its rank orders the values of a type,  *)
(* and its text orders the strings that all values are written as.         *)
(***************************************************************************)
EXTENDS Naturals, Integers, FiniteSets, Sequences, SequencesExt

CONSTANTS
  Headings,   \* the headings of a report
  Tables      \* batches of rows that commands may add

NoHeading == <<>>

IsSeq(s) == s \in Seq(Range(s))

ASSUME HeadingsAssumption ==
  IsSeq(Headings) /\ \A h \in Range(Headings) : IsSeq(h) /\ h # NoHeading

ASSUME TablesAssumption ==
  Tables # {} /\ \A t \in Tables : IsSeq(t) /\ \A batch \in Range(t) : IsSeq(batch)

\* convert_row: a list must be as long as the headings, and a dict have them.
Converts(raw) ==
  \/ raw.form = "list" /\ Len(raw.cells) = Len(Headings)
  \/ raw.form = "dict" /\ Range(Headings) \subseteq DOMAIN raw.cells

Converted(raw) ==
  [h \in Range(Headings) |->
     IF raw.form = "dict" THEN raw.cells[h]
     ELSE raw.cells[CHOOSE i \in DOMAIN Headings : Headings[i] = h]]

RawRows == UNION {UNION {Range(batch) : batch \in Range(t)} : t \in Tables}
Rows == {Converted(raw) : raw \in {r \in RawRows : Converts(r)}}

\* The value to compare with: a number, or a pattern with the texts it matches.
Number(rank, text) == [type |-> "num", rank |-> rank, text |-> text]
String(rank) == [type |-> "str", rank |-> rank, text |-> rank]
Pattern(rank, matched) == [type |-> "str", rank |-> rank, matched |-> matched]

\* Each letter is looked for behind the place of the one before it.
IsSubsequence(needle, haystack) ==
  LET place[i \in 0..Len(needle)] ==
        IF i = 0 THEN 0
        ELSE LET behind == {h \in DOMAIN haystack : h > place[i - 1] /\ haystack[h] = needle[i]}
             IN  IF behind = {} THEN Len(haystack) + 1 ELSE Min(behind)
  IN  place[Len(needle)] <= Len(haystack)

MatchQueryKey(key) ==
  LET matching == {i \in DOMAIN Headings : IsSubsequence(key, Headings[i])}
  IN  IF key \in Range(Headings) THEN key
      ELSE IF matching = {} THEN NoHeading ELSE Headings[Min(matching)]

-----------------------------------------------------------------------------
(* A filter has the fields it filters on and, for every row, its outcome.  *)

Outcomes == {"yes", "no", "KeyError", "TypeError"}
Comparators == {"=", "!=", "<", "<=", ">", ">="}

YesIf(b) == IF b THEN "yes" ELSE "no"

\* _get_cmpr_fn and _str_eq_cmpr: a string is a wildcard pattern, matched
\* against the text of any value; a number equals no string.
Compare(value, comparator, with) ==
  LET equal == IF with.type = "str" THEN value.text \in with.matched
               ELSE value.type = "num" /\ value.rank = with.rank
      less == value.rank < with.rank
      same == value.rank = with.rank
  IN  CASE comparator = "=" -> YesIf(equal)
        [] comparator = "!=" -> YesIf(~equal)
        [] comparator \in {"<", "<=", ">", ">="} /\ value.type # with.type -> "TypeError"
        [] comparator = "<" /\ value.type = with.type -> YesIf(less)
        [] comparator = "<=" /\ value.type = with.type -> YesIf(less \/ same)
        [] comparator = ">" /\ value.type = with.type -> YesIf(~less /\ ~same)
        [] comparator = ">=" /\ value.type = with.type -> YesIf(~less)

\* ComparisonFilter: the heading is looked up when a row is first looked at.
ComparisonOutcome(c, row) ==
  LET key == MatchQueryKey(c.key)
  IN  IF key = NoHeading THEN "KeyError" ELSE Compare(row[key], c.comparator, c.with)

ComparisonFilter(c) ==
  [fields |-> {MatchQueryKey(c.key)} \ {NoHeading},
   outcome |-> [row \in Rows |-> ComparisonOutcome(c, row)]]

\* A function that a command filters with: the values of a field it keeps.
Custom(heading, kept) == [field |-> heading, kept |-> kept]

CustomFilter(fn) ==
  [fields |-> {fn.field}, outcome |-> [row \in Rows |-> YesIf(row[fn.field] \in fn.kept)]]

\* CombinedFilter: all and any stop at the first filter that decides.
Combined(op, kids) ==
  LET passed == IF op = "all" THEN "yes" ELSE "no"
      deciding(row) == {i \in DOMAIN kids : kids[i].outcome[row] # passed}
  IN  [fields |-> UNION {kids[i].fields : i \in DOMAIN kids},
       outcome |-> [row \in Rows |->
         IF deciding(row) = {} THEN passed ELSE kids[Min(deciding(row))].outcome[row]]]

-----------------------------------------------------------------------------
(* parse_query_string.  A query is [cmps, ops]: the comparisons, and the   *)
(* operators that follow them; one more of these is a syntax error.  A     *)
(* parser takes the position of a comparison and returns the filter and the*)
(* position behind it; position 0 is failure.                              *)

IsQuery(q) ==
  /\ IsSeq(q.cmps) /\ q.ops \in Seq({"and", "or"})
  /\ \A c \in Range(q.cmps) : IsSeq(c.key) /\ c.comparator \in Comparators

Fails == [filter |-> "none", next |-> 0]

Positions(q) == 1..Len(q.cmps) + 1

Comparison(q, i) ==
  IF i \in DOMAIN q.cmps THEN [filter |-> ComparisonFilter(q.cmps[i]), next |-> i + 1] ELSE Fails

\* The "^" of two parsers: the other one is tried where the first one failed.
OrElse(parsed, other) == IF parsed.next # 0 THEN parsed ELSE other

\* The operator in front of a position, or the end of the string.
OperBefore(q, i) == IF i - 1 \in DOMAIN q.ops THEN q.ops[i - 1] ELSE "end"

\* Two results, the one behind the other, as one filter.
Joined(op, lhs, rhs) ==
  IF lhs.next = 0 \/ rhs.next = 0 THEN Fails
  ELSE [filter |-> Combined(op, <<lhs.filter, rhs.filter>>), next |-> rhs.next]

\* bool_and_expr at a place, where it returns more at the next one.
AndResult(q, i, more) ==
  IF OperBefore(q, i + 1) # "and" THEN Fails
  ELSE Joined("all", Comparison(q, i), OrElse(more, Comparison(q, i + 1)))

BoolAndExpr(q, start) ==
  LET expr[i \in Positions(q)] == AndResult(q, i, expr[i + 1])
  IN  expr[start]

\* bool_expr once lhs is parsed, where expr is what it returns at any place.
OperationOn(q, lhs, expr) ==
  LET oper == OperBefore(q, lhs.next)
  IN  IF lhs.next = 0 \/ oper = "end" THEN lhs
      ELSE Joined(IF oper = "and" THEN "all" ELSE "any", lhs,
                  OrElse(expr[lhs.next], Comparison(q, lhs.next)))

\* Fault: "or" binds like "and", to the comparison on its left.
BoolExprFlat(q, start) ==
  LET expr[i \in Positions(q)] == OperationOn(q, Comparison(q, i), expr)
  IN  expr[start]

OrResult(q, i, expr) == OperationOn(q, OrElse(BoolAndExpr(q, i), Comparison(q, i)), expr)

BoolExpr(q, start) ==
  LET expr[i \in Positions(q)] == OrResult(q, i, expr)
  IN  expr[start]

\* parse_strict: nothing may be left, and no operator.
Strictly(q, parsed) ==
  IF parsed.next = Len(q.cmps) + 1 /\ OperBefore(q, parsed.next) = "end" THEN parsed ELSE Fails

ParseQuery(q) == Strictly(q, OrElse(BoolExpr(q, 1), Comparison(q, 1)))

\* parse_multiple_query_strings: a sequence of one filter, or none at a
\* ParseError.
ParseQueries(queries, fns) ==
  LET parsed == [i \in DOMAIN queries |-> ParseQuery(queries[i])]
      all == [i \in DOMAIN queries |-> parsed[i].filter] \o [i \in DOMAIN fns |-> CustomFilter(fns[i])]
  IN  IF \E i \in DOMAIN queries : parsed[i].next = 0 THEN <<>>
      ELSE IF Len(all) = 1 THEN all
      ELSE <<Combined("all", all)>>
=============================================================================
