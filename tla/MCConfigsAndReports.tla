------------------------ MODULE MCConfigsAndReports -------------------------
(* Two configurations whose layers are of one repository; a session with two  *)
(* init containers and five others; reports of three headings, two of which   *)
(* begin alike; two chassis of a cabinet, and a cabinet with a router.        *)
EXTENDS ConfigsAndReports

Of(from, by) == [from |-> from, by |-> by, repo |-> "r"]
MCInput == <<[name |-> "compute", layers |-> <<Of("git", "branch"), Of("product", "version")>>],
             [name |-> "uan", layers |-> <<Of("product", "branch"), Of("git", "commit")>>]>>

MCInitContainers == <<"git-clone", "env">>
MCMainContainers == <<"inventory", "ansible-2", "ansible-10", "proxy", "teardown">>
MCKind == [c \in Range(MCMainContainers) |->
  CASE c = "inventory" -> "inventory" [] c = "teardown" -> "teardown"
    [] c = "proxy" -> "other" [] OTHER -> "ansible"]
MCSuffix == [c \in Range(MCMainContainers) |->
  CASE c = "ansible-2" -> 2 [] c = "ansible-10" -> 10 [] OTHER -> 0]

A == <<"a", "b">>
B == <<"a", "c">>
C == <<"b">>
MCHeadings == <<A, B, C>>

One == Number(1, 10)
Two == Number(2, 11)
On == String(50)
Cmp(key, comparator, with) == [key |-> key, comparator |-> comparator, with |-> with]
IsOn == Cmp(<<"a">>, "=", Pattern(50, {50}))
NotEmpty == Cmp(<<"c">>, "!=", Pattern(100, {100}))
Cmps == {IsOn, Cmp(C, ">", One), NotEmpty}
Nowhere == Cmp(<<"b", "a">>, "=", One)

Query(cmps, ops) == [cmps |-> cmps, ops |-> ops]
Queries ==
  UNION {{Query(cmps, ops) : cmps \in [1..n -> Cmps], ops \in [1..n - 1 -> {"and", "or"}]}
         : n \in 1..3}
Odd == {Query(<<IsOn>>, <<"and">>), Query(<<IsOn, NotEmpty>>, <<"or", "or">>),
        Query(<<NotEmpty, IsOn, IsOn>>, <<"or", "and", "and">>), Query(<<IsOn, Nowhere>>, <<"or">>),
        Query(<<Cmp(C, "<=", Two)>>, <<>>), Query(<<Cmp(C, "<", Two)>>, <<>>),
        Query(<<Cmp(C, ">=", Two)>>, <<>>), Query(<<Cmp(C, "=", One), IsOn>>, <<"and">>)}

Plain == [filters |-> <<>>, fns |-> <<>>, fields |-> <<>>, sort_by |-> [kind |-> "none"],
          reverse |-> FALSE, show_empty |-> FALSE, show_missing |-> FALSE]
MCRequests ==
  {[Plain EXCEPT !.filters = <<q>>] : q \in Queries \cup Odd}
    \cup {[Plain EXCEPT !.filters = <<Query(<<IsOn>>, <<>>), q>>, !.fns = fns]
          : q \in Odd, fns \in {<<>>, <<Custom(B, {EMPTY})>>}}
    \cup {[Plain EXCEPT !.fns = <<Custom(C, {One, EMPTY, MISSING})>>, !.show_empty = e,
                        !.show_missing = m, !.fields = f]
          : e, m \in BOOLEAN, f \in {<<>>, <<<<"c">>, A, B>>, <<C, Nowhere.key>>}}
    \cup {[Plain EXCEPT !.sort_by = by, !.reverse = r]
          : r \in BOOLEAN, by \in {[kind |-> "name", name |-> C], [kind |-> "name", name |-> <<"c", "a">>],
                                   [kind |-> "place", place |-> 0], [kind |-> "place", place |-> -1],
                                   [kind |-> "place", place |-> 3]}}

Listed(a, b, c) == [form |-> "list", cells |-> <<a, b, c>>]
Good3 == {Listed(On, EMPTY, One), Listed(On, MISSING, Two), Listed(String(51), EMPTY, On),
          Listed(String(51), On, MISSING), Listed(EMPTY, EMPTY, EMPTY)}
Keyed(headings) == [form |-> "dict", cells |-> [h \in headings |-> One]]
MCTables ==
  {<<>>} \cup {<<<<r, s>>>> : r, s \in Good3} \cup {<<<<r>>, <<s, t>>>> : r, s, t \in Good3}
    \cup {<<<<Keyed({A, B, C, <<>>})>>>>, <<<<Keyed({A, B})>>>>,
          <<<<Listed(On, On, On)>>, <<[form |-> "list", cells |-> <<On>>]>>>>}

Chas(x, c) == <<Level("x", x), Level("c", c)>>
Blade(x, c) == Chas(x, c) \o <<Level("s", 0), Level("b", 0)>>
Router == Chas(2, 0) \o <<Level("r", 0), Level("b", 0)>>
MCComponents ==
  {Component(Blade(1, 0), "NodeBMC", TRUE, "DiscoverOK"),
   Component(Chas(1, 0) \o <<Level("b", 0)>>, "ChassisBMC", FALSE, "DiscoverOK"),
   Component(Blade(1, 1), "NodeBMC", TRUE, "HTTPsGetFailed"),
   Component(Router, "RouterBMC", TRUE, "DiscoverOK"),
   Component(Router, "RouterBMC", TRUE, "missing"),
   Component(NoXName, "NodeBMC", TRUE, "DiscoverOK")}
MCAsked ==
  {<<>>, <<Chas(1, 0)>>, <<NoXName>>, <<Blade(1, 0), Blade(1, 1), Router>>,
   <<Chas(1, 0), Blade(1, 1)>>, <<<<Level("x", 1)>>, Router>>}
=============================================================================
