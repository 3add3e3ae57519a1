-------------------------- MODULE ConfigsAndReports --------------------------
(***************************************************************************)
(* What commands make of their input and show of their results, each on    *)
(* its own: the configurations of sat bootprep (CfsConfigurations), the CFS*)
(* session that customizes an image (CfsSession), the tables of the        *)
(* commands that report (Reports), the lists of xnames of sat sensors and  *)
(* others (XNames), and sat bmccreds (Credentials).                        *)
(***************************************************************************)
EXTENDS CfsConfigurations, CfsSession, Reports, Credentials

VARIABLE tool  \* the command that is run

vars == <<tool, configs, sessionVars, reports, names, creds>>

Tools == {"configurations", "session", "report", "sensors", "xnames", "bmccreds"}

Init ==
  /\ tool \in Tools
  /\ ConfigsInit(tool = "configurations")
  /\ SessionInit
  /\ ReportInit(tool = "report")
  /\ NamesInit(tool \in {"sensors", "xnames", "bmccreds"}, tool = "sensors")
  /\ CredsInit(tool = "bmccreds")

Configure(step) ==
  /\ tool = "configurations" /\ step
  /\ UNCHANGED <<tool, sessionVars, reports, names, creds>>

Customize(step) ==
  /\ tool = "session" /\ step
  /\ UNCHANGED <<tool, configs, reports, names, creds>>

Show(step) ==
  /\ tool = "report" /\ step
  /\ UNCHANGED <<tool, configs, sessionVars, names, creds>>

Resolve(command, step) ==
  /\ tool = command /\ step
  /\ UNCHANGED <<tool, configs, sessionVars, reports, creds>>

SetCreds(step) ==
  /\ tool = "bmccreds" /\ step
  /\ UNCHANGED <<tool, configs, sessionVars, reports>>

Ended ==
  /\ \/ configPc \in {"done", "failed", "crashed"}
     \/ sessionPc \in {"ended", "failed", "error", "crashed"}
     \/ reportPc \in {"printed", "exit", "crashed"}
     \/ tool # "bmccreds" /\ namesPc \in {"go", "exit", "raised"}
     \/ credsPc \in {"done", "exit"}
  /\ UNCHANGED vars

Next ==
  \/ Configure(ConfigsNext)
  \/ Customize(SessionNext)
  \/ Show(ReportNext)
  \/ Resolve("sensors", GetHsmComponents \/ ExpandAndScreen)
  \/ Resolve("xnames", GetBmcXnames \/ ScreenXnameArgs)
  \/ SetCreds(CredsNext)
  \/ Ended

Spec == Init /\ [][Next]_vars

-----------------------------------------------------------------------------
TypeOK ==
  /\ tool \in Tools
  /\ ConfigsTypeOK /\ SessionTypeOK /\ ReportTypeOK /\ NamesTypeOK /\ CredsTypeOK

\* A configuration of the input file, with all its layers and each of them at a
\* commit, unless CFS is to find the commit of its branch.
IsWhole(layers, config) ==
  /\ Len(layers) = Len(config.layers)
  /\ \A k \in DOMAIN layers :
       /\ layers[k].repo = config.layers[k].repo
       /\ IF layers[k].branch THEN ~resolve_branches ELSE layers[k].commit \in Commits

(* CFS is never given a part of a configuration, although each layer is    *)
(* looked up by itself and may fail, nor one that was there already unless *)
(* the admin chose to overwrite; and if the command succeeds, it was given *)
(* all that were not skipped (InputConfiguration.get_cfs_api_data and      *)
(* create_configurations).                                                 *)
ConfigurationsAreWhole ==
  /\ \A n \in ConfigNames : accepted[n] # NoConfig =>
       /\ \E i \in DOMAIN Input : Input[i].name = n /\ IsWhole(accepted[n].layers, Input[i])
       /\ ~dry_run /\ (n \in existing_names => onExisting = "overwrite")
  /\ configPc = "done" /\ ~dry_run =>
       \A n \in ConfigNames :
         (onExisting = "skip" /\ n \in existing_names) \/ accepted[n] # NoConfig

\* The containers that run before one; others are in no order.
Preceding(c) ==
  IF c \in Inits THEN Before(InitContainers, c)
  ELSE Inits \cup {d \in Before(MainContainers, c) : Kind[d] # "other"}

(* The container whose logs sat bootprep names is the one that failed      *)
(* first, from whatever moments the statuses it has seen of the pod are    *)
(* (get_suggested_debug_command).                                          *)
FirstFailureIsNamed ==
  debugged # None_ =>
    /\ container[debugged] = "exit 1"
    /\ \A c \in Preceding(debugged) : container[c] = "exit 0"

-----------------------------------------------------------------------------
\* Comparisons with an operator between any two.
IsExpression(q) == q.cmps # <<>> /\ Len(q.ops) = Len(q.cmps) - 1

Understood == \A i \in DOMAIN request.filters : IsExpression(request.filters[i])

\* What a query means: one of the conjunctions between its "or"s holds.
Disjunct(q, lo, hi) ==
  /\ lo = 1 \/ q.ops[lo - 1] = "or"
  /\ hi = Len(q.cmps) \/ q.ops[hi] = "or"
  /\ \A k \in lo..hi - 1 : q.ops[k] = "and"

Selects(q, row) ==
  \E lo, hi \in DOMAIN q.cmps :
    /\ lo <= hi /\ Disjunct(q, lo, hi)
    /\ \A k \in lo..hi : ComparisonOutcome(q.cmps[k], row) = "yes"

IsWanted(row) ==
  /\ \A i \in DOMAIN request.filters : Selects(request.filters[i], row)
  /\ \A i \in DOMAIN request.fns : row[request.fns[i].field] \in request.fns[i].kept

Wanted == AtPlaces(rows, {i \in DOMAIN rows : IsWanted(rows[i])})

Raised == \E i \in DOMAIN rows : RowOutcome(rows[i]) \in {"KeyError", "TypeError"}

\* A key of a query that is found: the first heading it abbreviates.
Abbreviates(key, h) ==
  \E at \in [DOMAIN key -> DOMAIN h] :
    /\ \A i, j \in DOMAIN key : i < j => at[i] < at[j]
    /\ \A i \in DOMAIN key : h[at[i]] = key[i]

FilteredOn(h) ==
  \E i \in DOMAIN request.filters : \E k \in DOMAIN request.filters[i].cmps :
    LET key == request.filters[i].cmps[k].key
        close == {j \in DOMAIN Headings : Abbreviates(key, Headings[j])}
    IN  \/ h = key
        \/ /\ key \notin Range(Headings) /\ close # {}
           /\ h = Headings[CHOOSE j \in close : \A other \in close : j <= other]

\* A column in which every row shown has no value.
NothingIn(h) ==
  \/ \A i \in DOMAIN Wanted : Wanted[i][h] = EMPTY
  \/ \A i \in DOMAIN Wanted : Wanted[i][h] = MISSING

(* A report shows the rows that its filters mean, "and" binding closer than*)
(* "or", in their order, and leaves no column out in which one of them has *)
(* a value or that is filtered on; and there is a report unless a filter is*)
(* no expression (parse_query_string, get_rows_to_print,                   *)
(* remove_constant_values).                                                *)
ReportIsFiltered ==
  /\ reportPc = "exit" => ~Understood
  /\ reportPc = "printed" =>
    /\ Understood
    /\ IF Raised \/ headings_shown = <<>> THEN rows_shown = <<>>
       ELSE /\ Len(rows_shown) = Len(Wanted)
            /\ \A i \in DOMAIN Wanted : \A h \in Range(headings_shown) :
                 rows_shown[i][h] = Wanted[i][h]
    /\ \A h \in Range(display_headings) \ Range(headings_shown) :
         Raised \/ (NothingIn(h) /\ ~FilteredOn(h))

-----------------------------------------------------------------------------
\* Two names agree in their first levels.
Agree(x, y, levels) ==
  \A i \in 1..levels \cap (DOMAIN x \cup DOMAIN y) :
    i \in DOMAIN x \cap DOMAIN y /\ x[i] = y[i]

\* Two BMCs that are to have one password.
SameDomain(x, y) ==
  CASE domain \in {"user", "system"} -> TRUE
    [] domain = "cabinet" -> Agree(x, y, 1)
    [] domain = "chassis" -> Agree(x, y, 2)
    [] domain = "bmc" -> x = y

(* When sat bmccreds has succeeded, the BMCs that it set have the same     *)
(* password exactly if they are in the same domain, whatever earlier tries *)
(* have set (_group_xname_passwords_by_domain and set_creds_with_retry).   *)
PasswordsFollowDomains ==
  credsPc = "done" =>
    \A x, y \in lastTargets : (password[x] = password[y]) <=> SameDomain(x, y)

(* Then all BMCs given in a domain have one password, also those that only *)
(* an earlier try has reached.  It does not hold.                          *)
DomainsHaveOnePassword ==
  credsPc = "done" =>
    \A x, y \in Targets :
      SameDomain(x, y) /\ password[x] # <<>> /\ password[y] # <<>> => password[x] = password[y]
=============================================================================
