-------------------------------- MODULE XNames --------------------------------
(***************************************************************************)
(* The names of components, and how lists of them are resolved against the *)
(* Hardware State Manager (HSM): sat/xname.py, sat/xname_util.py, the first*)
(* half of sat/cli/sensors/main.py, and the queries of sat/apiclient/      *)
(* hsm.py that these and other commands use.                               *)
(*                                                                         *)
(* An xname is the sequence of its levels, each a letter and a number, as  *)
(* in x1000c0s5b0n1; a prefix of it is what contains it.                   *)
(***************************************************************************)
EXTENDS Naturals, FiniteSets, Sequences, SequencesExt, Inputs

CONSTANTS
  Components,  \* the xnames that HSM may know
  Asked        \* the lists of xnames that an admin may give

BMCTypes == {"NodeBMC", "RouterBMC", "ChassisBMC"}
NoXName == <<>>

Level(letter, number) == <<letter, number>>
Letters(x) == [i \in DOMAIN x |-> x[i][1]]

Type(x) ==
  CASE Letters(x) = <<"x">> -> "CABINET"
    [] Letters(x) = <<"x", "c">> -> "CHASSIS"
    [] Letters(x) = <<"x", "c", "s">> -> "SLOT"
    [] Letters(x) = <<"x", "c", "s", "b">> -> "BMC"
    [] Letters(x) = <<"x", "c", "s", "b", "n">> -> "NODE"
    [] OTHER -> "UNKNOWN"

\* ValueError if there is no ancestor so far up; none up is no name at all.
Ancestor(x, levels) ==
  IF levels >= Len(x) THEN "ValueError"
  ELSE IF levels = 0 THEN NoXName
  ELSE SubSeq(x, 1, Len(x) - levels)

ParentNode(x) ==
  IF Len(x) >= 5 /\ Type(SubSeq(x, 1, 5)) = "NODE" THEN SubSeq(x, 1, 5) ELSE NoXName

UpTo(x, n) == SubSeq(x, 1, IF Len(x) < n THEN Len(x) ELSE n)
Cabinet(x) == UpTo(x, 1)
Chassis(x) == UpTo(x, 2)

RelativeNodePositionsMatch(x, y) ==
  /\ Type(x) = "NODE" /\ Type(y) = "NODE"
  /\ SubSeq(x, 4, 5) = SubSeq(y, 4, 5)

ContainsComponent(x, y) == Len(x) <= Len(y) /\ \A i \in DOMAIN x : x[i] = y[i]

VARIABLES
  asked,        \* the xnames given, or none
  types,        \* the types of BMC asked for
  recursive,    \* sensors: also the BMCs of each chassis
  components,   \* what HSM has, as records
  namesPc,
  listed,       \* the components HSM returned, or that it could not be asked
  matched,      \* the xnames the command goes on with
  unused        \* those given that it has warned about

names == <<asked, types, recursive, components, namesPc, listed, matched, unused>>

\* Entries of HSM may lack an ID or the data of their discovery.
Component(x, type, enabled, discovered) ==
  [id |-> x, type |-> type, enabled |-> enabled, discovered |-> discovered]

NamesInit(used, sensors) ==
  /\ asked \in Given(used, Asked)
  /\ types \in Given(used, {BMCTypes, {"NodeBMC"}, {"NodeBMC", "ChassisBMC"}})
  /\ recursive \in Given(sensors, BOOLEAN)
  /\ components \in Given(used, SUBSET Components)
  /\ \A c, d \in components : c.id = d.id => c = d \/ c.id = NoXName
  /\ namesPc = "query"
  /\ listed = {}
  /\ matched = {}
  /\ unused = {}

NamesTypeOK ==
  /\ namesPc \in {"query", "expand", "screen", "filter", "go", "exit", "raised"}
  /\ listed \subseteq components
  /\ unused \subseteq Range(asked)

OfTypes == {c \in components : c.type \in types}

-----------------------------------------------------------------------------
(* sat sensors.                                                            *)

GetHsmComponents ==
  /\ namesPc = "query"
  /\ \/ namesPc' = "exit" /\ UNCHANGED listed
     \/ namesPc' = "expand" /\ listed' = OfTypes
  /\ UNCHANGED <<asked, types, recursive, components, matched, unused>>

\* get_chassis_bmcs: the names that begin with that of the chassis, whose
\* number is a digit (CHASSIS_XNAME_REGEX).
ChassisBmcs(x) ==
  IF Type(x) # "CHASSIS" THEN {}
  ELSE {c.id : c \in {d \in listed : d.id # NoXName /\ ContainsComponent(x, d.id)}}

ExpandXnames(given) ==
  UNION {IF ChassisBmcs(x) = {} THEN {x} ELSE ChassisBmcs(x) : x \in given}

\* expand_and_screen_xnames; if nothing is left there is an error.
ExpandAndScreen ==
  /\ namesPc = "expand"
  /\ LET given == Range(asked)
         expanded == IF given # {} /\ recursive THEN ExpandXnames(given) ELSE given
         ids == {c.id : c \in listed} \ {NoXName}
     IN  /\ matched' = IF expanded = {} THEN ids ELSE ids \cap expanded
         /\ unused' = (expanded \ matched') \cap given
         /\ namesPc' = IF matched' = {} THEN "exit" ELSE "go"
  /\ UNCHANGED <<asked, types, recursive, components, listed>>

-----------------------------------------------------------------------------
(* screen_xname_args: one query for all types, or one for each.            *)

GetBmcXnames ==
  /\ namesPc = "query"
  /\ \/ listed' = OfTypes /\ namesPc' = "screen"
     \/ listed' = {} /\ namesPc' = IF asked = <<>> THEN "raised" ELSE "screen"
  /\ UNCHANGED <<asked, types, recursive, components, matched, unused>>

\* get_matches: used, unused, matches and no_matches.
Matches(filters, elems) ==
  LET used == {f \in filters : \E e \in elems : ContainsComponent(f, e)}
      hits == {e \in elems : \E f \in filters : ContainsComponent(f, e)}
  IN  [used |-> used, unused |-> filters \ used, matches |-> hits, no_matches |-> elems \ hits]

\* What is given is passed on if HSM has nothing to match it with.
ScreenXnameArgs ==
  /\ namesPc = "screen"
  /\ LET ids == {c.id : c \in listed} \ {NoXName}
         found == Matches(Range(asked), ids)
     IN  /\ matched' = IF asked = <<>> THEN ids
                       ELSE IF ids = {} THEN Range(asked) ELSE found.matches
         /\ unused' = IF ids = {} THEN {} ELSE found.unused
         /\ namesPc' = IF matched' = {} THEN "exit" ELSE "go"
  /\ UNCHANGED <<asked, types, recursive, components, listed>>

-----------------------------------------------------------------------------
(* HSMClient.get_and_filter_bmcs.                                          *)

\* get_bmcs_by_type: all data of the BMCs of a type, or an APIError; those
\* whose data is incomplete are excluded.
GetBmcsByType ==
  /\ namesPc = "query"
  /\ \/ namesPc' = "raised" /\ UNCHANGED listed
     \/ namesPc' = "filter"
        /\ listed' = {c \in OfTypes : c.id # NoXName /\ c.discovered # "missing"}
  /\ UNCHANGED <<asked, types, recursive, components, matched, unused>>

Disabled == {c.id : c \in {d \in listed : ~d.enabled}}
FailedDiscovery == {c.id : c \in {d \in listed : d.discovered # "DiscoverOK"}}

GetAndFilterBmcs ==
  /\ namesPc = "filter"
  /\ \E include_disabled, include_failed_discovery \in BOOLEAN :
       LET ids == {c.id : c \in listed}
           given == IF asked = <<>> THEN ids ELSE Range(asked) \cap ids
       IN  matched' = (given \ (IF include_disabled THEN {} ELSE Disabled))
                             \ (IF include_failed_discovery THEN {} ELSE FailedDiscovery)
  /\ unused' = IF asked = <<>> THEN {} ELSE Range(asked) \ {c.id : c \in listed}
  /\ namesPc' = "go"
  /\ UNCHANGED <<asked, types, recursive, components, listed>>
=============================================================================
