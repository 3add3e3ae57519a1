----------------------------- MODULE Credentials -----------------------------
(***************************************************************************)
(* sat bmccreds sets the passwords of BMCs through the System Configuration*)
(* Service (SCSD), and tries again with new random passwords if that fails *)
(* (sat/cli/bmccreds).  The BMCs are those of HSMClient.get_and_filter_bmcs*)
(* in XNames, or the ones given.                                           *)
(***************************************************************************)
EXTENDS XNames

CONSTANT Retries  \* --retries

XNamesKnown == {c.id : c \in Components} \cup UNION {Range(a) : a \in Asked}

ASSUME CredentialsAssumption ==
  /\ Retries \in Nat
  /\ Asked # {}
  /\ \A x \in XNamesKnown : x \in Seq(STRING \X Nat)

VARIABLES
  no_hsm_check,
  domain,         \* --pw-domain, or a password of the user's
  credsPc,
  num_tries,
  password,       \* the password of each BMC: what it was generated for, and when
  lastTargets     \* history: the BMCs that the last request set

creds == <<no_hsm_check, domain, credsPc, num_tries, password, lastTargets>>
credsVars == <<names, creds>>

CredsInit(used) ==
  /\ no_hsm_check \in Given(used, BOOLEAN)
  /\ domain \in Given(used, {"user", "system", "cabinet", "chassis", "bmc"})
  /\ credsPc = "validate"
  /\ num_tries = 1
  /\ password = [x \in XNamesKnown |-> <<>>]
  /\ lastTargets = {}

CredsTypeOK ==
  /\ credsPc \in {"validate", "xnames", "set", "done", "exit"}
  /\ num_tries \in 1..Retries + 1
  /\ lastTargets \subseteq XNamesKnown

\* validate_args; without a check of HSM the xnames are taken as given.
ValidateArgs ==
  /\ credsPc = "validate"
  /\ credsPc' = IF no_hsm_check /\ asked = <<>> THEN "exit" ELSE "xnames"
  /\ UNCHANGED <<names, no_hsm_check, domain, num_tries, password, lastTargets>>

CheckEligibility ==
  /\ credsPc = "xnames" /\ ~no_hsm_check
  /\ GetBmcsByType \/ GetAndFilterBmcs
  /\ UNCHANGED creds

Targets == IF no_hsm_check THEN Range(asked) ELSE matched

\* The admin confirms, and the password is one that BMCs accept, or not.
Confirm ==
  /\ credsPc = "xnames"
  /\ no_hsm_check \/ namesPc \in {"go", "raised"}
  /\ \/ credsPc' = "exit"
     \/ namesPc # "raised" /\ Targets # {} /\ credsPc' = "set"
  /\ UNCHANGED <<names, no_hsm_check, domain, num_tries, password, lastTargets>>

\* set_bmc_passwords: one password for all of globalcreds.
DomainOf(x) ==
  CASE domain \in {"user", "system"} -> NoXName
    [] domain = "cabinet" -> Cabinet(x)
    [] domain = "chassis" -> Chassis(x)
    [] domain = "bmc" -> x

\* Fault: the password of a chassis is that of its cabinet as well.
GroupsOfCabinets == [x \in Targets |-> <<Cabinet(x), num_tries>>]

\* _group_xname_passwords_by_domain, or _create_globalcreds_request_body.
PasswordsByXname ==
  [x \in Targets |-> <<DomainOf(x), IF domain = "user" THEN 0 ELSE num_tries>>]

\* An xname without a cabinet raises BMCCredsException.
Ungrouped == domain \in {"cabinet", "chassis"} /\ NoXName \in Targets

\* SCSD sets the passwords of some of the BMCs, each with a status of its own.
Post ==
  \E reached \in SUBSET Targets :
    /\ password' = [x \in XNamesKnown |->
                      IF x \in reached THEN PasswordsByXname[x] ELSE password[x]]
    /\ lastTargets' = reached

\* The response may be lost, or make no sense, although it was served.
SetBmcPasswords ==
  /\ credsPc = "set" /\ num_tries <= Retries
  /\ \/ ~Ungrouped /\ Post /\ credsPc' = "done" /\ UNCHANGED num_tries
     \/ /\ num_tries' = num_tries + 1
        /\ UNCHANGED credsPc
        /\ \/ ~Ungrouped /\ Post
           \/ lastTargets' = {} /\ UNCHANGED password
  /\ UNCHANGED <<names, no_hsm_check, domain>>

GiveUpCreds ==
  /\ credsPc = "set" /\ num_tries > Retries
  /\ credsPc' = "exit"
  /\ UNCHANGED <<names, no_hsm_check, domain, num_tries, password, lastTargets>>

CredsNext ==
  \/ ValidateArgs \/ CheckEligibility \/ Confirm \/ SetBmcPasswords \/ GiveUpCreds
=============================================================================
