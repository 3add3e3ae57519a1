---------------------------- MODULE ConsoleLogging ----------------------------
(***************************************************************************)
(* sat/cli/bootsys/ipmi_console.py, class IPMIConsoleLogger: while hosts   *)
(* are shut down or booted their consoles are logged by screen sessions on *)
(* ncn-m001, one per host, that run ipmitool.  The sessions outlive the    *)
(* program: those of a run that failed are found by the next one, and each *)
(* of them may end at any time.                                            *)
(***************************************************************************)
VARIABLES
  screens, \* hosts whose console is logged by a screen session
  watched  \* history: hosts whose session was found when the logger last started

consoles == <<screens, watched>>

ConsoleInit(hosts) == screens \in SUBSET hosts /\ watched = {}

\* ipmitool loses the console: the BMC fails, or someone else takes it.
ScreenEnds(h) ==
  /\ h \in screens
  /\ screens' = screens \ {h}
  /\ UNCHANGED watched

\* _ipmitool_sol_deactivate and _quit_existing_screens: the sessions of all
\* hosts are ended, whoever started them; after an error some are left.
CleanUps == {[ok |-> TRUE, left |-> {}]} \cup [ok : {FALSE}, left : SUBSET screens]

\* _create_logging_directory, _start_screen_sessions and the delay after it: a
\* command may fail, and a session ends at once without a console.
Starts(hosts) == [ok : BOOLEAN, alive : SUBSET hosts]

\* Fault: any session at all will do.
MissingAll(hosts, alive) == IF alive = {} THEN hosts ELSE {}

\* _check_screen_sessions_active.
Missing(hosts, alive) == hosts \ alive

EnterLogger(hosts) ==
  \E s \in Starts(hosts) :
    /\ s.ok /\ Missing(hosts, s.alive) = {}
    /\ screens' = s.alive
    /\ watched' = s.alive

\* ConsoleLoggingError: what was started is left.
EnterLoggerFails(hosts) ==
  /\ \/ \E c \in CleanUps : ~c.ok /\ screens' = c.left
     \/ \E s \in Starts(hosts) :
          (~s.ok \/ Missing(hosts, s.alive) # {}) /\ screens' = s.alive
  /\ watched' = {}

\* __exit__ without an exception; an error of the clean-up is only logged.
ExitLogger ==
  /\ \E c \in CleanUps : screens' = c.left
  /\ UNCHANGED watched
=============================================================================
