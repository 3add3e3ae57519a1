------------------------------ MODULE Telemetry ------------------------------
(***************************************************************************)
(* sat sensors: one thread for each Kafka topic reads a stream of sensor   *)
(* data until it has heard of every BMC, while the main thread waits for   *)
(* the threads with a timeout.  Sources: sat/cli/sensors/main.py,          *)
(* telemetry_client.py and sat/apiclient/telemetry.py.                     *)
(***************************************************************************)
EXTENDS Naturals, FiniteSets, Sequences, SequencesExt

CONSTANTS
  Topics,           \* the topics asked for, as a sequence
  BMCs,             \* the BMCs whose data is asked for
  ReconnectRetries  \* RECONNECT_RETRIES

ASSUME TelemetryAssumption ==
  /\ Topics \in Seq(Range(Topics)) /\ Topics # <<>>
  /\ BMCs # {}
  /\ ReconnectRetries \in Nat

VARIABLES
  untilTimeout,   \* --update-until-timeout
  mainPc, next,   \* the main thread, and the topic whose thread it starts next
  ending,         \* why the main thread ends: timed out, interrupted, no ping
  stopEvent,
  threadPc,       \* of the thread of each topic
  retries,
  heard,          \* the BMCs whose Count is not 0 in the results of a topic
  sensors,        \* the BMCs that have a sensor in the results
  done, apiError, \* the flags of the results
  quiet           \* the topics whose stream timed out before any data came

thread == <<threadPc, retries, heard, sensors, done, apiError, quiet>>
telemetry == <<untilTimeout, mainPc, next, ending, stopEvent, thread>>

Threads == Range(Topics)
Alive(t) == threadPc[t] \notin {"none", "dead"}

TelemetryTypeOK ==
  /\ untilTimeout \in BOOLEAN
  /\ mainPc \in {"idle", "start", "wait", "join", "report", "exit"}
  /\ next \in 1..Len(Topics) + 1
  /\ ending \in {"none", "timeout", "interrupt", "no_ping"}
  /\ stopEvent \in BOOLEAN
  /\ threadPc \in [Threads -> {"none", "check", "connect", "stream", "ping", "sleep",
                               "dead"}]
  /\ retries \in [Threads -> 0..ReconnectRetries]
  /\ heard \in [Threads -> SUBSET BMCs]
  /\ sensors \in [Threads -> SUBSET BMCs]
  /\ done \in [Threads -> BOOLEAN]
  /\ apiError \in [Threads -> BOOLEAN]
  /\ quiet \subseteq Threads

TelemetryInit ==
  /\ untilTimeout \in BOOLEAN
  /\ mainPc = "idle"
  /\ next = 1
  /\ ending = "none"
  /\ stopEvent = FALSE
  /\ threadPc = [t \in Threads |-> "none"]
  /\ retries = [t \in Threads |-> 0]
  /\ heard = [t \in Threads |-> {}]
  /\ sensors = [t \in Threads |-> {}]
  /\ done = [t \in Threads |-> FALSE]
  /\ apiError = [t \in Threads |-> FALSE]
  /\ quiet = {}

-----------------------------------------------------------------------------
(* The main thread: get_telemetry_metrics and wait_for_threads.            *)

StartSensors ==
  /\ mainPc = "idle"
  /\ mainPc' = "start"
  /\ UNCHANGED <<untilTimeout, next, ending, stopEvent, thread>>

PingAnswers == BOOLEAN

\* The API is pinged before each thread is started; if it is down the command
\* exits at once, whatever has been started.
StartThread ==
  /\ mainPc = "start"
  /\ next <= Len(Topics)
  /\ \E alive \in PingAnswers :
       IF alive
       THEN /\ threadPc' = [threadPc EXCEPT ![Topics[next]] = "check"]
            /\ next' = next + 1
            /\ UNCHANGED <<mainPc, ending>>
       ELSE mainPc' = "exit" /\ ending' = "no_ping" /\ UNCHANGED <<threadPc, next>>
  /\ UNCHANGED <<untilTimeout, stopEvent, retries, heard, sensors, done, apiError, quiet>>

AllStarted ==
  /\ mainPc = "start"
  /\ next > Len(Topics)
  /\ mainPc' = "wait"
  /\ UNCHANGED <<untilTimeout, next, ending, stopEvent, thread>>

\* Fault: nobody looks at the threads after the last second.
NeverTimedOut == FALSE

TimedOut == \E t \in Threads : Alive(t)

\* The threads are looked at once more after the last second.
EndWait ==
  /\ mainPc = "wait"
  /\ mainPc' = "join"
  /\ IF TimedOut
     THEN stopEvent' = TRUE /\ ending' = "timeout"
     ELSE UNCHANGED <<stopEvent, ending>>
  /\ UNCHANGED <<untilTimeout, next, thread>>

\* SIGINT or SIGTERM: service_shutdown raises ServiceExit in the main thread.
Signal ==
  /\ mainPc \in {"start", "wait", "join"}
  /\ ending # "interrupt"
  /\ stopEvent' = TRUE
  /\ ending' = "interrupt"
  /\ mainPc' = "join"
  /\ UNCHANGED <<untilTimeout, next, thread>>

\* Fault: threads that were told to stop are not joined.
AllJoinedOrStopped == stopEvent \/ \A t \in Threads : ~Alive(t)

AllJoined == \A t \in Threads : ~Alive(t)

\* After an interrupt there is no report.
Join ==
  /\ mainPc = "join"
  /\ AllJoined
  /\ mainPc' = (IF ending = "interrupt" THEN "exit" ELSE "report")
  /\ UNCHANGED <<untilTimeout, next, ending, stopEvent, thread>>

\* The warnings of do_sensors.
WarnedOfError(t) == apiError[t]
WarnedOfTimeout(t) == ~done[t] /\ ~apiError[t]

-----------------------------------------------------------------------------
(* The thread of a topic: TelemetryClient.run.                             *)

Main == <<untilTimeout, mainPc, next, ending, stopEvent>>

\* Fault: done with the first BMC.
AmIDoneEarly(got) == ~untilTimeout /\ got # {}

AmIDone(got) == ~untilTimeout /\ got = BMCs

\* check_if_run_done: a stop comes before everything else.
CheckRun(t) ==
  /\ threadPc[t] = "check"
  /\ threadPc' = [threadPc EXCEPT ![t] =
                    IF stopEvent \/ done[t] \/ AmIDone(heard[t]) THEN "dead" ELSE "connect"]
  /\ done' = [done EXCEPT ![t] = @ \/ (~stopEvent /\ AmIDone(heard[t]))]
  /\ UNCHANGED <<Main, retries, heard, sensors, apiError, quiet>>

Fails(t) == threadPc' = [threadPc EXCEPT ![t] = "ping"]

StreamAnswers == {"response", "APIError", "ReadTimeout"}

Connect(t) ==
  /\ threadPc[t] = "connect"
  /\ \E answer \in StreamAnswers :
       /\ threadPc' = [threadPc EXCEPT ![t] = IF answer = "response" THEN "stream" ELSE "dead"]
       /\ apiError' = [apiError EXCEPT ![t] = answer = "APIError"]
       /\ done' = [done EXCEPT ![t] = answer = "ReadTimeout"]
       /\ quiet' = IF answer = "ReadTimeout" THEN quiet \cup {t} ELSE quiet
  /\ UNCHANGED <<Main, retries, heard, sensors>>

\* One event of the stream, with a message for a BMC: its sensors are listed,
\* or the list is empty, or there is None in its place.  None is counted the
\* first time and cannot be iterated over when there are sensors already.
SetSensors(t, b, list) ==
  /\ heard' = [heard EXCEPT ![t] = @ \cup {b}]
  /\ sensors' = [sensors EXCEPT ![t] = IF list = "some" THEN @ \cup {b} ELSE @]

UnpackFails(t, b, list) == list = "none" /\ b \in sensors[t]

Event(t) ==
  /\ threadPc[t] = "stream"
  /\ \E b \in BMCs, list \in {"some", "empty", "none"} :
       /\ SetSensors(t, b, list)
       /\ IF UnpackFails(t, b, list) THEN Fails(t)
          ELSE threadPc' = [threadPc EXCEPT ![t] =
                              IF AmIDone(heard'[t]) \/ stopEvent THEN "check" ELSE "stream"]
  /\ UNCHANGED <<Main, retries, done, apiError, quiet>>

\* The server ends the stream, or it breaks, or an event cannot be parsed.
StreamEnds(t) ==
  /\ threadPc[t] = "stream"
  /\ threadPc' = [threadPc EXCEPT ![t] = "check"] \/ Fails(t)
  /\ UNCHANGED <<Main, retries, heard, sensors, done, apiError, quiet>>

\* ping_and_sleep: the retries are never set back.
MayPing(t) == ~stopEvent /\ retries[t] < ReconnectRetries

Ping(t) ==
  /\ threadPc[t] = "ping"
  /\ MayPing(t)
  /\ retries' = [retries EXCEPT ![t] = @ + 1]
  /\ \E alive \in PingAnswers :
       threadPc' = [threadPc EXCEPT ![t] = IF alive THEN "check" ELSE "sleep"]
  /\ UNCHANGED <<Main, heard, sensors, done, apiError, quiet>>

Awake(t) ==
  /\ threadPc[t] = "sleep"
  /\ threadPc' = [threadPc EXCEPT ![t] = "ping"]
  /\ UNCHANGED <<Main, retries, heard, sensors, done, apiError, quiet>>

GiveUp(t) ==
  /\ threadPc[t] = "ping"
  /\ ~MayPing(t)
  /\ threadPc' = [threadPc EXCEPT ![t] = "dead"]
  /\ apiError' = [apiError EXCEPT ![t] = retries[t] = ReconnectRetries]
  /\ UNCHANGED <<Main, retries, heard, sensors, done, quiet>>

ThreadStep(t) ==
  \/ CheckRun(t) \/ Connect(t) \/ Event(t) \/ StreamEnds(t)
  \/ Ping(t) \/ Awake(t) \/ GiveUp(t)

MainStep == StartThread \/ AllStarted \/ EndWait \/ Join

TelemetryNext ==
  \/ StartSensors \/ MainStep \/ Signal
  \/ \E t \in Threads : ThreadStep(t)
=============================================================================
