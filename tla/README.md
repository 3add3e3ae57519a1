# Formal models of SAT

SAT, the System Admin Toolkit, is a command line program for the administrators
of a supercomputer: it boots and shuts the system down in stages, builds and
configures boot images, swaps hardware, sets credentials, runs diagnostics and
reports inventories and telemetry.  It runs on one node and drives services over
HTTP and hosts over SSH and IPMI.  This directory holds TLA+ modules for the
parts of it that wait, retry, run in threads, can fail half way or compute what
an admin relies on, the TLC configurations that check them on small instances,
and proofs for every instance that TLAPS checks.

Line numbers refer to `src/sat/`; `PROJECT.json` maps every definition to the
lines it models.

## Inventory

| component | state it keeps | operations | interacts with | what is hard | what makes it correct |
|---|---|---|---|---|---|
| group waiters (`waiting.py`) | members, pending, failed, retries, completed | one attempt, one round, one check, retry, return | every stage below subclasses them | checks that fail, retries that start over, timeouts | a member is dropped only when it completed or was given up; the result is exact |
| dependency waiter (`waiting.py`) | the graph, pending, begun, failed | link two members, begin roots, check, wake dependents | bootprep builds images with it | dependents woken in the middle of a round, dependencies that fail | no cycle; nothing begins too early; nothing that can begin is forgotten; it ends |
| BOS operations (`cli/bootsys/bos.py`) | per thread: complete, failed, failure counter, stop event; the coordinator's active and failed templates | select templates, create a session, watch it (v1: a job, v2: the session), scan the threads, time out, stop, join | BOS, Kubernetes; threads and coordinator share attributes without a lock | unlocked attributes, late answers, queries that fail in a row | success means that the sessions are over; failures are reported, and no others; it returns |
| NCN power (`cli/bootsys/mgmt_power.py`) | pending hosts, consecutive failures of each | send a command, poll, give up, force off, connect over SSH | BMCs through ipmitool, hosts through SSH, console logging | hosts that ignore commands, BMCs that do not answer, a command that fails half way | no host is cut off early; groups boot in order; only hosts that were given up stay on |
| console logging (`ipmi_console.py`) | screen sessions on one host, which outlive the program | clean up, start, check, stop | NCN power enters and leaves it | sessions that end unseen, sessions of a run that failed | nothing is done to a host whose console was not found logged |
| platform services (`platform.py`, `etcd.py`, `ceph.py`) | per thread: completed or success; failures of the snapshots | steps of stop and start, a thread per host and service, questions to the admin | systemd, crictl, etcdctl and ceph on the hosts | kubelet restarting containers, partial failures, fatal and harmless errors mixed | etcd is saved before it is stopped; nothing runs when Ceph is frozen; kubelet is last |
| HMS discovery (`hms_discovery.py`, `cabinet_power.py`, `power.py`) | suspended flag of a cron job, schedule | suspend, resume, wait for the next job, power cabinets | Kubernetes, CAPMC | a job that runs while it is suspended, time read late | cabinets are not powered on behind the stage's back |
| pods and ports (`k8s.py`, `hsn.py`) | what was recorded, what is pending | refresh, check | Kubernetes, the fabric manager, the state recorder | members that vanish or change while others are waited for | success means that the system is as recorded |
| state recorder (`state_recorder.py`) | dumps in object storage | dump, upload, prune, read the newest | S3 | failures between upload and prune, two captures at a time | the newest dump survives and is the one that is read |
| service activity (`service_activity.py`) | none | count the active sessions of six services | BOS, CFS, CRUS, FAS, NMD, SDU | queries of some services fail | "safe" is said only if all answered and none was active |
| bootprep (`cli/bootprep`, `apiclient/ims.py`) | images, their jobs and sessions, cached resources | build from a recipe, customize, rename, delete, skip, overwrite | IMS, CFS, S3; the dependency waiter | caches, jobs that outlive their observer | what exists is not overwritten unasked; success means created; a shared base is the new one |
| bootprep configurations (`configuration.py`, `vcs.py`) | names that exist, layers resolved so far | resolve a layer, create, skip, overwrite, give up | CFS, VCS, the product catalog | one layer cannot be resolved; others push and write meanwhile | a configuration reaches CFS whole or not at all |
| CFS image sessions (`cfs.py`) | states of the containers seen | poll session and pod, find the container that failed | CFS, Kubernetes | containers fail in any order between polls | the admin is sent to the one that failed first |
| blade swap (`cli/swap/blade.py`) | stored mappings, a sequence of steps | swap out, swap in | HSM, SLS, CAPMC, the cron job | an error between any two steps, then another try | no address is lost or held twice; what is out stays out |
| port swap (`cli/swap/swap.py`, `ports.py`, `cable_endpoints.py`) | ports found, success so far | collect ports, create policies, set ports | fabric manager, the cabling file | every request may fail or be served unanswered | ports have policies that exist; success covers all ports |
| sensor telemetry (`cli/sensors`) | per topic: BMCs heard of, results, retries, stop event | read a stream, reconnect, time out, join, report | the telemetry service | threads add while the main thread goes on | it ends; results are final; a topic that is short is warned about |
| diagnostics (`cli/diag`) | pool of tasks | launch, poll, time out, cancel, report | Fox service | a timeout racing a completion | no task is left running unreported |
| xnames, BMC credentials (`xname.py`, `sensors/main.py`, `cli/bmccreds`) | passwords of the tries | choose BMCs, make passwords per domain, try again | HSM, SCSD | requests served in part | BMCs share a password exactly if their domain is the same |
| filters and reports (`filtering.py`, `report.py`, `util.py`) | rows | parse, filter, sort, drop empty columns | all commands that print | precedence, values of two types, columns with one value | what is shown is what the filters mean |
| inventory and status reports, API clients, configuration and command line | none, or files and tokens | read and print | all | | not modelled, see below |

A stage of `bootsys` is one process.  Its main thread runs waiters one after
the other; only the BOS threads, the service and container threads, and the
telemetry threads run in parallel, and they share nothing but a few attributes
with the thread that joins them.  The environment (hosts, BMCs, services, pods)
changes between any two steps, and every request can fail; the models let it.

## Modules

`GroupWaiter` is `Waiter` and `GroupWaiter`: one action per check of a member,
so that conditions change between two checks of a round.  Time is counted in
poll intervals; a round lasts one or more of them.  `member_has_completed`
answers by the member's condition: met, unmet, or broken, which raises
`WaitingFailure`.

`DependencyWaiter` is `DependencyGroupMember` and `DependencyGroupWaiter`.
`AddDependency` builds any graph the code accepts before the waiter starts.  The
sets the code iterates over have no order, so an action takes any of their
elements.  With `SingleDependency` every member has at most one dependency, as
the images of bootprep.  `DependencyOrder` is what it promises: a member runs
once, after everything it depends on is done, and its outcome is final.

`BosOperations` has the session threads and the coordinator of
`do_parallel_bos_operations`.  `BeginMarkFailed` and `EndMarkFailed` are the two
writes of `mark_failed`, `ReadFailed` and `ReadComplete` the two reads of the
coordinator.  `misread` remembers the templates whose failure the coordinator
took for completion, reading between those writes or around them: the one way in
which a failure is lost.  `version` is how a thread watches its session; a run
covers both.  What BOS does with a session is the external action `SessionEnds`.

`IpmiPower` is the IPMI waiter of `mgmt_power.py`.  A round over the pending
hosts is one step there, as the queries of different hosts do not depend on
each other.  Hosts obey a command after any time or never, and any call of
ipmitool can fail.  `ConsoleLogging` has the screen sessions: a session ends at
any time, and those that a failed stage leaves are cleaned up by the next one.
`NcnShutdown` and `NcnPowerOn` are the two stages on top of both, and `NcnPower`
is the life of the hosts through both: it instantiates the two stages over the
same hosts, and what the first one told a host (`told`) still happens, or not,
while the second one runs.

`PlatformServices` executes the steps of either action.  Every thread of a step
is at a place of its own (`thread`), so all interleavings of the hosts are
explored, with systemd settling and kubelet starting containers in between.
`running` has the units that are active.  One that is not may read as
`inactive` or as any other state (`Readings`: `failed`, `unknown`, `activating`),
each time it is asked: a waiter for `inactive` takes only the first
(`platform.py:215`), the snapshot of etcd asks only whether it is active
(`etcd.py:82`).

`ImsClient`, `ImageBuild` and `Bootprep` are one process in three parts: the
images in IMS with the client's listing of them, which is read once; the images
of an input file on their way from a recipe or a base to their name; and the
session templates that name them.  An image is identified by how it came about
(`old`, `built`, `layered`, `renamed`, or the `partial` record that a failed copy
leaves), since that decides its name and whether it can be used.  The waiter
is replaced by the abstract `DependencyOrder`, which `DependencyWaiter` is proved
to implement for graphs like these: an image may begin when `Order!Ready`
holds.  Rounds and the order of members within one are thereby any.  Jobs of
IMS and sessions of CFS end in any way at any time, even after the program has
given them up.

`HmsDiscovery`, `Hardware`, `CabinetPower`, `BladeSwap` and `HardwareProcedures`
are the procedures that suspend and resume the `hms-discovery` cron job.
`HmsDiscovery` is the cron job and the two waiters for it; the times that the
scheduled waiter compares are abstracted to the outcome of the comparison
(`scheduled`).  `Hardware` is what the procedures share: the records of HSM, the
power of chassis, slot and nodes, the blade in the slot and the running
command, with the environment (components that obey late or never, jobs that
power components on and find BMCs, HSM that completes a discovery).
`CabinetPower` and `BladeSwap` are the commands, one action per stage;
`MountainOrder` and `RiverOrder` say what follows on a stage, and `Finished`
ends a dry run.  `HardwareProcedures` lets an admin run any commands one after
the other, each of which may fail at any stage, take the blade out and put one
in.  What it assumes of the environment:

- Kubernetes starts no job of a suspended cron job; a running one goes on.
- An order that CAPMC accepted is carried out or lost by the time of the next
  command.
- The nodes of the first blade all have addresses, and the components of the
  slot remain known to HSM.
- To change or to delete an endpoint that HSM has no record of is an error
  (404, which the client raises).
- The admin takes a blade out only after a swap-out, and when it is off.
- A waiter may time out at any moment.

`StateRecorder`, `RestoredState`, `SessionChecks` and `BootStages` are the stages
that look at the system and do not change it.  `StateRecorder` has captures that
overlap, each of which writes a file, uploads it and prunes, with every request
failing or not.  `RestoredState` reads the newest dump and waits, over the
loop of `GroupWaiter`, until pods or ports are as recorded, while they change.
`SessionChecks` asks six services one after the other; one session stands for
those of a service, with the states that service's predicate tells apart.  The
work of a BOS v1 session is that of its pod: what `SafeMeansIdle` says of it begins
with the pod, as a session whose pod is not there yet is not active for the
code (`service_activity.py:314`).

`PortSwap`, `Telemetry`, `Diagnostics` and `SwitchMaintenance` are the commands for
switches; the composition runs one of them (`tool`).  A request of `PortSwap`
that fails may have been served: `CreateOutcomes` and `UpdateOutcomes` are the
pairs of what becomes of the fabric manager and what the call returns.  What a
call returns is a set of at most one value, `{}` for `None`.  `Telemetry` has one
process per topic and the main thread; `Diagnostics` abstracts the clock to
whether the time is over.

`CfsConfigurations`, `CfsSession`, `XNames`, `Credentials`, `Filters`, `Reports` and
`ConfigsAndReports` are what commands make of their input.  The first two are
state machines with an environment (pushes to branches, others who write
configurations, containers that run and fail); the others are mostly
operators with a reference definition beside them: a query is parsed by the
code's grammar (`BoolExpr`) and compared with "some conjunction between two
ors holds", a report with the rows that satisfy that.  A filter is a record of
the fields it is about and of its outcome for every row, which may be that it
raises; a parser is a recursive function of the place in the query, as the
grammar's parsers call each other at later places only.  Values are numbers
that stand for ranks and texts, letters of headings are strings; nothing depends
on more.  `Given` (`Inputs`) fixes the inputs of the commands that are not run, so
that a composition does not multiply them.

`Bootprep!Renamings` and `HardwareProcedures!Symmetry` are the symmetries for TLC;
where constants need more than a `.cfg` can say there is an `MC` module.

## Runs

| run | instance | shows |
|---|---|---|
| `group_waiter` | 3 members, timeout 2, 1 retry | a member is dropped for a reason, the result is exact |
| `dependency_waiter` | 3 members with at most 1 dependency each, 1 retry | `DependencyOrder` is implemented, no wake-up is lost, the graph is acyclic, waiting ends |
| `bos_operations` | 2 templates, both versions of BOS | success means that the sessions are over, exactly the failures are reported, but for one read in the middle of `mark_failed`, the operation returns |
| `ncn_power` | a manager and a worker, in groups with an empty one between them | only hosts that were given up stay on, hosts are forced off after their time only, groups boot in order, consoles are watched, both stages end |
| `platform_services` | 2 managers, both actions | etcd is saved before it is stopped, nothing runs when Ceph is frozen, kubelet is last, a completed waiter left the service enabled as asked |
| `bootprep` | 3 images, any bases and configurations | no name loses its usable image, only overwritten images go, success means created, a shared base is the new one |
| `bootprep_templates` | 2 images | violation: a template is created for the image that was overwritten |
| `hardware` | 3 commands; slot, chassis, 2 nodes, 2 BMCs, 2 blades, either class | a blade swapped out stays out of HSM, no address is lost or held twice, cabinets are off or on when a command says so, a resumed job has run |
| `hardware_discovered` | 2 commands | violation: a swap-in succeeds though an endpoint was never discovered |
| `switch_maintenance` | 4 ports, 5 jacks, 2 cables, 2 swaps; 2 topics, 2 BMCs, 1 reconnect; 2 switches to diagnose | ports keep policies that exist, success covers all ports, topics that lack a BMC are warned about, results are final, the threads end, no task is forgotten |
| `boot_stages` | 2 pods or 2 ports, 2 captures, 1 dump kept | pruning keeps the newest dumps, success means that pods and links are as recorded, "safe" means idle |
| `configs_and_reports` | 2 configurations of 2 layers; a session of 7 containers; queries of up to 3 comparisons over 3 headings; 6 BMCs | configurations are whole, the first failure is named, a report shows what its filter means, passwords follow domains |

Why the bounds are enough.  Members, hosts, templates and images interact only
through sets, so two of them show every interference of a pair and a third a
bystander or a chain.  Timeouts of two or three intervals allow a round that
answers in time, one that answers late and one that is cut off.  Retries are 0
or 1 in the code.  `MaxConsecFails` is 3 in the code and 1 in the runs:
the number only lengthens them.  In `platform_services` all workers are excluded
(the code allows it), as a worker makes the instance too large: it takes part in
the same steps as a manager but for etcd, and the proofs cover it.  The three
commands of `hardware` (`MaxCommands`) are enough for what takes several: a
swap-out that fails, one that succeeds, and the swap-in; two nodes and two BMCs
let each loop over them fail half way.  Two swaps (`MaxSwaps`) are a disable and
an enable, or a second try; the cabling has a cable to another switch, one to
something that is no jack, and jacks in no cable.  `NumToKeep` is 1 in
`boot_stages`, so that the second dump is one too many; two captures overlap in
every way, and names of dumps have few seconds (`LastSecond`) so that two of
them may be of one second.  `MaxChanges` and `MaxSessionChanges` bound the
environment there, `MaxPushes` and `MaxOthers` in `configs_and_reports`; a query
of three comparisons has an "and" and an "or" in either order.  `Retries` of
bmccreds is 3 by default and 2 here.  The runs with symmetry check invariants and
properties of single steps, no liveness, and no name is distinguished.

Deadlock is checked in every run: an ended program stutters by an action of
its own.

Fairness.  `DependencyWaiter` assumes weak fairness of the waiter's own steps,
`BosOperations` that of the coordinator and of each session thread, `NcnPower`
that of each stage, `SwitchMaintenance` that of the main thread, of each telemetry
thread and of the clock: these are threads that the operating system
schedules, and each of their steps is a request with a time-out or a sleep.
Nothing is assumed of hosts, BMCs, services or members: all of them may hang.
The other specifications assume no fairness and state no liveness: commands over
SSH have no time-out, bootprep waits for a job for as long as it runs, and the
procedures on hardware wait for the admin.  `GroupWaiter` is bounded by the same
clock as `DependencyWaiter`, whose run shows that such waiting ends.

## Proofs

All proofs are for every value of the constants, from the assumptions named in
the modules: numbers are natural, names of things of different kinds differ, the
groups of hosts that boot together are disjoint, every port has a jack and a
policy, containers do their work in the order of their names, xnames are
sequences of levels, headings, tables and requests have the form that
`HeadingsAssumption`, `TablesAssumption` and `RequestsAssumption` say (sequences of
letters, of batches of rows, and of queries; functions that a command filters
with are about one of its headings).  One theorem (`SwapsComplete`) has a
hypothesis of its own.

The type invariant of every specification that a run checks is a theorem.  Those that are not
inductive have a stronger one: `NcnTypeInv` (a host that is still waited for has
missed fewer answers than the threshold, and nothing is left to be sent when the
waiter polls), `BosTypeInv` (a thread that goes on has not had one failure too
many), `PlatformInv` with `OtherTypes`, `BootprepTypeInv` (nothing is overwritten
before it is decided what to create), `TypeInv` of the hardware, and `PolicyInv`,
`SensorsInv` and `DiagTypeInv` for the commands for switches.

`BootStagesProofs` has the group waiter and the stages that look at the system.

- `MembersDroppedForAReason` and `ReturnedSetExact` need `WaiterInv`: during a
  round every member of the attempt that is neither pending nor seen has failed,
  and what was seen was met at the time of its check.
- `SafeIsIdle` from `SessionsInv`: a session at work since the stage began, of a
  service that was asked already, is among those found or its service failed.
- `NewestKept` and `RestoredIsCaptured` rest on what captures that overlap leave
  in the bucket.  `PhaseInv`: what is stored or about to be deleted has the name
  of a capture that is past its upload.  `KeepInv`: what a capture has listed for
  deletion has at least `NumToKeep` newer objects, and keeps them whatever the
  others upload and delete, since what they delete is old too (`OldStaysOld`).
  `DataInv`: the file and the object of a capture that shares its name with no
  other have what that capture saw.  `CheckInv` then relates what the check read
  to the capture it is of.

`DependencyWaiterProofs`: the type invariant; `NeverCyclic` for every sequence of
calls of `add_dependency`; `NoWakeupLost`; and, with single dependencies, that
nothing begins before what it depends on is done, and that the waiter
implements `DependencyOrder`.

- A link is refused if the new dependency already depends on the member, so a
  cycle through the new link would have been one before.
- `NoWakeupLost` needs `WakeInv`: every member is reached from a root
  (`RootsReached`), and a member nothing was done about has a dependency that is
  pending or failed, or one whose dependents are still to be looked at in this
  round (`Remembered`).
- The order needs an invariant that relates the sets of the waiter: what is
  pending was begun or has failed, what is being woken depends on something
  that is done, what is done was begun, and the direct dependencies of what was
  begun are done.  That the direct ones suffice is `DependenciesDone`:
  `FullDependencies` is the least closed set (`FullDependenciesLeast`), and `done`
  is closed under dependencies.  The refinement proof has one case per action.

`BootsysProofs`, for the stages of `bootsys` that act on hosts and nodes.

- `OkSessionsAreOver` and `FailuresReported` from `BosInv`, which says at each place
  of a thread what `complete` means there; that a template the coordinator has
  dropped from its active ones is among the failed, was misread, or has a thread
  that ended without a failure; that what is called failed has failed or was
  active at the timeout; and that a scan looks at every template once (`ScanInv`).
- From `NcnInv`, which has a part for each stage: at each place of the shutdown
  the hosts that are on and not pending were given up (`LostHostsStayOn`), and
  none is forced off before its time (`CutOffAfterItsTime`); at each place of the
  boot all earlier groups are reachable (`GroupsBootInOrder`); and what is done to
  hosts is done after the check of their consoles (`ConsolesAreWatched`).

`PlatformProofs`, for any managers and workers: `PlatformInv` says what each step
of `STEPS_BY_ACTION` has achieved once it is past (`Past(n)`), and that nothing in
a later step, on any host, undoes it; threads of a step are where the step is
(`Threads`).  From it `QuietAtTheEnd`, `SnapshotsPrecedeStop`,
`KubeletStartsLast` and `EnabledBeforeCompleted`.

`BootprepProofs`: `OnlyOverwrittenImagesGo` rests on what one check of a member
can delete (`OutcomesKeepOld`).  `CreatedImagesAreThere` needs `CreatedInv`: the
plan is made of images whose bases are planned too, a built image is in IMS
until it is renamed, and what is done has its image.  When the waiter ends
with nothing pending, an image that still waits would wait for one that waits,
and so on, which the acyclic order excludes (`NothingForgotten`: every set of
images has one with no base in the set).  `NamesRemainUsable` follows from both.
`SharedBaseUsed` needs `BaseInv`: when there is one base that images depend on and
all others start from recipes or from ids, the listing is read only after that
base is done.

`HardwareProofs`: the type invariant is not inductive as it stands, since a
failed member is a BMC only because nothing else is waited for there
(`TypeInv`).  Then

- `NoAddressLost` from `AddressInv`: the first mapping that is stored has the
  addresses of all nodes, and no stage that deletes interfaces is reached
  before one is stored;
- `OneHolder` from `HolderInv`: a mapping has one MAC address per node, and no
  node has an address left when swap-in creates the interfaces;
- `RemovedBlade` from `RemovedInv`: after swap-out has waited for the running
  job no job runs (`NothingComesBack`), so that endpoints remain disabled,
  hence no interface is found again, until all of them are deleted;
- `CabinetsOff` from `PowerInv`: nothing is told to power on during the stage,
  what was seen off stays off unless a job was running at the suspend, and an
  empty slot is off;
- `ResumedIsInService` from `ResumeInv`: a schedule newer than the waiter is that
  of a job since the resume, nothing suspends the cron job again, CAPMC has
  nothing left to carry out when cabinets are powered on, and a mountain slot
  is enabled before the cron job is resumed.

`SwitchProofs`: `TopicsComplete` (`SensorsInv`: a thread is done only when it has
heard of every BMC or its stream timed out silently), `ReportFinal` (the
threads have ended when the report begins), `TasksReported` (`DiagInv`: a task that
is not in the pool has ended or was given up, and what is said to have ended has),
`PoliciesAreThere` (`PolicyInv`: what is to be set was read or created, and no
policy is deleted) and `SwapsComplete` (`SwapInv`: the ports to be changed are among
those found, and those found that are no longer to do are as asked unless an
update failed).  `SwapsComplete` is for files in which no two different rows
name the same jack (`OneCablePerJack`): `get_cable` takes the first row that has
a jack, and with another row for it the ports of that one would be left out.

`ConfigsProofs`, for the commands that make something of their input:

- `ConfigurationsWhole` from `ConfigInv`: the layers made so far are the first ones
  of the configuration under way, each of them failed or as it was resolved
  (`MadeInOrder`); what CFS took is whole (`AcceptedWhole`); and every
  configuration of the file is still to be made, failed, was skipped or was
  taken (`NoneForgotten`).
- `FirstFailureNamed` from `SessionInv`: containers run in their order
  (`RunInOrder`), and a status that has been seen of a container that has exited
  is true for ever, and was seen together with those of the containers before
  it (`SeenIsSo`).  `SuggestedIsFirst` is the argument about the patterns and
  suffixes that `get_suggested_debug_command` goes through.
- `PasswordsByDomain` from `NamesInv` and `CredsInv`, and `UpToAgrees`: the prefixes
  that name a cabinet or a chassis are equal exactly if the names agree in so
  many levels.
- `ReportFiltered`: for any headings, queries of any length, functions and rows, a
  report has the rows that its filters mean and the columns they are about.  It
  rests on what the pure parts return: that looking for each letter of a key
  behind the one before finds the key if any way does (`GreedyFinds`); that a
  conjunction, and a disjunction of conjunctions, parsed from any place means
  what is written up to the next "or", or up to the end (`AndParsed`, `OrParsed`),
  so that several queries and functions mean all of them (`ParseQueriesIs`); and
  that the rows in the order of the sort are the rows (`AtPlacesAre`).
  `ReportInv` then says that once the report is made its filter is that of the
  request and that the columns of the filter are among those that are always
  shown (`Prepared`).

Attempting `ReportFiltered` showed that the grammar of an earlier model took a
query that ends in an operator for the query before it; the code raises
`ParseError` there, and `ParseQuery` now fails.

The inductive invariants were checked with TLC on the instances of the runs.

Induction over the naturals is used in one form only, that a set of naturals
has a least element (`Least`), which follows from the well-foundedness of finite
sets under inclusion; the induction theorems of the library take an operator as
a parameter, which the provers cannot instantiate.  From it follow, for steps
and sets instead of operators, that a function exists which is defined by
recursion over a rank (`Recursion`: what `f[i \in S] == ...` chooses is such a
function, or the definition would say nothing) and that a set holds every place
if it holds each one behind which it holds all (`FromTheEnd`).

Only model-checked are the liveness properties: `EventuallyReturns` of the waiter
and of BOS, `StagesEnd` and `SensorsEnd`, as liveness under fairness is out of the
prover's reach.

## Where code and documents disagree

The two violation runs are disagreements that a run shows (`findings` in
`PROJECT.json`).  These were met while modelling and have no run; the models
follow the code.

Waiting and booting:

- `waiting.py:542`: with several dependencies, a dependency that is not pending yet
  counts as done, against the docstring at 464; images of bootprep have at
  most one.
- `cli/bootsys/bos.py:325`: `mark_failed` writes `complete` and `failed` one after
  the other, so that the coordinator can take a failed thread for a successful
  one (docstring at 544).  `FailedThreadIsReported` does not hold;
  `FailuresAreReported` is what remains true.
- `bos.py:439`: the counter of consecutive failures is reset in every round,
  though the comment at 303 counts both queries.
- `bos.py:751`: templates nothing could be learned of are operated on, which the
  docstring at 713-715 excludes.
- `bos.py:252`: a v2 session with failed nodes counts as success; the docstring
  at 461-462 promises failed sessions.
- `cli/bootsys/mgmt_power.py:236`: the shutdown succeeds with a host whose status
  was lost and that may be on (docstring at 233).
- `mgmt_power.py:152`: a command that fails keeps the remaining hosts from being
  sent one; the docstring at 219-221 speaks of all hosts.
- `ipmi_console.py`: all prefixed screen sessions are ended, whoever started
  them; those of a stage that fails are left; a session that ends after the
  check goes unnoticed; the name of a BMC is matched as a part of a line.
- `cli/bootsys/platform.py:167`: enabling or disabling a service that is in its
  target state may fail without an error (docstring at 391).
- `cli/bootsys/k8s.py:68-73`: only the pods that exist when the waiter is made are
  waited for, so that a recorded pod that has not come back is not missed
  (docstring at 47; `RecordedPodsReturn` does not hold); one that goes meanwhile
  raises `KeyError`.
- `state_recorder.py:337`: only pods are captured; the help in `main.py:41` speaks
  of links too.  Three captures of one second could prune the newest, and
  `num_to_keep` 0 would delete everything.
- `cli/bootsys/service_activity.py:314-330`: a BOS v1 session that was created and has no
  pod yet is not reported (docstring of `get_active_sessions`), nor is one whose
  pod is in the phase `Unknown`.
- `hsn.py`: if all port sets fail to be read there are no members, and the fabric is
  called healthy.

Images and configurations:

- `cli/bootprep/input/image.py:182`: with two bases that images depend on, or a
  base that was looked up by name before, a dependent image can be made from
  the image that is overwritten: the listing is read once (`ims.py:178` clears
  another key).  `SharedBaseIsUsed` is what remains true.
- `image.py:347` and `407`: an image with an image as base and no configuration
  creates nothing, yet the images it overwrites are deleted, against the
  docstring at 410-412.
- `cli/bootprep/input/base.py:343-370`: `InputItemValidateError` of `create_items`
  is caught by no one (`main.py:226`).
- `cli/bootprep/configuration.py:73-91`: the end of input at the prompt is no
  choice and raises `TypeError`; names that others write after the listing are
  overwritten unasked; two layers of one branch may get different commits.
- `apiclient/cfs.py:466`: a pending pod has no container states, and iterating
  over them raises.

Hardware and switches:

- `hms_discovery.py:204`: `.seconds` of a negative difference is almost a day.
- `cli/bootsys/cabinet_power.py:159`: the cron job is suspended "to ensure that
  components remain powered off", but a running job is not waited for, unlike in
  a swap; `PoweredOffMeansOff` is therefore about `~jobAtSuspend`.
- `cli/swap/blade.py:304`: a swap-out that failed among its deletions cannot be
  repeated, endpoints that are gone cannot be disabled.
- `blade.py:308` disables the slot of a river blade, which no stage of swap-in
  (765-782) enables, though `docs/man/sat-swap.8.rst` says that new components
  are enabled.
- `blade.py:214-234`: `run` reads `blade_class` outside its `try`; 285: the states
  of nodes are read once and may be old when the blade is powered off.
- `blade.py`, `merge_mappings`: with several interfaces of a node, all are paired
  with the first of the other blade.
- `cli/swap/ports.py:316-323`: one of two lists of ports of a switch passes for both,
  where the docstring at 282 promises `None`; 241-257: a jack that is not in
  the cabling file is dropped when others are.  `ReadyMeansOffline` does not hold.
- `cli/sensors/main.py:314-316`: if the service does not answer the ping of a later
  topic, `SystemExit` is raised without `stop_event.set()`, and the threads of the
  earlier topics go on after the total timeout (291,
  `docs/man/sat-sensors.8.rst:52`).  `ThreadsAreStopped` does not hold.
- `cli/diag/fox.py:199-203`: a diagnostic that ended within its time may be
  reported as timed out (`docs/man/sat-diag.8.rst:53-56`).  `EndedInTimeIsReported`
  does not hold.

Names, reports and credentials:

- `xname.py:234-240`: an invalid xname has no tokens and so contains everything.
- `filtering.py`: a field that no heading matches is an error only if the comparison
  is evaluated.
- `cli/bmccreds/main.py:106`: `--retries` counts attempts
  (`docs/man/sat-bmccreds.8.rst:97`), and each makes new random passwords, so that
  BMCs served by an earlier one keep theirs.  `DomainsHaveOnePassword` does not
  hold.

## What is left

The modules of this plan are written, and every safety property that a passing
run checks is a theorem.  What could follow: the BGP waiter and the lookup of
`--bos-limit` as operators, and the order of xnames.

## Not modelled

Inventory and status reports only ask and print: the table they print with is
`Reports`.  The API gateway, its sessions and tokens, configuration files and the
command line keep no state that a step of another component depends on; their
requests appear in the models of their callers as steps that may fail.  Of
`bgp.py`, the waiter that restarts sessions through switches by commands typed
into them, and of `bos.py`, the parsing of `--bos-limit` and the recursive lookup of
host lists, are left out.  Of bootprep, dry runs, public keys and the validation
of the input file are; of `power.py`, `do_nodes_power_off` and
`get_nodes_by_role_and_state`, which nothing calls; of names and reports, the
order and the validity of xnames, lexical details of queries and the layout of
tables.  Texts of messages and logs are left out everywhere.
