# Verification of the KVM collection

TLA+ modules, TLC configurations and TLAPS proofs for the Ansible collection
`bodsch.kvm`: modules and roles that manage libvirt daemons, storage pools,
networks, volumes and domains on a KVM host. Paths below are relative to the
repository.

## 1. The system

Every component is a short-lived program. Ansible starts a module process, the
process makes a series of calls to libvirtd or systemd, prints a result and is
gone; a role is a list of such tasks. The lasting state is libvirt's, systemd's
and the file system's, and none of it is locked between two calls. So the
questions are the same all over:

* what does a task leave behind when a call in the middle of it fails, or when
  the process is killed, and does the next run repair it?
* what does a decision rest on that was read some calls earlier, while guests
  and other clients of the same libvirtd went on working?
* is `changed` in the result what happened on the host?
* does a second run of the same playbook change anything?

| Component | Keeps | Operations | Talks to | Hard | Correct when |
|---|---|---|---|---|---|
| `libvirt_domain` (`plugins/modules/libvirt_domain.py`) | nothing; per item the handle, the old definition and what was read of the run state | look up, carry over UUID and MACs, define, compare, autostart, drive the run state, facts, remove | libvirtd through `LibvirtConnection` | 10 to 15 calls per item, guests and clients in between; ACPI shutdown is only a request | result and host agree, a spec is reached, a rerun is silent, only the named domain is touched |
| unit modules (`module_utils/libvirt_service.py`, `modular_services.py`, `monolithic_services.py`) | the status of all units, read once | enable (unmask), disable (stop), start (wait), stop, verify | systemd over D-Bus | units enable, disable, start and stop each other; sockets bring daemons back | the listed units are as asked and `changed` says so |
| `libvirt` role (`roles/libvirt`) | notified handlers of a play; the published fact `ansible_local.libvirtd` | resolve the daemon model, render, disable one model, enable the other, remote sockets, restart handlers, ensure libvirtd | the unit modules; the dependent roles through the fact | a failed task loses the handlers; `Also=` couples the two models' units; the fact is written before the host follows | the host ends in one daemon model, with the configuration loaded, and the dependent roles leave it there |
| `libvirt_pool`, `libvirt_network` | nothing | define once, build, autostart, start or stop, refresh, undefine | libvirtd | failure between define and start | as for domains, but never redefines |
| `libvirt_volume` | pool handles per run | create, clone, resize, wipe, delete | libvirtd | clone source missing, capacity only grows | a disk with contents is never recreated |
| `libvirt_cloud_init_iso` | nothing; the image in memory | build, create the volume, upload in three calls | pycdlib, libvirtd | a seed volume created but not filled | what is called present is a complete ISO |
| roles `storage_pool`, `network`, `base_images`, `instances` | registered results within a play | order the modules, loop over hosts' data | the modules above | a failed task ends the play half-way | a rerun completes it |
| filters (`plugins/filter/libvirt.py`) | nothing | select daemons and units, derive volumes, disks and networks | the roles | empty and duplicate inputs | units of the two models are complementary; disks match volumes |
| XML builders (`module_utils/libvirt_xml.py`) | nothing | render and validate definitions | pool, network, volume, domain modules | numeric edges; three places (filter, argument spec, builder) that have to agree | what is asked for is rendered or refused, and what a domain names exists |

`PROJECT.json` lists every component with its status, and under `hazards` what
is hard to test in this code, each at its line.

## 2. The modules

| Module | Stands for |
|---|---|
| `LibvirtDomain` | `libvirt_domain.py` and the libvirt calls it makes, with guests, other clients, failures, kills and reruns |
| `LibvirtDomainProofs` | theorems about `LibvirtDomain`: types, check mode, which domain is touched; what an item leaves behind and reports, and what a second run does |
| `RoleFilters` | `plugins/filter/libvirt.py`: unit lists, network specs, volumes and disks |
| `RoleFilterProofs` | what the filters return for lists of any length: which units, and that the two daemon models' lists match |
| `XmlBuilders` | `module_utils/libvirt_xml.py`: what each builder accepts and renders |
| `Definitions` | from the variables of the roles network, storage_pool and instances, through filter, argument spec and builder, to what libvirt is given |
| `DefinitionsProofs` | theorems about `Definitions` and the filters and builders in it |
| `LibvirtService` | the unit modules, systemd as they see it, and the clients whose connections activate units |
| `DaemonModel` | the libvirt role's plays, composed from `LibvirtService` tasks, rendering and handlers, and the daemon tasks of the roles that depend on it |
| `DaemonModelProofs` | theorems about `DaemonModel` and the `LibvirtService` tasks in it |
| `Reconciler` | abstract: what a reconciling module promises of one item after another |
| `ModuleRun` | the `run()` loop the pool, network, volume and seed modules share |
| `DefineOnce` | what `libvirt_pool.py` and `libvirt_network.py` have in common, implementing `Reconciler` |
| `DefineOnceProofs` | lemmas about `DefineOnce`, for pools and networks alike: sane hosts, levels, its actions, and which step of `Reconciler` each is |
| `LibvirtNetworkProofs` | theorems about `LibvirtNetwork` |
| `LibvirtPool` | `libvirt_pool.py`: `DefineOnce` with build, refresh, the target path and libvirt's volume listing |
| `StorageRoles` | the plays of the roles `storage_pool` and `base_images`, composed from `LibvirtPool` tasks, directories and downloads |
| `StorageRolesProofs` | theorems about `StorageRoles` and the `LibvirtPool` tasks in it |
| `LibvirtNetwork` | `libvirt_network.py`, run again and again by the network role |
| `LibvirtVolume` | `libvirt_volume.py` |
| `CloudInitIso` | `libvirt_cloud_init_iso.py`, on the volumes of `LibvirtVolume` |
| `Instances` | the plays of the role `instances`, composed from volume and seed tasks, and pool and domain tasks in one step each |
| `InstancesProofs` | theorems about `Instances` and the volume and seed tasks in it |
| `MC*` | constants for TLC |

`ModuleRun` is extended by `DefineOnce` and `LibvirtVolume`, `DefineOnce` by
`LibvirtPool` and `LibvirtNetwork`, `LibvirtPool` by `StorageRoles`,
`LibvirtVolume` by `CloudInitIso` and that by `Instances`; `DaemonModel` extends
`LibvirtService` and `RoleFilters`, `Definitions` extends `XmlBuilders` and that
`RoleFilters`. `DefineOnce` instantiates `Reconciler` under a refinement
mapping, and pool and network both check the instance's specification. A module of
proofs extends the module it is about; `LibvirtNetworkProofs` and
`StorageRolesProofs` both extend `DefineOnceProofs` too, and `DaemonModelProofs` and
`DefinitionsProofs` extend `RoleFilterProofs`.

### LibvirtDomain

`host` maps UUIDs to domains (or `None`), because a `virDomain` handle keeps
naming its UUID whatever happens to the name. The module process is `pc` (the
next libvirt call), `items` and `i` (the spec list and the loop), `check`, `loc`
(the locals of `_reconcile_one` and the methods under it) and `entries` (the
result list). One action is one libvirt call together with the Python up to the
next one:

| Action | Code |
|---|---|
| `StartRun`, `NextItem`, `FinishRun` | `run()` and its loop; `Raise`, `CallFails` are its `except` clause |
| `ValidateSpec`, `LookupDomain` | the head of `_reconcile_one` |
| `AlreadyAbsent`, `WouldUndefine`, `AbsentIsActive`, `AbsentDestroy`, `AbsentUndefine` | `_absent_one` |
| `BuildXml`, `ReadDefinition`, `DefineDomain`, `CompareDefinition` | `_build_xml`, `_define`, `_carry_over_identity` |
| `ReadAutostart`, `SetAutostart` | `_apply_autostart` |
| `ReadActive`, `ReadState`, `ApplyRunState` | `_apply_run_state` |
| `FactState` ... `FactPersistent` | `_domain_facts` |
| `Kill` | the process dies between two calls |
| `GuestObeys`, `GuestActs`, `Client*` | the guest, and other clients of libvirtd |

A definition is abstracted to one value of `Cfgs` and the list of interface
MACs: these are what the comparison before/after and the carry-over tell apart.
`form` says what validation and `_build_xml` make of a spec. `pmsuspended`
stands for all active states other than running and paused; the code treats
them alike. libvirt's own rules are external definitions: unique names, which
operation is accepted in which run state, that undefining an active domain
leaves it transient, that redefining keeps run state and autostart, that omitted
MACs are drawn fresh.

`calm`, `disturbed`, `touched`, `settled` and `forecast` are history variables.
They guard nothing the module does: `disturbed` says that somebody else acted
on the current item's domain, `touched` that the module changed what inactive
XML, run state or autostart show, `settled` holds the playbook that has just
succeeded undisturbed, `forecast` what a dry run of a playbook reported.

### LibvirtService and DaemonModel

`file` and `run` are the unit files' and units' states. A task reads the status
of all its units once (`ReadStatus`) and decides on each from that reading, one
systemd call per action; `half` is the point between the two calls a unit may
need (unmask then enable, stop then disable). `Also=` of the unit files is taken
from `roles/libvirt/Notes`; services that require a socket (`Bound`) stop with
it. `ClientConnects` is socket activation, `ComesUp` the end of it, `IdleExit`
the daemons' idle timeout.

`DaemonModel` runs plays, of the libvirt role (`play.role = "libvirt"`, with one
of the `Settings` of its variables), of the roles that depend on it, and of an
operator who uses the unit modules himself:

| Action | Code |
|---|---|
| `Resolve` | `tasks/install.yml`: `UseModular`, and the fact it publishes; for the dependent roles `prepare.yml`, which reads the fact (`Follow`, with the format of older roles) |
| `Render` | `tasks/configure`: files are written, changed ones notify |
| `BeginTask`, `Apply`, `EndTask` | a unit task of `tasks/services/*.yml`, in the order of `ModularTasks` and `MonolithicTasks` |
| `SetRemote` | libvirtd's tcp and tls sockets, whose failures are ignored |
| `RunHandler`, `EndFlush` | the flushed handlers in the order of `handlers/main.yml` (`Handlers`), the one that waits for libvirtd's pid last; restarting a socket (`RestartSocket`) restarts the running services that require it |
| `EnsureUnit` | `ansible.builtin.service` of the last task and of the dependent roles |
| `FailPlay` | a failed task: the play ends, what it has notified is forgotten |

The unit lists are those of `RoleFilters`. `loaded` records which daemons run with
the rendered configuration, `lost` which notifications a failed play dropped,
`kept` the settings of a play that succeeded undisturbed and that only dependent
plays have followed.

### RoleFilters, XmlBuilders, Definitions

Here nothing runs concurrently; what can go wrong is that three programs written
apart, the filter, the argument spec and the builder, disagree on a field or on
what they refuse. `Definitions` takes the data of a play all the way: the filter
(`network_specs`, `instance_volumes`, `instance_disks`), the argument spec
(`NetworkArgs`, `PoolArgs`, `VolumeArgs`, `DomainArgs`), and, item by item, the
builder (`NetworkValid` and `NetworkXML`, and so on). The first two refuse a whole
task, the builder one item; any item may fail, and a failed task ends the play.
`nets`, `pools`, `vols` and `doms` are what libvirt was given. A network or pool
that exists is not looked at again, a domain is defined anew. Names are sequences of
their parts between hyphens, because file names are put together from instance and
disk names; addresses are numbers, of which only the order matters, and whatever
is no address is not one.

### Reconciler, DefineOnce, LibvirtPool, LibvirtNetwork

The two modules are the same program twice, but for the definition, the facts
and, of pools, `build` and `refresh`; `diff` of the two files shows it.
`DefineOnce` has the common part, in the manner of `LibvirtDomain`: `host`, `pc`
and the process variables, one libvirt call per action.

| Action | Pool | Network |
|---|---|---|
| `BeginRun`, `NextItem`, `EndItem`, `CallFails` | `run()` and its `except` clauses | the same |
| `Lookup`, `AfterLookup` | head of `_reconcile_one` | the same |
| `AlreadyAbsent` ... `AbsentReturn` | `_absent_one` | the same |
| `NoTargetPath`, `WouldDefine`, `Define`, `Build` | `_reconcile_one`, `_define` | without path and build |
| `ReadAutostart`, `SetAutostart` | `_apply_autostart` | the same |
| `ReadActive`, `Start`, `Stop` | `_apply_run_state` | the same |
| `RefreshIsActive`, `Refresh` | `_apply_refresh` | |
| `FactPath` / `FactBridge`, `FactActive` ... | `_pool_facts` | `_network_facts`, where a failing `bridgeName` is no error |

A definition is one value, the pool's target path or the network's bridge,
because that is what libvirt refuses to have twice. libvirt's rules are external
definitions: a running network can be undefined and goes on as a transient one,
a running pool cannot (`UndefinesActive`); redefining is not modelled since the
modules never do it. A connection that cannot be opened ends the module like a
kill right after `BeginRun`.

`Reconciler` knows only how far up each resource is (missing, inactive, active,
transient), the item in hand, and the answer. It promises that every step is
towards the state asked for, none is taken in a dry run, and an answer that is
no failure is `changed` exactly when something was done, and finds the resource
in its state unless somebody else touched it. The refinement mapping
(`DefineOnce!Abstract`) reads these off `host`, `items[i]` and `entries[i]`, with
two history variables: `moved` (the module has changed something for this item)
and `alone` (nobody else has changed this item's resource).

### StorageRoles

`disk` is what each target directory holds (`None` if missing), `known` the
volumes libvirt lists for each active pool: it reads the directory when a pool
starts and when it is refreshed. A play is a list of tasks: `MakeDirs`, a
`LibvirtPool` run (`BeginTask` to `EndTask`), `Download` into the path the first
task returned, and the refresh that `SkipRefresh` skips when the registered
download is not changed. A failed task or a kill ends the play and with it the
registered results (`EndPlayWith`). `orphaned` records images that a failed play
left unlisted in the directory of the active image pool; `quiet` and `settled` whether a play, or the same play
before it, was undisturbed.

### LibvirtVolume, CloudInitIso, Instances

`vols` are the volumes of the one pool, with a capacity and one of four contents
(blank, part of an image, all of it, written to by a guest); `pool` its identity
and run state; `cache` the `pool_cache` of a run, which holds a handle and with
it an identity. A volume handle, on the other hand, goes by names: it survives a
pool that is defined anew. libvirt refuses to shrink a volume (the module does
not pass the flag for it) and to resize one that a running guest has locked; a
clone is never smaller than its source. What an upload has written is part of an image
until its stream is closed without an error, whichever call fails; that one `send`
takes the whole image is assumed, as the code does, which ignores what it returns.

| Action | Code |
|---|---|
| `GetPool`, `LookupVolume`, `AfterLookup` | `_reconcile_one`, heads of `_present_one` and `_absent_one` |
| `LookupSource`, `CreateVolume` | `_create_one` |
| `ReadInfo`, `Drifts`, `Resize` | `_reconcile_existing` |
| `Wipe`, `Delete`, `Deleted` | `_absent_one` |
| `CreateIso`, `Upload`, `Send`, `FinishStream` | `_create` of the seed module, four libvirt calls |

`Instances` has the filters `instance_volumes` and `instance_disks` as operators
and the tasks of `tasks/instance.yml` in their order, for one instance after
another. `DomainTask` is one step that starts, stops or only defines the domain,
or fails anywhere on the way, and `Becomes` what a start entails: the first boot
reads the seed, the guest writes to its disks. `configured` remembers what the
first boot found, `cutShort` the volumes that an error or a kill left made or
wiped but not filled or deleted.

## 3. What TLC checks

| Run | Instance | Shows |
|---|---|---|
| `DomainSafety` | one name, two UUIDs, two definitions, two MACs; six hosts (missing, the four run states, transient); eleven one-item playbooks; one fault or kill; one step of another client | `changed` is exact (`ChangedExact`), a success has reached its spec, a sleeping domain passing for running (`Converged`), facts are current (`FactsCurrent`), a rerun is silent (`Idempotent`), a dry run foretells the real one (`CheckForecast`) and touches nothing (`CheckInert`), MACs stay (`MacsKept`) |
| `DomainRetry` | two names, two-item playbooks: a broken item before a good one, removal beside creation, two domains needing fresh MACs | only the named domain is touched and only removed when told (`OnlyAsked`); re-running reaches every good item's spec, whatever failed before and with the same exception (`Converges`) |
| `DaemonSwitch` | libvirtd with a tcp socket, virtqemud, virtproxyd, three driver sockets, one driver not installed; three settings of the libvirt role, `storage_pool`, one play of an operator; a monolithic host and one that an older role has left in both models with a masked socket; one failure or one client step | tasks report and leave what they should (`TaskChangedExact`, `TaskApplied`), the role brings the host into its daemon model and the dependent roles keep it there (`ModelKept`), a rerun is silent (`PlayIdempotent`), the configuration is loaded (`ConfigLoaded`), and re-running completes the switch (`SwitchCompletes`) |
| `StorageSafety` | two pools, two paths, two images; the roles' plays and two others (a malformed pool before one that is stopped; removal beside a built pool with a pinned UUID); no pool, an inactive one, a transient one, with and without its directory; one fault; one client step | each pool item does what `Reconciler` promises (`Promised`), a dry run touches nothing (`CheckInert`), a successful `base_images` play has its images listed unless an earlier play orphaned them (`ImagesListed`), a rerun reports nothing but refreshes (`PlayIdempotent`), re-running completes a play (`Completes`) |
| `NetworkSafety` | two networks, two bridges; every state, autostart on and off, a malformed item before a good one, a bridge that moves from a removed network to a new one; four hosts; one fault; one client step | `Promised`, `CheckInert`, a rerun is silent (`Idempotent`), re-running reaches every state libvirt can grant, and the autostart flag (`Converges`) |
| `InstancesSafety` | an instance with a data disk and one after it, the same instance with one disk more than there are letters; volume and seed tasks of the operator (malformed, clone without resize, wipe and delete, seed removal); no pool or an inactive one, base image there or not; one fault; one step of a guest or client, who may stop, start or replace the pool and delete volumes | entries are exact and what succeeded is as asked (`EntryExact`), guest data is lost only where a playbook says absent (`GuestDataKept`), a first boot finds a complete seed and an image (`FirstBoot`), a rerun is silent (`PlayIdempotent`), re-running brings every instance up that libvirt does not refuse (`Completes`) |
| `Definitions` | sites of two plays: some 75 network plays (DHCP with a part missing, out of order or no address; port groups alone and in pairs, single, trunked, listed, out of range; every mode with and without what it needs) and the pool plays, each with its removal; any two of six instance plays (the same disk name on two instances, an instance whose name continues another's, a disk too many and fewer later, no capacity, an unknown system) | what libvirt is given is well-formed (`TypeOK`), networks carry the vlans, the DHCP range and the DNS servers asked for or are not there (`VlansCarried`, `DhcpCarried`, `ForwardersCarried`), every disk of a domain was made, in the format qemu is told (`DisksMade`), and instances whose names do not continue each other share no disk (`OwnVolumes`) |

Five runs end in a violation; each is one statement of the repository's documentation,
comments or tests that the code does not live up to:

| Run | Statement | What happens |
|---|---|---|
| `DomainAsleep` | `state: running` "defines and starts (or resumes) the domain" | only paused domains are resumed: one that has gone to sleep (pmsuspended) is active, is left as it is, and the item succeeds |
| `DaemonReactivated` | disable stops each unit | the service is stopped before its socket; a client brings it back and the task succeeds |
| `DaemonLogs` | virtlogd and virtlockd are kept in the monolithic model and stay enabled | on a host with both models, disabling virtqemud.service disables virtlogd.socket along with it (`Also=`); libvirtd, enabled already, is not enabled again and does not bring it back |
| `StorageUnlisted` | the refresh is there so that libvirt registers the new volumes | the download task fails on one image, or the play dies before the refresh; the next play finds the files present, skips the refresh and succeeds with the pool not listing them |
| `SeedUnfilled` | the seed module builds an ISO and uploads it | the upload fails or is killed after the volume was made; the next play finds the volume already present, boots the instance with an empty seed and succeeds |

Two of them are the other side of properties that pass, which exempt what they show:
`Converged` and `Converges` take a sleeping domain for a running one (`DomainAsleep`),
and `ModelKept` and `SwitchCompletes` ask nothing of virtlogd and virtlockd in the
monolithic model (`DaemonLogs`).

Other disagreements of code and documentation can be read off the model, and no run
states them:

* The example that removes an instance gives its name and `state: absent` only
  (`libvirt_domain.py:237-241`); `_validate_spec` wants `memory_mb` and `vcpus` of every
  structured spec, whatever its state, so `ValidateSpec` fails it (`form` is `broken`).
* `libvirt_services` is called the single source of truth of the lifecycle, `enabled` and
  `state` (`roles/libvirt/vars/main.yml:19`). In the modular model `ModularTasks` only
  enables the sockets of the drivers: one that says `state: started` is started only when
  its configuration file changed, and one that is turned off in the variables stays
  enabled, as the proxy's tcp and tls sockets do when remote access is turned off.
  `ModelKept` asks only that what should be enabled is.

### Bounds

* `MaxFaults = 1` lets one libvirt or systemd call fail (or one kill happen) at
  any point of any run; several failures in one item are one failure for that
  item, since the first ends it. Reruns are not bounded.
* `MaxMeddle = 1` lets one other actor act at any point; `GuestObeys` is not
  bounded. Every pair "read, then act on it" can be split by one step.
* Two UUIDs are one for the domain and one for a successor of the same name or
  a second domain; two definitions and two MACs are "as asked" and "different".
* Playbooks have one or two items: items share only `host`, unique names and
  the pool of free MACs.
* In `StorageSafety` two pools, paths and images are one that is asked for and
  one that competes for a name or path; one image that is downloaded while the
  other fails is the shortest partial loop.
* In `InstancesSafety` two capacities are enough to grow, to shrink and to be
  equal; `Letters = 1` puts the limit of eight data disks within reach; two pool
  identities are the pool and its replacement.
* `DaemonSwitch` has one daemon of each kind the code tells apart, one socket
  each, and one unit that is not installed. Plays follow each other without bound;
  `MaxTrouble = 1` allows one failure or one step of a client in a behaviour: the
  first failure ends a play, so a second one is the first of another play, on a
  host the first has left, and every such host is also met with the failure still
  to come.
* In `Definitions` the fields of a network are varied in groups that the code does
  not relate to each other (DHCP, vlans, mode); `Letters` has two of the code's
  eight letters, so that three disks are one too many.

### Fairness

`WF(Module)`, `WF(Work)` and `WF(Steps)`: Ansible steps a living process to its end.
`WF(GuestObeys)`: a guest told to shut down does so eventually; without it
`shutdown` can only be a request. `SF(StartRun(FALSE))`, `SF(BeginPlay(FALSE))`,
and `BeginPlay` within `WF(Work)` of `DaemonModel`: the operator keeps running the
playbook, which is how Ansible is used to converge; dry runs may come in between,
hence strong fairness. `SwitchCompletes` speaks of behaviours in which one play is
repeated from some point on. Nothing assumes that a call succeeds: failures end
only because they are bounded.

Deadlock is checked in every run; the operator can always start another.

## 4. What is proved

Every theorem holds for every value of the constants that satisfies the modules'
assumptions: any number of domains, networks, pools, volumes, items, failures and
steps of others. The assumptions are that `None` is none of the values it stands
beside (`NoneAssumption`, `DefineOnceAssumption`, `VolumeAssumption`), that
playbooks, plays and initial hosts have the types the argument specs and libvirt
give them (`PlaybooksAssumption`, `HostsAssumption`, `NetworkAssumption`,
`StorageAssumption`, `InstancesAssumption`, `PlaysAssumption`, and `NetworksAssumption`,
`InstancesAssumption` and `VolumesAssumption` of `Definitions`), that `SocketsOf`,
`Also` and the like relate units (`UnitsAssumption`), that the parts of a name are
separate values and system types and playbooks have a shape (`BuildersAssumption`,
`DefinitionsAssumption`), and that bounds and sizes are naturals (`BoundsAssumption`,
`RunAssumption`, `LimitsAssumption`, `IsoAssumption`). TLC evaluates
them in every run.

Some theorems have a hypothesis of their own, because the property is false without
it: a list that asks twice for different states of one thing changes it in every run.
It stands in the theorem, is defined beside the property, and the MC module of the run
assumes it, so that TLC shows that the run's constants satisfy it (`ListedOnce`,
`PlaysAgree`, `NamesApart`, `UnitsApart`, `TasksApart`, `RestartsReach`).

### libvirt_domain

| Theorem | Says |
|---|---|
| `LibvirtDomainProofs!TypeCorrect` | `Spec => []TypeOK`: besides the types, libvirt's list stays sane whoever edits it (names unique, transient domains active), and there is one result per item |
| `CheckModeInert` | `Spec => CheckInert`: a dry run changes nothing on the host |
| `TouchesOnlyAsked` | `Spec => OnlyAsked`: the module changes only the domain its item names, and persistent domains disappear only for `absent` |
| `LeavesAsAsked` | `Spec => []Converged`: an undisturbed item that succeeds has reached its spec; of `state: running` this is that the domain runs or sleeps |
| `ReportsChanges` | `Spec => []ChangedExact`: it says changed exactly when it changed something |
| `ReportsFacts` | `Spec => []FactsCurrent`: its facts are the domain's when it ends |
| `KeepsMacs` | `Spec => MacsKept`: a redefinition gives an interface without a MAC the one it had |
| `RerunsSilently` | `Distinct => (Spec => []Idempotent)`, where `Distinct` says that a playbook lists each name once |
| `ForetellsRun` | `Distinct => (Spec => []CheckForecast)`: a dry run announces what the next run reports |

`TypeOK` is not inductive and does not imply the rest. The first inductive
invariant is `Inv == TypeOK /\ Control /\ Handles`. `Control` says what has been
decided at each control point: a mutating call is reached only outside
check mode, the removal points only for `absent`, a definition has been read
where it is compared. `Handles` says what the handles name: the UUID in
`loc.existing` or `loc.dom` holds a domain of the item's name, or nothing. That
part is what `OnlyAsked` rests on: names are looked up once, later calls go by
UUID, and other clients may undefine and define in between.

The outcomes need `Inv /\ Outcome`. `Outcome` is about `Own(host)`, the domains of
the item's name, while the item is undisturbed: at each control point it says
which parts of the spec the domain already shows (`Defined` after the definition,
`Flagged` after autostart, `InRunState` after the run state was driven), that
`touched` and `loc.changed` agree, and that the facts read so far are the
domain's. One lemma per action takes it to the next control point; a step of
another client either disturbs the item or leaves `Own(host)` alone
(`EnvironmentElsewhere`).

The last two theorems relate two runs. For `RerunsSilently` the invariant says of the
first run that every item it has dealt with has left its domain as asked, and of the
second that it finds it so: at each control point of an item that starts that way
nothing is left to be done (`RestingStep`). A domain that was asked to shut down and has
not obeyed yet is asked again, and reported as changed again; `Idempotent` exempts
`shutdown`. For `ForetellsRun` the account of the
dry run is kept item by item: what it has announced (`forecast`) belongs to the domain as
it was then, and until the real run comes to the item nobody has touched that domain,
since the dry run touches nothing and earlier items have other names. The real run then
takes, call by call, the branches from which the dry run has told.

### libvirt_network, libvirt_pool and the storage roles

| Theorem | Says |
|---|---|
| `LibvirtNetworkProofs!TypeCorrect` | `NetworkSpec => []TypeOK` |
| `CheckModeInert` | `NetworkSpec => CheckInert` |
| `KeepsPromise` | `NetworkSpec => Promised`: `libvirt_network` implements `Reconciler` |
| `RerunsSilently` | `Distinct => (NetworkSpec => []Idempotent)`, where `Distinct` says that a playbook lists each network once |
| `StorageRolesProofs!TypeCorrect` | `RolesSpec => []TypeOK`, in it that libvirt lists only volumes that are files in the directory of an active pool |
| `CheckModeInert` | `RolesSpec => CheckInert`: neither libvirt nor the file system nor what is registered |
| `KeepsPromise` | `RolesSpec => Promised`: every `libvirt_pool` task of the two roles' plays implements `Reconciler` |
| `ListsImages` | `RolesSpec => []ImagesListed`: after a `base_images` play libvirt lists the images |
| `RerunsSilently` | `Agreeing => (RolesSpec => []PlayIdempotent)`, where `Agreeing` says that a play asks for each pool in one way only |

`DefineOnceProofs` sorts the steps of a module into three shapes: `Quiet` steps
read, `Changing` steps move the item's resource one level towards what is asked,
`Ends` writes the entry. Each shape is shown once to be a step of `Reconciler`
under the refinement mapping, or a stutter. It then shows that every
action has one of the shapes and leads to a place where `Here` holds again.
`Here(p, l, h, m)` is the inductive invariant of an item in work: which items and
runs reach the call (`Placed`), that the handle in the locals is to a resource of
the item's name (`Held`), and what the locals remember of whether something has
been moved (`Recorded`). Around it, `LibvirtNetworkProofs` has the loop.

Two more facts about an item are shown once for pools and networks. An item whose
resource is as its spec asks is at rest: at no call has it anything to do, and it ends
without having changed anything (`RestsAt`, `RestingStep`). An item that nobody
disturbs comes nearer: at each call the part of the spec that lies behind it is met,
and if it does not fail, all of it (`NearsAt`, `NearingStep`). Neither takes from
another resource what its own spec asks (`OthersMet`). `Silent` in the two modules of
theorems puts this together over a run or a play: everything that is behind is met,
so that the second time every item rests. In a play the tasks share the pools:
`base_images` asks for the pool twice, and the second item starts from what the first
has met (`Behind`, `Repeats`).
`StorageRolesProofs` adds `Rooted`, that an active pool has its directory (the
other half of why `Listing` holds: starting and refreshing read it), and
`Running`, that the items in work are those of the play's current task. `ListsImages`
rests on an account of the images (`Seen`, `Pending`, `Found`): each one that is in the
directory of the active image pool is listed, or was left by an earlier play, or has been
downloaded by a play whose refresh is still to come. That needs the path registered by the
first task to be the one of the pool that is refreshed, whoever is at work meanwhile.

### instances

| Theorem | Says |
|---|---|
| `InstancesProofs!TypeCorrect` | `InstancesSpec => []TypeOK` |
| `EntriesExact` | `InstancesSpec => []EntryExact`: a volume or seed item that does not fail reports exactly what it did and has left its volume as asked |
| `KeepsGuestData` | `InstancesSpec => GuestDataKept`: what a guest has written is lost only where a task says absent |
| `BootsWithSeed` | `Apart => (InstancesSpec => FirstBoot)`: a guest that cloud-init configures for the first time boots from an image and a complete seed, unless making or removing one was cut short; `Apart` says that an instance keeps its disks, that no seed is another kind of volume, and that what boots is cloned from an image no play makes or wipes |
| `RerunsSilently` | `Agreeing => (InstancesSpec => []PlayIdempotent)`, where `Agreeing` says that a play asks for each volume in one way only and clones from no source larger than the clone |

`Inv` has the parts of `Here` again, `Placed` and `Recorded`, and `Met`: what of
the item's volume has been achieved at a call, undisturbed. Steps have one of four
shapes, `Quiet`, `Writes`, `Ends` and `Breaks` (a write that fails half-way and
ends the play). `GuestDataKept` needs of a write only where it stands: creating
finds nothing, resizing never shrinks, and wiping and deleting are reached only
for `absent`. That the plays' tasks are of the right types is itself a lemma
(`PlaysSound`), since they are computed from the instances by the filters.

`BootsWithSeed` rests on `Stocked`, an account of what each volume holds: unless it is
in `cutShort` or its writing is underway, a seed is full, and an operating system disk
or an image is not blank. The writing of a seed takes three calls, and a clone takes its
content from a volume that some other play may have left; both are why names have to be
kept apart. `RerunsSilently` rests on `Silent`, the account of a play: every item of the
tasks behind the current one, and every earlier item of this one, has its volume as
asked, at the capacity asked for (`Behind`, `Sized`), and in the second play an item that
starts that way ends without a change (`RestingStays`). `EndsMet` and `TurnKeeps` say
that an item reaches that state itself and takes it from no other item's volume.

### Definitions

| Theorem | Says |
|---|---|
| `DefinitionsProofs!TypeCorrect` | `Spec => []TypeOK`: nothing ill-formed reaches libvirt |
| `CarriesVlans` | `Spec => []VlansCarried`: port groups arrive with their ids, all of them |
| `CarriesDhcp` | `Spec => []DhcpCarried`: a network serves the range asked for or is not there |
| `CarriesForwarders` | `Spec => []ForwardersCarried`: a network forwards DNS to exactly the servers that were given, and to none if it serves no DHCP |
| `SharesNoDisk` | `Spec => []OwnVolumes`: instances share no disk unless one's name continues the other's |
| `MakesDisks` | `DisjointBases => (Spec => []DisksMade)`: every disk of a domain was made, in the format qemu is told; `DisjointBases` says that no base image has the name of an instance's file |

Lists, names and ids are of any length here. `Built` is the part of the invariant
that all but the last need: whatever libvirt has was built from an argument the argument
spec accepted, and that from an item of a play by the filter, so a statement about
filter, argument spec and builder is enough. The lemmas about these (a trunk's ids
survive `list()` and the builder's count; the names of disks of two instances have no
common beginning; a target belongs to one disk) say nothing of steps. `MakesDisks` is
about the order of tasks: `Placed` says which task is current and that all before it
in the play have succeeded, `Progress` that the volumes and the seed behind it exist in the
format their names tell. A name that ends like a seed's but is a volume's cannot
arise, since a file's name keeps the ending of its kind.

### The libvirt role

| Theorem | Says |
|---|---|
| `DaemonModelProofs!TypeCorrect` | `Spec => []TypeOK` |
| `ReportsChanges` | `Spec => []TaskChangedExact`: an undisturbed unit task that succeeds says changed exactly when a unit file or a unit's state differs from before |
| `LeavesAsAsked` | `Spec => []TaskApplied`: it leaves every unit it lists as asked |
| `LoadsConfig` | `Restartable => (Spec => []ConfigLoaded)`, where `Restartable` says that settings that configure a daemon agree on whether its socket is managed, and that a modular daemon stops with its socket |
| `RerunsSilently` | `ModelsApart /\ PlaysApart => (Spec => []PlayIdempotent)`, where `ModelsApart` says that the units which systemd enables, disables or starts along with a unit belong to the same daemon model (lock's and log's may go with libvirtd's), and `PlaysApart` that no operator's play asks opposite things of a unit |
| `KeepsModel` | `ModelsApart /\ PlaysApart => (Spec => []ModelKept)` |

The first three hold for any units and any `Also`, `SocketsOf` and `Bound`, and that is the
point: a task reads the state of all its units once, and enabling, disabling,
starting or stopping one of them may change the others behind that reading. The
argument is that each operation moves unit files and states one way only. `Moved`
says in which ways `file` and `run` may differ from `before`, the host at the
start of the task; no such move turns a unit that is as asked into one that is not
(`Onward`), so the units done stay done (`Reached`), and a unit acted on by an old
reading (`StatusIsOld`) differs from `before` afterwards (`Acting`). The exception is
a masked unit listed twice, which its second turn first unmasks to disabled: hence
the last disjunct of `Reached`. For the types, `Stage` says that a notified handler
has a flush ahead of it, so that no play ends with one pending.

`LoadsConfig` rests on `Fresh`: a managed daemon that runs with its file rendered has
read it, or its restart is notified, or a failed play has given it up (`lost`). A client
that starts a daemon does no harm, since it starts with the file that is there; a
handler does, if the daemon outlives the restart of its socket, which is why
`Restartable` asks that it does not.

The other two are about whole plays. What a task asks of a unit (`AskedOn`, `AskedOff`,
`AskedUp`, `AskedDown`) and what it may do to one, systemd's share included (`Enables`,
`Disables`, `Starts`, `Stops`), are definitions over the constants, and `Leaves` says
that the second never contradicts the first. `Lasting`, which is that for the tasks of
one play, and `Shared`, for those of the libvirt role and of a dependent role, follow from
`ModelsApart` and `PlaysApart` (`LastingHolds`, `SharedHolds`): the lists of the modular
filters name no unit of libvirtd, and `modular_daemons_off` none that libvirtd needs
(`NamesListed`), in either model only the first task disables units, those of the other
model, and the remote sockets of libvirtd do not take each other along. That the
filters' lists are so for any dictionary of services is shown in `RoleFilterProofs`.
`TaskTouches` and `HandlerTouches` show that no step does
more to units than its task may (`TouchesFiles`, `TouchesRuns`), so that what one task
has asked stays `Met` while the next ones work. `Behind` says so of the tasks before the
current one; at the end of an undisturbed play they are all met, and a play that repeats
it finds them met and changes nothing (`Rested`). Enabling may disable in between, when it
unmasks; hence `WereUnmasked`. `Keeping` carries the same through the dependent roles'
plays, which come to units of the same daemon model because the fact they read is the
one the play has published.

### The filters

| Theorem | Says |
|---|---|
| `RoleFilterProofs!SwitchesEveryUnit` | for any list of services, a unit that `modular_sockets` or `modular_services` lists is also listed by `modular_daemons_off`, or is one of lock or log; the proxy's units as well, if the list has the proxy |

It is a theorem of the operators alone, without a behaviour: no unit of the modular model
is left over when a host is made monolithic. The filters build their lists in loops, written
with `FlattenSeq`, which is a recursive function. Induction over such a function is
done by its least counterexample: `<` is well-founded on the naturals (a fact of the
library), so a set of numbers at which a statement fails has a least element, and that
one is refuted (`LeastNumber`, `Inductive`). `Flattened` says from this what `FlattenSeq` returns,
and one lemma per filter what it lists. `AddressesKept`, the same of the DNS servers, is what
`CarriesForwarders` rests on.

### What the proofs changed

Four places were wrong for constants that no run has, and turned up because an
obligation could not be proved: a seed item of `Definitions` that fails could leave a
volume the builder had refused; `orphaned` of `StorageRoles` took an image for listed
when another pool than the image pool lists a file of that name; a
restart handler of `DaemonModel` succeeded for a unit that is missing or masked, and the
one that waits for libvirtd where none is installed (`Possible`); and no assumption of
`LibvirtDomain` kept `None` apart from the playbooks, of which `settled` is one or `None`.

A fifth was wrong of the runs' constants too, without consequences that a property could see:
restarting a socket stopped the services bound to it, where systemd restarts those that run.
The proof that no handler undoes an earlier task stumbled over it: a play starts the proxy,
and the handler of the proxy's socket would have stopped it again.

What the proofs needed otherwise: the filters are written with `FlattenSeq` instead of
`SelectSeq`, about whose local recursion nothing can be stated. `PlaysAssumption` used to
assume that the filters return lists; it now assumes that of the role's variable only.

### Only model-checked

* Liveness (`Converges` of domains and of networks, `Completes` of the storage roles and
  of instances, `SwitchCompletes`): it is beyond the prover together with ENABLED.

All invariants and action properties of the passing runs are proved. What a run adds to a theorem with a
hypothesis of its own is that the hypothesis holds of units, settings and plays like the
repository's.

## 5. What is not modelled

* `libvirt_domain`: `virsh domrename` (a handle's name is fixed in the model),
  definitions whose inactive XML libvirt rewrites on its own, the content of a
  definition beyond one value. `touched` does not count a transient domain that
  becomes persistent, which the compared XML does not show. `CheckForecast` is
  about playbooks that name a domain once.
* systemd: `Conflicts=` between libvirtd and the driver daemons (not in the
  repository), job queues.
* Pools and networks: redefinition (the modules document that they never do it,
  so a changed spec is ignored), a failed `build` (documented too: "Existing pools
  are never rebuilt"; the rerun finds a pool it will not build, and `Completes`
  asks of a building spec no more than that the pool is there), a pool somebody
  else defined on a directory that does not exist. Of `base_images`, an image that is
  present but fails its checksum and is downloaded again.
* Of `instances`, `prepare.yml`: it reads `lscpu` and would stop a play on a host
  without virtualisation, but its `ternary` only yields `kvm` or `qemu`, so the
  task that fails with "Please enable VT" never runs.
* Volumes: more than one pool in a task, allocation and formats, encryption. That
  a second run fails after a clone whose source is larger than asked, or after a
  request smaller than the volume, follows from `Resize`; `Completes` excuses both.
  Pool and domain tasks are atomic in `Instances`; `StorageRoles` and
  `LibvirtDomain` have their interleavings. An edit that another client makes
  between the two `XMLDesc` calls of `_define` is undone without being reported;
  `ChangedExact` excuses it.
* The text of XML documents and configuration files, the regular expression of
  `libvirtd_version.py`, and the test scaffolding: text or pure I/O.

## 6. Plan

Open is an abstract reconciler of volumes, which `Instances` would implement as pools and
networks implement `Reconciler`, and volumes in several pools. `LibvirtDomain` does not
implement `Reconciler`, and is not meant to: where another client interferes,
`CompareDefinition` may call a definition changed that the module has not changed, while
`Reconciler` asks for an exact answer whoever is at work; and a transient domain that
becomes persistent is not a change in the XML that the module compares. What `Reconciler`
promises is stated and proved of domains with these exceptions: `Converged`,
`ChangedExact`, `OnlyAsked` and `CheckInert`.
