------------------------------ MODULE Instances ------------------------------
(***************************************************************************)
(* The instances role: after the pool, and for one instance after another, *)
(* a libvirt_volume task for its disks, a libvirt_cloud_init_iso task for  *)
(* its seed, and a libvirt_domain task.  A failed task ends the play; the  *)
(* operator runs it again, among plays of his own that manage volumes.     *)
(* Pool and domain tasks are one step each: what StorageRoles and          *)
(* LibvirtDomain have in many, with their failures.                        *)
(***************************************************************************)
EXTENDS CloudInitIso

CONSTANTS
  Names,      \* domain names
  VMs,        \* values of the variable instances: lists of instances
  UserPlays,  \* other plays, of one volume or seed task each
  Letters,    \* number of instances_data_disk_letters
  InitVols,   \* volumes a behaviour may start from
  InitPools   \* pools a behaviour may start from

VARIABLES
  dom,        \* the domains: "missing", "off" or "on"
  configured, \* whether the first boot of an instance found a complete seed and a disk
              \* with an image
  play, t, outcome, quiet, settled,
  cutShort    \* volumes whose making or removal was cut short and left no contents

States == {"running", "defined", "shutdown", "paused", "destroyed"}

Instance == [name: Names, os: VolNames, base: VolNames, cap: Caps, state: States,
             seed: VolNames, data: Seq([vol: VolNames, cap: Caps])]

\* A task of an operator's own play.
UserTasks ==
  [op: {"volumes"}, specs: Seq(VolumeSpecs) \ {<<>>}, vm: {None}]
  \cup [op: {"iso"}, specs: Seq(IsoSpecs) \ {<<>>}, vm: {None}]

ASSUME InstancesAssumption ==
  /\ \A list \in VMs : list \in Seq(Instance)
  /\ \A p \in UserPlays : p \in Seq(UserTasks)
  /\ Letters \in Nat
  /\ InitVols \subseteq [VolNames -> Maybe(Volume)] /\ InitPools \subseteq Maybe(Pool)

roles == <<dom, configured, play, t, outcome, quiet, settled, cutShort>>
vars == <<pc, items, i, check, entries, faults, meddle, vols, pool, cache, changed,
          alone, moved, dom, configured, play, t, outcome, quiet, settled, cutShort>>

-----------------------------------------------------------------------------
(* The filters and the tasks of a play *)

VolumeSpec(name, cap, clone) ==
  [name |-> name, state |-> "present", cap |-> cap, form |-> "good",
   clone |-> clone, resize |-> TRUE, wipe |-> FALSE]

\* The disk cloned from the base image, then the empty ones.
instance_volumes(vm) ==
  <<VolumeSpec(vm.os, vm.cap, vm.base)>> \o
  [k \in DOMAIN vm.data |-> VolumeSpec(vm.data[k].vol, vm.data[k].cap, None)]

\* The volumes a domain is given; a disk too many has no letter.
instance_disks(vm) == {vm.os, vm.seed} \cup {vm.data[k].vol : k \in DOMAIN vm.data}
Lettered(vm) == Len(vm.data) <= Letters

Task(op, specs, vm) == [op |-> op, specs |-> specs, vm |-> vm]

Seed(vm) == <<[name |-> vm.seed, state |-> "present", form |-> "good"]>>

\* Faulty variant: the domain is started before its seed is made.
InstanceTasksSeedLast(vm) ==
  <<Task("volumes", instance_volumes(vm), vm), Task("domain", <<>>, vm),
    Task("iso", Seed(vm), vm)>>

\* roles/instances/tasks/instance.yml
InstanceTasks(vm) ==
  <<Task("volumes", instance_volumes(vm), vm), Task("iso", Seed(vm), vm),
    Task("domain", <<>>, vm)>>

\* roles/instances/tasks/main.yml, three tasks an instance
InstancesPlay(list) ==
  <<Task("pool", <<>>, None)>> \o
  [k \in 1..(3 * Len(list)) |->
     InstanceTasks(list[((k - 1) \div 3) + 1])[((k - 1) % 3) + 1]]

Plays == {InstancesPlay(list) : list \in VMs} \cup UserPlays

AllVMs == UNION {{list[k] : k \in DOMAIN list} : list \in VMs}
VmOf(n) == CHOOSE vm \in AllVMs : vm.name = n
Locked == UNION {instance_disks(vm) : vm \in {v \in AllVMs : dom[v.name] = "on"}}

-----------------------------------------------------------------------------

\* The volume whose item ends here with an error, made or wiped but not filled or deleted.
NotesCutShort ==
  LET v == vols'[Item.name]
      now == IF /\ pc \in {"upload", "send", "finish", "delete"} /\ pc' \in {"next", "idle"}
                /\ v # None /\ v.data \in {"blank", "part"}
             THEN {Item.name} ELSE {}
  IN  cutShort' = {n \in cutShort \cup now : vols'[n] # None}

BeginPlay(c) ==
  /\ pc = "idle" /\ pc' = "task"
  /\ play' \in Plays /\ t' = 1
  /\ check' = c
  /\ outcome' = "none" /\ quiet' = TRUE
  /\ settled' = (settled /\ play' = play)
  /\ UNCHANGED <<vols, pool, dom, configured, cache, changed, alone, moved,
                 items, i, entries, bounds, cutShort>>

EndPlayWith(result) ==
  /\ pc' = "idle" /\ outcome' = result
  /\ items' = <<>> /\ i' = 0 /\ check' = FALSE /\ entries' = <<>>
  /\ cache' = None /\ changed' = FALSE /\ alone' = TRUE /\ moved' = FALSE
  /\ settled' = IF check /\ result = "ok" THEN settled ELSE result = "ok" /\ quiet
  /\ UNCHANGED <<play, t, quiet>>

\* The controller dies.
Kill ==
  /\ pc # "idle" /\ Fault /\ EndPlayWith("failed")
  /\ UNCHANGED <<vols, pool, dom, configured>>
  /\ NotesCutShort

At(op) == pc = "task" /\ t <= Len(play) /\ play[t].op = op

NextTask ==
  /\ pc' = "task" /\ t' = t + 1
  /\ UNCHANGED <<items, i, check, entries, cache, changed, alone, moved,
                 play, outcome, quiet, settled>>

\* "ensure storage pool is active and read its path"
PoolTask ==
  /\ At("pool")
  /\ UNCHANGED <<vols, dom, configured, cutShort>>
  /\ \/ /\ pool # None
        /\ pool' = [pool EXCEPT !.active = @ \/ ~check]
        /\ NextTask /\ UNCHANGED bounds
     \/ /\ IF pool = None THEN UNCHANGED <<pool, bounds>>
           ELSE Fault /\ pool' \in {pool, [pool EXCEPT !.active = @ \/ ~check]}
        /\ EndPlayWith("failed")

BeginTask == (At("volumes") \/ At("iso")) /\ BeginRun(play[t].specs, check) /\ UNCHANGED roles

EndTask ==
  /\ Finishing
  /\ UNCHANGED <<vols, pool, dom, configured, cutShort, bounds>>
  /\ IF AllOk THEN NextTask ELSE EndPlayWith("failed")

\* What a state makes of a domain; paused leaves one that is not running alone.
Driven(vm, d) ==
  CASE vm.state = "running"   -> {"on"}
    [] vm.state = "destroyed" -> {"off"}
    [] vm.state = "shutdown"  -> {"off", d} \ {"missing"}
    [] OTHER                  -> IF d = "missing" THEN {"off"} ELSE {d}

Startable(vm) == \A n \in instance_disks(vm) : Has(n)

\* The domain is d from now on.  cloud-init reads the seed at the first boot; a guest
\* writes to its other disks.
Becomes(vm, d) ==
  LET starts == d = "on" /\ dom[vm.name] # "on"
  IN  /\ starts => Startable(vm)
      /\ dom' = [dom EXCEPT ![vm.name] = d]
      /\ configured' = IF starts /\ configured[vm.name] = "never"
                       THEN [configured EXCEPT ![vm.name] =
                               IF vols[vm.seed].data = "full" /\ vols[vm.os].data # "blank"
                               THEN "yes" ELSE "no"]
                       ELSE configured
      /\ vols' = [n \in VolNames |->
                    IF starts /\ n \in instance_disks(vm) \ {vm.seed}
                    THEN [vols[n] EXCEPT !.data = "guest"] ELSE vols[n]]

\* "define and reconcile instance", or as far as it gets.
DomainTask ==
  LET vm == play[t].vm
      d  == dom[vm.name]
      can == /\ Lettered(vm)
             /\ vm.state = "running" => d = "on" \/ Startable(vm)
  IN  /\ At("domain")
      /\ UNCHANGED <<pool, cutShort>>
      /\ \/ /\ check /\ Lettered(vm)
            /\ NextTask /\ UNCHANGED <<vols, dom, configured, bounds>>
         \/ /\ ~check /\ can
            /\ \E to \in Driven(vm, d) : Becomes(vm, to)
            /\ NextTask /\ UNCHANGED bounds
         \/ /\ Lettered(vm) /\ ~check
            /\ \E to \in {d, IF d = "missing" THEN "off" ELSE d} \cup Driven(vm, d) :
                 Becomes(vm, to)
            /\ IF can THEN Fault ELSE UNCHANGED bounds
            /\ EndPlayWith("failed")
         \/ /\ ~Lettered(vm) /\ EndPlayWith("failed")
            /\ UNCHANGED <<vols, dom, configured, bounds>>

EndPlay ==
  /\ pc = "task" /\ t > Len(play)
  /\ EndPlayWith("ok")
  /\ UNCHANGED <<vols, pool, dom, configured, cutShort, bounds>>

-----------------------------------------------------------------------------
(* Guests and other clients *)

Outside ==
  /\ meddle < MaxMeddle /\ meddle' = meddle + 1
  /\ quiet' = FALSE /\ settled' = FALSE
  /\ UNCHANGED <<pc, items, i, check, entries, faults, cache, changed, moved, configured,
                 play, t, outcome>>

\* The pool is stopped, started, or defined anew on the same directory.
ClientMovesPool ==
  /\ Outside /\ pool # None
  /\ pool' \in Pool \ {pool}
  /\ pool'.id # pool.id => pool'.active
  /\ UNCHANGED <<vols, dom, alone, cutShort>>

ClientDeletes(n) ==
  /\ Outside /\ VolumeUp(n)
  /\ vols' = [vols EXCEPT ![n] = None]
  /\ alone' = (alone /\ ~((Busy \/ pc = "next") /\ Item.name = n))
  /\ cutShort' = cutShort \ {n}
  /\ UNCHANGED <<pool, dom>>

GuestStops(n) ==
  /\ Outside /\ dom[n] = "on"
  /\ dom' = [dom EXCEPT ![n] = "off"]
  /\ UNCHANGED <<vols, pool, alone, cutShort>>

-----------------------------------------------------------------------------

Init ==
  /\ vols \in InitVols /\ pool \in InitPools
  /\ pc = "idle" /\ items = <<>> /\ i = 0 /\ check = FALSE /\ entries = <<>>
  /\ faults = 0 /\ meddle = 0 /\ cache = None /\ changed = FALSE
  /\ alone = TRUE /\ moved = FALSE
  /\ dom = [n \in Names |-> "missing"] /\ configured = [n \in Names |-> "never"]
  /\ play = <<>> /\ t = 1 /\ outcome = "none" /\ quiet = FALSE /\ settled = FALSE
  /\ cutShort = {}

ModuleSteps ==
  /\ \/ Busy /\ play[t].op = "volumes" /\ ReconcileVolume(Locked)
     \/ Busy /\ play[t].op = "iso" /\ ReconcileIso
     \/ NextItem
  /\ NotesCutShort
  /\ UNCHANGED <<dom, configured, play, t, outcome, quiet, settled>>

Steps == ModuleSteps \/ PoolTask \/ BeginTask \/ EndTask \/ DomainTask \/ EndPlay

Clients ==
  ClientMovesPool \/ (\E n \in VolNames : ClientDeletes(n)) \/ (\E n \in Names : GuestStops(n))

Next == Steps \/ (\E c \in BOOLEAN : BeginPlay(c)) \/ Kill \/ Clients

InstancesSpec == Init /\ [][Next]_vars

\* Ansible steps its tasks, and the operator keeps running plays for real.
Fairness == WF_vars(Steps) /\ SF_vars(BeginPlay(FALSE))

FairSpec == InstancesSpec /\ Fairness

-----------------------------------------------------------------------------
(* Properties *)

\* Types, one entry per item, no run on without a pool handle, a running instance
\* has booted, and a volume that was cut short still exists.
TypeOK ==
  /\ VolumeTypes
  /\ dom \in [Names -> {"missing", "off", "on"}]
  /\ configured \in [Names -> {"never", "yes", "no"}]
  /\ \A n \in Names : dom[n] = "on" => configured[n] # "never"
  /\ play \in Plays \cup {<<>>} /\ t \in 1..(Len(play) + 1)
  /\ outcome \in {"none", "ok", "failed"} /\ quiet \in BOOLEAN /\ settled \in BOOLEAN
  /\ cutShort \subseteq {n \in VolNames : vols[n] # None}

\* Whether the volume in hand is what its item asks for.
Reached ==
  IF Item.state = "absent" THEN ~Has(Item.name)
  ELSE /\ Has(Item.name)
       /\ play[t].op = "volumes" /\ Item.resize => vols[Item.name].cap >= Item.cap

\* An item that does not fail reports changed exactly when it did something, or would
\* in check mode, where it does nothing; unless somebody else interferes, a volume is
\* then as asked, and a seed reported as created is complete
\* (libvirt_volume.py:228-307, libvirt_cloud_init_iso.py:194-243).
EntryExact ==
  pc = "next" /\ ~entries[i].failed =>
    /\ IF check THEN ~moved ELSE entries[i].changed = moved
    /\ alone /\ ~(check /\ entries[i].changed) => Reached
    /\ alone /\ ~check /\ entries[i].changed /\ play[t].op = "iso" /\ Item.state = "present"
       => vols[Item.name].data = "full"

\* What guests have written is lost only where a playbook says absent, in a real run
\* and to the volume it names; no disk is recreated, recloned or shrunk
\* (libvirt_volume.py:240-245, 275-288).
GuestDataKept ==
  [][Steps => \A n \in VolNames :
       Has(n) /\ vols[n].data = "guest" =>
         \/ vols'[n] # None /\ vols'[n].data = "guest" /\ vols'[n].cap >= vols[n].cap
         \/ Busy /\ ~check /\ Item.name = n /\ Item.state = "absent"]_vars

\* An instance that the role boots for the first time finds a complete seed and an OS
\* disk with its image on it, except where the making or the removal of one of them was
\* cut short (roles/instances/tasks/instance.yml:28-93).
FirstBoot ==
  [][\A n \in Names : configured'[n] = "no" /\ configured[n] # "no" =>
       {VmOf(n).seed, VmOf(n).os} \cap cutShort # {}]_vars

\* The volumes and seeds that plays ask for, and those they make.
Asks(op) ==
  UNION {UNION {{p[k].specs[n] : n \in 1..Len(p[k].specs)} :
                k \in {k \in 1..Len(p) : p[k].op = op}} : p \in Plays}
Makes(op) == {s \in Asks(op) : s.state = "present" /\ s.form = "good"}

Seeds == {vm.seed : vm \in AllVMs}
OsDisks == {vm.os : vm \in AllVMs}
Images == {s.clone : s \in {s \in Makes("volumes") : s.name \in OsDisks}}

\* Names are kept apart: an instance keeps its disks; no seed is another kind of volume;
\* what boots is made by cloning an image, and no play makes or wipes one of those.
Apart ==
  /\ \A v, w \in AllVMs :
       /\ v.name = w.name => v.seed = w.seed /\ v.os = w.os
       /\ v.seed \notin instance_disks(w) \ {w.seed}
  /\ None \notin Images
  /\ \A s \in Makes("volumes") : s.name \notin Seeds \cup Images
  /\ \A s \in Makes("iso") : s.name \notin OsDisks \cup Images
  /\ \A s \in Asks("volumes") : s.state = "absent" /\ s.wipe => s.name \notin Images
  /\ \A f \in InitVols : \A n \in VolNames : f[n] # None =>
       /\ n \in Seeds => f[n].data = "full"
       /\ n \in OsDisks \cup Images => f[n].data # "blank"

\* A play that succeeds right after it succeeded reports no change
\* (libvirt_volume.py:280-286).
PlayIdempotent == settled /\ pc = "next" => ~entries[i].changed

\* A play that names a volume twice asks for the same, and a clone has the capacity that
\* is asked for: its source is no larger, and no play makes it another.
Agreeing ==
  /\ \A p \in Plays : \A k, l \in 1..Len(p) :
       \A m \in 1..Len(p[k].specs), n \in 1..Len(p[l].specs) :
         LET one   == p[k].specs[m]
             other == p[l].specs[n]
         IN  one.name = other.name =>
               /\ one.state = other.state
               /\ p[k].op = "volumes" /\ p[l].op = "volumes" /\ one.resize /\ other.resize =>
                    one.cap = other.cap
  /\ \A s \in Makes("volumes") : s.clone # None /\ s.resize =>
       /\ \A m \in Makes("volumes") \cup Makes("iso") : m.name # s.clone
       /\ \A f \in InitVols : f[s.clone] # None => f[s.clone].cap <= s.cap

\* libvirt can do what a volume spec asks of it.
FeasibleVolume(s) ==
  IF Has(s.name) THEN s.state = "absent" \/ ~s.resize \/ vols[s.name].cap = s.cap
                      \/ (vols[s.name].cap < s.cap /\ s.name \notin Locked)
  ELSE s.state = "absent" \/ (s.form = "good" /\ (s.clone = None \/ Has(s.clone)))

Feasible(op, s) ==
  IF op = "volumes" THEN FeasibleVolume(s) ELSE s.state = "absent" \/ s.form = "good"

FeasibleVm(vm) ==
  /\ Lettered(vm)
  /\ \A k \in 1..(Len(vm.data) + 1) : FeasibleVolume(instance_volumes(vm)[k])

There(vm) ==
  /\ Startable(vm)
  /\ vm.state = "running" => dom[vm.name] = "on"
  /\ vm.state = "destroyed" => dom[vm.name] = "off"
  /\ dom[vm.name] # "missing"

\* Whatever fails, is killed or taken away half-way, re-running the role brings up every
\* instance up to the first one that libvirt must refuse, and re-running a volume or seed
\* task every volume, a bad spec before it or not.
Completes ==
  /\ \A list \in VMs :
       <>[](play = InstancesPlay(list) /\ pool # None) =>
         <>[](\A k \in DOMAIN list : (\A j \in 1..k : FeasibleVm(list[j])) => There(list[k]))
  /\ \A p \in UserPlays :
       <>[](play = p /\ pool # None /\ pool.active) =>
         <>[](\A k \in DOMAIN p[1].specs :
                LET s == p[1].specs[k]
                IN  Feasible(p[1].op, s) => (Has(s.name) <=> s.state = "present"))

\* "Builds a NoCloud / CIDATA seed ISO ... and uploads it as a storage volume into a
\* libvirt pool." (libvirt_cloud_init_iso.py:33-34): after a play that succeeds, every
\* seed is complete.
SeedsUploaded ==
  \A list \in VMs :
    pc = "idle" /\ settled /\ play = InstancesPlay(list) =>
      \A k \in DOMAIN list : Has(list[k].seed) => vols[list[k].seed].data = "full"
=============================================================================
