---------------------------- MODULE StorageRoles ----------------------------
(***************************************************************************)
(* The roles storage_pool and base_images: plays made of libvirt_pool      *)
(* tasks, of the task that creates the target directories, and of the      *)
(* download that a refresh follows when it changed anything.  A failed     *)
(* task ends the play and forgets what was registered; the operator runs   *)
(* the play again.                                                         *)
(***************************************************************************)
EXTENDS LibvirtPool

CONSTANTS
  StoragePools,  \* the variable storage_pools
  ImagePool,     \* base_images_libvirt.pool
  BaseImages,    \* destinations of the variable base_images
  InitHosts,     \* pools a behaviour may start from
  UserPlays,     \* other plays that use libvirt_pool
  InitDisks      \* file systems a behaviour may start from

VARIABLES play, t, poolPath, downloaded, outcome, quiet, settled, orphaned

ASSUME StorageAssumption ==
  /\ ImagePool \in Names /\ BaseImages \subseteq Images
  /\ StoragePools \in Seq(PoolSpecs) /\ StoragePools # <<>>
  /\ \A p \in UserPlays : p \in Seq([op: {"pools"}, specs: Seq(PoolSpecs) \ {<<>>}])
  /\ InitDisks \subseteq Disks /\ \A h \in InitHosts : SaneHost(h)
  /\ \A F \in SUBSET Images : F # None

roles == <<play, t, poolPath, downloaded, outcome, quiet, settled, orphaned>>
process == <<items, i, check, loc, entries, alone, moved>>
vars == <<host, pc, items, i, check, loc, entries, faults, meddle, alone, moved,
          disk, known, play, t, poolPath, downloaded, outcome, quiet, settled,
          orphaned>>

Task(op, specs) == [op |-> op, specs |-> specs]

Ask(state, refresh) ==
  [name |-> ImagePool, state |-> state, form |-> "good", cfg |-> None,
   uuid |-> None, autostart |-> None, build |-> FALSE, refresh |-> refresh]

\* roles/storage_pool/tasks/configure.yml
StoragePlay == <<Task("mkdir", StoragePools), Task("pools", StoragePools)>>

\* roles/base_images/tasks/configure.yml
ImagesPlay ==
  <<Task("path", <<Ask("active", FALSE)>>), Task("download", <<>>),
    Task("refresh", <<Ask("active", TRUE)>>)>>

Plays == {StoragePlay, ImagesPlay} \cup UserPlays

\* The directories the role creates: of pools that have a path and should exist.
TargetDirs ==
  {StoragePools[k].cfg : k \in {j \in DOMAIN StoragePools :
     StoragePools[j].cfg # None /\ StoragePools[j].state # "absent"}}

\* Images in the directory of the active pool that libvirt has not listed there.
Unseen == {f \in BaseImages :
             \E u \in Named(ImagePool) : host[u].active /\ f \in disk[DirOf(u)] \ known[u]}

-----------------------------------------------------------------------------

BeginPlay(c) ==
  /\ pc = "idle" /\ pc' = "task"
  /\ play' \in Plays /\ t' = 1
  /\ check' = c
  /\ outcome' = "none" /\ quiet' = TRUE
  /\ settled' = (settled /\ play' = play)
  /\ UNCHANGED <<host, items, i, loc, entries, alone, moved, bounds, poolPath,
                 downloaded, orphaned>>
  /\ Plain

\* The play ends, and what its tasks registered is gone.
EndPlayWith(result) ==
  /\ host' = host /\ Registers({})
  /\ pc' = "idle" /\ outcome' = IF check /\ result = "ok" THEN "dry" ELSE result
  /\ items' = <<>> /\ i' = 0 /\ check' = FALSE /\ loc' = NoLocals /\ entries' = <<>>
  /\ alone' = TRUE /\ moved' = FALSE
  /\ poolPath' = None /\ downloaded' = FALSE
  /\ settled' = IF check /\ result = "ok" THEN settled ELSE result = "ok" /\ quiet
  /\ orphaned' = IF result = "ok" THEN orphaned \cap Unseen' ELSE orphaned \cup Unseen'
  /\ UNCHANGED <<play, t, quiet>>

\* The controller dies.
Kill == pc # "idle" /\ Fault /\ UNCHANGED disk /\ EndPlayWith("failed")

At(ops) == pc = "task" /\ t <= Len(play) /\ play[t].op \in ops

NextTask ==
  /\ pc' = "task" /\ t' = t + 1
  /\ UNCHANGED <<host, process, play, outcome, quiet, settled, orphaned>>
  /\ Registers({})

\* "ensure storage pool target paths exist": a loop, some of whose items may fail.
MakeDirs ==
  LET missing == {p \in TargetDirs : disk[p] = None}
  IN  /\ At({"mkdir"})
      /\ \E made \in (IF check THEN {{}} ELSE SUBSET missing) :
           /\ disk' = [p \in Cfgs |-> IF p \in made THEN {} ELSE disk[p]]
           /\ \/ /\ check \/ made = missing
                 /\ NextTask /\ UNCHANGED <<bounds, poolPath, downloaded>>
              \/ Fault /\ EndPlayWith("failed")

\* A libvirt_pool task; the refresh has a condition.
BeginTask ==
  /\ \/ At({"path", "pools"})
     \/ At({"refresh"}) /\ downloaded
  /\ BeginRun(play[t].specs, check)
  /\ UNCHANGED roles
  /\ Plain

SkipRefresh ==
  /\ At({"refresh"}) /\ ~downloaded
  /\ NextTask
  /\ UNCHANGED <<bounds, disk, poolPath, downloaded>>

\* The result of a libvirt_pool task; "set storage pool path fact" follows one.
EndTask ==
  /\ Finishing
  /\ UNCHANGED <<disk, bounds>>
  /\ \/ /\ AllOk
        /\ NextTask
        /\ poolPath' = IF play[t].op = "path" THEN loc.path ELSE poolPath
        /\ UNCHANGED downloaded
     \/ ~AllOk /\ EndPlayWith("failed")

\* "download base images into the pool": a loop, some of whose items may fail.
Download ==
  /\ At({"download"})
  /\ \/ /\ disk[poolPath] # None
        /\ \E got \in SUBSET (BaseImages \ disk[poolPath]) :
             /\ disk' = IF check THEN disk ELSE [disk EXCEPT ![poolPath] = @ \cup got]
             /\ \/ /\ got = BaseImages \ disk[poolPath]
                   /\ NextTask
                   /\ downloaded' = (got # {})
                   /\ UNCHANGED <<bounds, poolPath>>
                \/ Fault /\ EndPlayWith("failed")
     \/ /\ disk[poolPath] = None
        /\ UNCHANGED <<disk, bounds>> /\ EndPlayWith("failed")

EndPlay ==
  /\ pc = "task" /\ t > Len(play)
  /\ UNCHANGED <<disk, bounds>> /\ EndPlayWith("ok")

-----------------------------------------------------------------------------

Init ==
  /\ host \in InitHosts /\ disk \in InitDisks
  /\ \A u \in UUIDs : host[u] # None /\ host[u].active => HasDir(u)
  /\ known = [u \in UUIDs |-> IF host[u] # None /\ host[u].active
                              THEN disk[host[u].cfg] ELSE {}]
  /\ pc = "idle" /\ items = <<>> /\ i = 0 /\ check = FALSE /\ loc = NoLocals
  /\ entries = <<>> /\ faults = 0 /\ meddle = 0 /\ alone = TRUE /\ moved = FALSE
  /\ play = StoragePlay /\ t = 1 /\ poolPath = None /\ downloaded = FALSE
  /\ outcome = "none" /\ quiet = FALSE /\ settled = FALSE /\ orphaned = {}

Steps ==
  \/ ReconcilePool /\ UNCHANGED roles
  \/ NextItem /\ UNCHANGED roles /\ Plain
  \/ MakeDirs \/ BeginTask \/ SkipRefresh \/ EndTask \/ Download \/ EndPlay

Clients ==
  /\ ClientActs
  /\ quiet' = FALSE /\ settled' = FALSE
  /\ UNCHANGED <<play, t, poolPath, downloaded, outcome, orphaned>>

Next == Steps \/ (\E c \in BOOLEAN : BeginPlay(c)) \/ Kill \/ Clients

RolesSpec == Init /\ [][Next]_vars

\* Ansible steps its tasks, and the operator keeps running plays for real.
Fairness == WF_vars(Steps) /\ SF_vars(BeginPlay(FALSE))

FairSpec == RolesSpec /\ Fairness

-----------------------------------------------------------------------------
(* Properties *)

\* Types, a sane pool list, one entry per item, and libvirt lists only what is on
\* disk, in active pools only.
TypeOK ==
  /\ ModuleTypes
  /\ disk \in Disks
  /\ known \in [UUIDs -> SUBSET Images]
  /\ \A u \in UUIDs : known[u] # {} =>
       host[u] # None /\ host[u].active /\ HasDir(u) /\ known[u] \subseteq disk[DirOf(u)]
  /\ play \in Plays /\ t \in 1..(Len(play) + 1)
  /\ poolPath \in Maybe(Cfgs) /\ downloaded \in BOOLEAN
  /\ outcome \in {"none", "ok", "dry", "failed"} /\ quiet \in BOOLEAN /\ settled \in BOOLEAN
  /\ orphaned \subseteq BaseImages

\* What each item does to its pool, and what its entry says of that, is what
\* Reconciler promises: no step away from the requested state, nothing in check
\* mode, "changed" exact, interference and failures included
\* (libvirt_pool.py:231-266, 288-346).
Promised == Abstract!Spec

\* Nor does a dry run touch directories or listings (libvirt_pool.py:247, 297-329).
CheckInert == [][Steps /\ check => UNCHANGED <<host, disk, known>>]_vars

Finished == pc = "idle" /\ outcome = "ok"

Listed(f) ==
  \E u \in Named(ImagePool) : host[u].active /\ f \in known[u]

\* A base_images play that succeeds leaves every image it asks for as a volume of
\* the pool, also when a pool task had to start the pool first; images that an
\* earlier play downloaded without reaching its refresh are the exception
\* (roles/base_images/tasks/configure.yml:16-36).
ImagesListed ==
  Finished /\ quiet /\ play = ImagesPlay =>
    \A f \in BaseImages \ orphaned : Listed(f)

\* A play that succeeds right after it succeeded reports no change; refreshes are
\* always reported (libvirt_pool.py:320-331).
PlayIdempotent ==
  settled /\ pc = "next" => ~entries[i].changed \/ Item.refresh

PoolTasks(p) == {k \in 1..Len(p) : p[k].op \in {"path", "pools", "refresh"}}

\* A play may ask for a pool twice, but not for different things.
Agreeing ==
  \A p \in Plays : \A k, l \in PoolTasks(p) :
    \A m \in 1..Len(p[k].specs), n \in 1..Len(p[l].specs) :
      LET x == p[k].specs[m]
          y == p[l].specs[n]
      IN  x.name = y.name => x.state = y.state /\ x.autostart = y.autostart

\* What a spec asks of the host; a pool somebody else defined with a directory that
\* does not exist is left as it is, and cannot start.
Goal(spec) ==
  /\ Feasible(spec)
  /\ spec.state = "active" =>
       \A u \in Named(spec.name) : HasDir(u) \/ host[u].cfg = spec.cfg
  => Level(spec.name) \in Abstract!Reached(spec.state) /\ AutostartAsked(spec)

\* Whatever fails or is killed half-way, re-running a play brings every pool to
\* its state and autostart flag, a bad spec before it or not; and every image to the
\* pool's directory.
Completes ==
  /\ \A p \in Plays \ {ImagesPlay} :
       <>[](play = p) => <>[](\A k \in DOMAIN p : \A j \in DOMAIN p[k].specs :
                                Goal(p[k].specs[j]))
  /\ <>[](play = ImagesPlay /\ \E u \in Named(ImagePool) : HasDir(u)) =>
       <>[](\E u \in Named(ImagePool) : host[u].active /\ BaseImages \subseteq disk[DirOf(u)])

\* "refresh storage pool so libvirt registers the new volumes" (roles/base_images/
\* tasks/configure.yml:28): after a play that succeeds, libvirt knows every image.
VolumesRegistered ==
  Finished /\ quiet /\ play = ImagesPlay => \A f \in BaseImages : Listed(f)
=============================================================================
