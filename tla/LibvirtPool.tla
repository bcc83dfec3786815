---------------------------- MODULE LibvirtPool ----------------------------
(***************************************************************************)
(* The libvirt_pool module (plugins/modules/libvirt_pool.py): the shared   *)
(* reconciler with building, refreshing and the target path.  disk is the  *)
(* file system, known the volumes libvirt has found in each active pool.   *)
(* StorageRoles composes its tasks into the plays of the roles.            *)
(***************************************************************************)
EXTENDS DefineOnce, FiniteSets

CONSTANT Images  \* files of interest in a pool's directory

VARIABLES disk, known

\* form "malformed" does not survive the XML builder.
PoolSpecs == [name: Names, state: States, form: {"good", "malformed"},
              cfg: Maybe(Cfgs), uuid: Maybe(UUIDs), autostart: Maybe(BOOLEAN),
              build: BOOLEAN, refresh: BOOLEAN]

\* A target path is missing (None) or holds some of the images.
Disks == [Cfgs -> Maybe(SUBSET Images)]

-----------------------------------------------------------------------------

DirOf(u) == IF host[u] = None THEN None ELSE host[u].cfg
HasDir(u) == DirOf(u) # None /\ disk[DirOf(u)] # None

\* libvirt lists the volumes of a directory when the pool starts and when it is
\* refreshed, and not otherwise.
Registers(refreshed) ==
  known' = [u \in UUIDs |->
              IF host'[u] = None \/ ~host'[u].active THEN {}
              ELSE IF host[u] = None \/ ~host[u].active \/ u \in refreshed
              THEN disk[host'[u].cfg] ELSE known[u]]

Plain == UNCHANGED disk /\ Registers({})

\* _reconcile_one refuses to define a pool without target_path.
NoTargetPath == pc = "define" /\ Item.cfg = None /\ Return(Raised) /\ Plain

DefinePool ==
  /\ pc = "define" /\ Item.cfg # None
  /\ WouldDefine \/ Define(IF Item.build THEN "build" ELSE "autostart")
  /\ Plain

\* _define builds the target, which makes the directory.
Build ==
  /\ pc = "build"
  /\ \/ /\ Exists(loc.it) /\ ~host[loc.it].active
        /\ disk' = IF HasDir(loc.it) THEN disk
                   ELSE [disk EXCEPT ![DirOf(loc.it)] = {}]
        /\ Continue("autostart") /\ Observe /\ UNCHANGED loc
     \/ CallFails(Exists(loc.it) /\ ~host[loc.it].active) /\ UNCHANGED disk
  /\ Registers({})

\* Faulty variant: only a pool that was not just started is worth a refresh.
AfterRunStateUnchanged ==
  IF Item.refresh /\ Item.state # "active" THEN "refreshActive" ELSE "factName"

AfterRunState == IF Item.refresh THEN "refreshActive" ELSE "factName"

ApplyRunState ==
  /\ \/ ReadActive(AfterRunState)
     \/ Start(Exists(loc.it) /\ HasDir(loc.it), AfterRunState)
     \/ Stop(AfterRunState)
  /\ Plain

\* _apply_refresh
RefreshIsActive ==
  LET active == Exists(loc.it) /\ host[loc.it].active
  IN  /\ pc = "refreshActive"
      /\ Read(IF active /\ ~check THEN "refresh" ELSE "factName",
              [loc EXCEPT !.changed = loc.changed \/ (active /\ check)])
      /\ Plain

Refresh ==
  /\ pc = "refresh"
  /\ Call("factName", host[loc.it].active, host[loc.it],
          [loc EXCEPT !.changed = TRUE])
  /\ Registers(IF pc' = "factName" THEN {loc.it} ELSE {})
  /\ UNCHANGED disk

\* _pool_facts reads the target path first.
FactPath ==
  pc = "factName" /\ Read("factActive", [loc EXCEPT !.path = DirOf(loc.it)]) /\ Plain

ReconcilePool ==
  \/ /\ \/ Lookup \/ AlreadyAbsent \/ WouldUndefine
        \/ AbsentIsActive \/ AbsentDestroy \/ AbsentUndefine \/ AbsentReturn
        \/ ReadAutostart \/ SetAutostart
        \/ FactActive \/ FactAutostart \/ FactPersistent
     /\ Plain
  \/ NoTargetPath \/ DefinePool \/ Build
  \/ ApplyRunState \/ RefreshIsActive \/ Refresh \/ FactPath

ClientActs ==
  /\ \E u \in UUIDs : ClientDrives(u, HasDir(u)) \/ ClientDefines(u)
  /\ Plain
=============================================================================
