---------------------------- MODULE LibvirtVolume ----------------------------
(***************************************************************************)
(* The libvirt_volume module (plugins/modules/libvirt_volume.py): volumes  *)
(* of a storage pool are created or cloned, grown, wiped and deleted, one  *)
(* libvirt call per action.                                                *)
(*                                                                         *)
(* vols are the pool's volumes, pool the pool itself: an identity, which a *)
(* pool that is undefined and defined again loses, and whether it is       *)
(* active.  cache is run()'s pool_cache, changed the local of that name;   *)
(* alone and moved record, for the item in hand, whether its volume is     *)
(* ours and whether the module has done anything.                          *)
(***************************************************************************)
EXTENDS ModuleRun

CONSTANTS
  VolNames,  \* volume names
  Caps,      \* capacities
  PoolIds    \* identities of the pool

VARIABLES vols, pool, cache, changed, alone, moved

\* full: an image or a seed as it should be; part: some of it; guest: written to
\* by a guest.
Contents == {"blank", "part", "full", "guest"}

Volume == [cap: Caps, data: Contents]
Pool == [id: PoolIds, active: BOOLEAN]

VolumeSpecs == [name: VolNames, state: {"present", "absent"}, cap: Caps,
                form: {"good", "malformed"}, clone: Maybe(VolNames),
                resize: BOOLEAN, wipe: BOOLEAN]

ASSUME VolumeAssumption ==
  /\ Caps \subseteq Nat
  /\ None \notin Volume /\ None \notin Pool /\ None \notin PoolIds /\ None \notin VolNames

-----------------------------------------------------------------------------
(* libvirt: a pool handle stands for an identity, a volume handle for the names *)
(* of its pool and itself.                                                      *)

PoolUp == pool # None /\ pool.active
HandleUp == PoolUp /\ cache = pool.id
Has(n) == vols[n] # None
VolumeUp(n) == PoolUp /\ Has(n)

Larger(x, y) == IF x > y THEN x ELSE y

\* A clone is not smaller than its source.
Cloned(source, cap) == [source EXCEPT !.cap = Larger(source.cap, cap)]

-----------------------------------------------------------------------------
(* run() and the shape of its steps *)

Observe == UNCHANGED <<vols, pool, cache, alone, moved>>

Return(entry) == EndItem(entry) /\ Observe /\ UNCHANGED <<changed, bounds>>

CallFails(possible) == EndsRaised(possible) /\ Observe /\ UNCHANGED changed

\* A call that reads.
Read(possible, to, change) ==
  \/ possible /\ Continue(to) /\ Observe /\ changed' = change
  \/ CallFails(possible)

\* A call that makes v of the volume in hand.
Call(possible, to, v) ==
  \/ /\ possible /\ Continue(to)
     /\ vols' = [vols EXCEPT ![Item.name] = v]
     /\ moved' = TRUE /\ changed' = TRUE
     /\ UNCHANGED <<pool, cache, alone>>
  \/ CallFails(possible)

ItemUp(n, at) ==
  /\ i' = n /\ pc' = at
  /\ changed' = FALSE /\ alone' = TRUE /\ moved' = FALSE

\* The process starts and connects; a dry run when c.
BeginRun(specs, c) ==
  /\ items' = specs /\ check' = c
  /\ entries' = <<>> /\ cache' = None
  /\ ItemUp(1, "pool")
  /\ UNCHANGED <<vols, pool, bounds>>

NextItem ==
  /\ pc = "next" /\ i < Len(items)
  /\ ItemUp(i + 1, IF cache = None THEN "pool" ELSE "lookup")
  /\ UNCHANGED <<vols, pool, cache, items, check, entries, bounds>>

\* _reconcile_one gets the pool by name unless an item before it did.
GetPool ==
  /\ pc = "pool"
  /\ \/ /\ pool # None
        /\ cache' = pool.id
        /\ Continue("lookup")
        /\ UNCHANGED <<vols, pool, changed, alone, moved>>
     \/ CallFails(pool # None)

-----------------------------------------------------------------------------
(* _present_one and _absent_one *)

\* Faulty variant: check mode does not hold back a removal.
AfterLookupUnchecked(found) ==
  IF Item.state = "absent"
  THEN IF ~found THEN "gone" ELSE IF Item.wipe THEN "wipe" ELSE "delete"
  ELSE IF found THEN IF Item.resize THEN "info" ELSE "facts"
       ELSE IF Item.clone # None THEN "lookupSource"
       ELSE IF check THEN "would" ELSE "create"

AfterLookup(found) ==
  IF Item.state = "absent"
  THEN IF ~found THEN "gone" ELSE IF check THEN "would"
       ELSE IF Item.wipe THEN "wipe" ELSE "delete"
  ELSE IF found THEN IF Item.resize THEN "info" ELSE "facts"
       ELSE IF Item.clone # None THEN "lookupSource"
       ELSE IF check THEN "would" ELSE "create"

\* The XML builder refuses a spec before the volume is looked up.
MalformedVolume ==
  pc = "lookup" /\ Item.state = "present" /\ Item.form = "malformed" /\ Return(Raised)

LookupVolume ==
  /\ pc = "lookup" /\ (Item.state = "present" => Item.form = "good")
  /\ Read(HandleUp, AfterLookup(Has(Item.name)), changed)

AlreadyAbsent == pc = "gone" /\ Return(Ok(FALSE))
Would == pc = "would" /\ Return(Ok(TRUE))

\* A clone source that does not exist fails the item, as if the call had.
LookupSource ==
  /\ pc = "lookupSource"
  /\ Read(HandleUp /\ Has(Item.clone), IF check THEN "would" ELSE "create", changed)

\* Faulty variant: a missing clone source makes an empty disk.
CreateVolumeBlank ==
  /\ pc = "create"
  /\ Call(HandleUp /\ ~Has(Item.name), "facts", [cap |-> Item.cap, data |-> "blank"])

CreateVolume ==
  /\ pc = "create"
  /\ Call(HandleUp /\ ~Has(Item.name) /\ (Item.clone # None => Has(Item.clone)), "facts",
          IF Item.clone = None THEN [cap |-> Item.cap, data |-> "blank"]
          ELSE Cloned(vols[Item.clone], Item.cap))

\* Faulty variant: every volume is resized.
DriftsAlways == TRUE

\* Whether an existing volume is resized, larger or smaller.
Drifts == vols[Item.name].cap # Item.cap

ReadInfo ==
  LET drifts == Has(Item.name) /\ Drifts
  IN  /\ pc = "info"
      /\ Read(VolumeUp(Item.name), IF drifts /\ ~check THEN "resize" ELSE "facts",
              drifts /\ check)

\* libvirt does not shrink a volume, nor resize one that a guest has locked.
Resize(locked) ==
  /\ pc = "resize"
  /\ Call(/\ VolumeUp(Item.name)
          /\ vols[Item.name].cap <= Item.cap /\ Item.name \notin locked,
          "facts", [vols[Item.name] EXCEPT !.cap = Item.cap])

Wipe ==
  /\ pc = "wipe"
  /\ Call(VolumeUp(Item.name), "delete", [vols[Item.name] EXCEPT !.data = "blank"])

Delete == pc = "delete" /\ Call(VolumeUp(Item.name), "done", None)

Deleted == pc = "done" /\ Return(Ok(TRUE))

\* _volume_facts asks for the volume's path; name and key are the handle's own.
VolumeFacts ==
  /\ pc = "facts"
  /\ \/ VolumeUp(Item.name) /\ Return(Ok(changed))
     \/ CallFails(VolumeUp(Item.name))

ReconcileVolume(locked) ==
  \/ GetPool \/ MalformedVolume \/ LookupVolume \/ AlreadyAbsent \/ Would
  \/ LookupSource \/ CreateVolume \/ ReadInfo \/ Resize(locked)
  \/ Wipe \/ Delete \/ Deleted \/ VolumeFacts

-----------------------------------------------------------------------------
(* For the components' properties *)

VolumePCs == {"idle", "task", "next", "pool", "lookup", "gone", "would",
              "lookupSource", "create", "info", "resize", "wipe", "delete",
              "done", "facts", "upload", "send", "finish"}

VolumeTypes ==
  /\ RunTypes
  /\ pc \in VolumePCs
  /\ vols \in [VolNames -> Maybe(Volume)]
  /\ pool \in Maybe(Pool)
  /\ cache \in Maybe(PoolIds)
  /\ changed \in BOOLEAN /\ alone \in BOOLEAN /\ moved \in BOOLEAN
  /\ Busy /\ pc # "pool" => cache # None
=============================================================================
