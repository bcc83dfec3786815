------------------------------ MODULE ModuleRun ------------------------------
(***************************************************************************)
(* The run() that the libvirt modules of the collection share: a list of   *)
(* specs, reconciled one after another; an item that raises is recorded as *)
(* failed, and the next one follows.  pc is the next libvirt call, "next"  *)
(* between two items, "task" or "idle" outside a run.  faults and meddle   *)
(* count steps of the adversary.                                           *)
(***************************************************************************)
EXTENDS Integers, Sequences

CONSTANTS
  None,       \* Python's None
  MaxFaults,  \* bound on libvirt errors, kills and failed tasks
  MaxMeddle   \* bound on steps of other clients

VARIABLES pc, items, i, check, entries, faults, meddle

ASSUME RunAssumption == MaxFaults \in Nat /\ MaxMeddle \in Nat

bounds == <<faults, meddle>>

Maybe(S) == S \cup {None}

Entry == [changed: BOOLEAN, failed: BOOLEAN]

Item == items[i]
Busy == pc \notin {"idle", "task", "next"}

\* Faulty variant: the entry is lost.
EndItemUnrecorded(entry) == pc' = "next" /\ UNCHANGED <<entries, items, i, check>>

EndItem(entry) ==
  /\ pc' = "next"
  /\ entries' = Append(entries, entry)
  /\ UNCHANGED <<items, i, check>>

Ok(changed) == [changed |-> changed, failed |-> FALSE]

\* The entry of an item that raised, whatever it had changed before.
Raised == [changed |-> FALSE, failed |-> TRUE]

Continue(to) ==
  /\ pc' = to
  /\ UNCHANGED <<items, i, check, entries, bounds>>

Fault == faults < MaxFaults /\ faults' = faults + 1 /\ UNCHANGED meddle

\* The item ends because a call raises: a fault if the call was possible.
EndsRaised(possible) ==
  /\ IF possible THEN Fault ELSE UNCHANGED bounds
  /\ EndItem(Raised)

Finishing == pc = "next" /\ i = Len(items)
AllOk == \A k \in DOMAIN entries : ~entries[k].failed

RunTypes ==
  /\ pc \notin {"idle", "task"} => i \in 1..Len(items)
  /\ pc \notin {"idle", "task"} => Len(entries) = IF pc = "next" THEN i ELSE i - 1
  /\ check \in BOOLEAN
  /\ entries \in Seq(Entry)
  /\ faults \in 0..MaxFaults /\ meddle \in 0..MaxMeddle
=============================================================================
