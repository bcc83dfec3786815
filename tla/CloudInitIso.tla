---------------------------- MODULE CloudInitIso ----------------------------
(***************************************************************************)
(* The libvirt_cloud_init_iso module (plugins/modules/                     *)
(* libvirt_cloud_init_iso.py): a seed is a volume of the same pool, which  *)
(* is created empty and filled through a stream in three further calls.    *)
(***************************************************************************)
EXTENDS LibvirtVolume

CONSTANT IsoSize  \* the capacity of a seed

IsoSpecs == [name: VolNames, state: {"present", "absent"}, form: {"good", "malformed"}]

ASSUME IsoAssumption == IsoSize \in Caps

AfterIsoLookup(found) ==
  IF Item.state = "absent"
  THEN IF ~found THEN "gone" ELSE IF check THEN "would" ELSE "delete"
  ELSE IF found THEN "facts" ELSE IF check THEN "would" ELSE "create"

LookupIso == pc = "lookup" /\ Read(HandleUp, AfterIsoLookup(Has(Item.name)), changed)

\* _create builds the image; the XML builder may refuse the name.
CreateIso ==
  /\ pc = "create"
  /\ \/ Item.form = "malformed" /\ Return(Raised)
     \/ /\ Item.form = "good"
        /\ Call(HandleUp /\ ~Has(Item.name), "upload", [cap |-> IsoSize, data |-> "blank"])

\* The stream is opened ...
Upload == pc = "upload" /\ Read(VolumeUp(Item.name), "send", changed)

\* ... the image sent, which arrives as the stream goes, before an error as well ...
Send ==
  /\ pc = "send"
  /\ \/ Call(VolumeUp(Item.name), "finish", [vols[Item.name] EXCEPT !.data = "part"])
     \/ /\ VolumeUp(Item.name) /\ EndsRaised(TRUE)
        /\ vols' = [vols EXCEPT ![Item.name].data = "part"]
        /\ moved' = TRUE
        /\ UNCHANGED <<pool, cache, changed, alone>>

\* Faulty variant: the stream is not closed.
FinishNothing == pc = "finish" /\ Read(VolumeUp(Item.name), "facts", changed)

\* ... and the stream closed: only then has everything arrived.
FinishStream ==
  /\ pc = "finish"
  /\ Call(VolumeUp(Item.name), "facts", [vols[Item.name] EXCEPT !.data = "full"])

ReconcileIso ==
  \/ GetPool \/ LookupIso \/ AlreadyAbsent \/ Would
  \/ CreateIso \/ Upload \/ Send \/ FinishStream
  \/ Delete \/ Deleted \/ VolumeFacts
=============================================================================
