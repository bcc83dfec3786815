----------------------------- MODULE MCInstances -----------------------------
(* Values of Instances' constants for TLC: a base image, an instance with a data  *)
(* disk and another one after it, or the first with more disks than there are     *)
(* letters.                                                                       *)
EXTENDS Instances

CONSTANTS base, os, data, seed, os2, seed2, x, v1, v2, i1, i2

MCVolNames == {base, os, data, seed, os2, seed2, x}
MCCaps == 1..2
MCPoolIds == {i1, i2}
MCNames == {v1, v2}

Disk(name) == [vol |-> name, cap |-> 1]

First == [name |-> v1, os |-> os, base |-> base, cap |-> 2, state |-> "running",
          seed |-> seed, data |-> <<Disk(data)>>]
Second == [name |-> v2, os |-> os2, base |-> base, cap |-> 1, state |-> "shutdown",
           seed |-> seed2, data |-> <<>>]

MCVMs == {<<First, Second>>,
          <<[First EXCEPT !.state = "defined", !.data = <<Disk(data), Disk(x)>>]>>}

Play(op, specs) == <<Task(op, specs, None)>>

\* A malformed spec before a clone left at its size and a removal with wipe; a malformed
\* seed before one that is removed.
MCUserPlays ==
  { Play("volumes", <<[VolumeSpec(os, 1, None) EXCEPT !.form = "malformed"],
                      [VolumeSpec(os, 1, base) EXCEPT !.resize = FALSE],
                      [VolumeSpec(data, 1, None) EXCEPT !.state = "absent", !.wipe = TRUE]>>),
    Play("iso", <<[name |-> seed2, state |-> "present", form |-> "malformed"],
                  [name |-> seed, state |-> "absent", form |-> "good"]>>) }

NoVolumes == [n \in MCVolNames |-> None]
MCVols == {NoVolumes, [NoVolumes EXCEPT ![base] = [cap |-> 1, data |-> "full"]]}
MCPools == {None, [id |-> i1, active |-> FALSE]}

ASSUME NamesApart == Apart
ASSUME PlaysAgree == Agreeing
=============================================================================
