--------------------------- MODULE MCStorageRoles ---------------------------
(* Values of StorageRoles' constants for TLC: the pool of the roles and another *)
(* one, two target paths, two images.                                           *)
EXTENDS StorageRoles

CONSTANTS a, b, u1, u2, p1, p2, f1, f2

MCNames == {a, b}
MCUUIDs == {u1, u2}
MCPaths == {p1, p2}
MCImages == {f1, f2}

Pool(n, state, path) ==
  [name |-> n, state |-> state, form |-> "good", cfg |-> path, uuid |-> None,
   autostart |-> None, build |-> FALSE, refresh |-> FALSE]

MCStoragePools == <<[Pool(a, "active", p1) EXCEPT !.autostart = TRUE]>>

\* A malformed pool before one that is stopped, a removal beside a pool that is
\* built and pinned to a UUID.
MCUserPlays ==
  { <<Task("pools", <<[Pool(b, "active", p2) EXCEPT !.form = "malformed"],
                      Pool(a, "inactive", p1)>>)>>,
    <<Task("pools", <<Pool(a, "absent", None),
                      [Pool(b, "present", p2) EXCEPT !.build = TRUE, !.uuid = u2,
                                                     !.refresh = TRUE]>>)>> }

Have(active, persistent) ==
  [name |-> a, cfg |-> p1, active |-> active, autostart |-> FALSE,
   persistent |-> persistent]

NoPools == [u \in UUIDs |-> None]
MCHosts == {NoPools, [NoPools EXCEPT ![u1] = Have(FALSE, TRUE)],
            [NoPools EXCEPT ![u1] = Have(TRUE, FALSE)]}

NoDirs == [p \in Cfgs |-> None]
MCDisks == {NoDirs, [NoDirs EXCEPT ![p1] = {}]}

\* What PlayIdempotent is proved from.
ASSUME PlaysAgree == Agreeing
=============================================================================
