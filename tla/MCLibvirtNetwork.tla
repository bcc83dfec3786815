-------------------------- MODULE MCLibvirtNetwork --------------------------
(* Values of LibvirtNetwork's constants for TLC. *)
EXTENDS LibvirtNetwork

CONSTANTS a, b, u1, u2, d1, d2

MCNames == {a, b}
MCUUIDs == {u1, u2}
MCCfgs == {d1, d2}

Ask(n, state, cfg) ==
  [name |-> n, state |-> state, form |-> "good", cfg |-> cfg, uuid |-> None,
   autostart |-> None]

\* Every state, autostart both ways, a malformed network before a good one, a
\* pinned UUID, and a network that moves from one name to another.
MCPlaybooks ==
  { <<[Ask(a, "active", d1) EXCEPT !.autostart = TRUE]>>,
    <<[Ask(a, "inactive", d1) EXCEPT !.autostart = FALSE, !.uuid = u2]>>,
    <<[Ask(b, "active", d2) EXCEPT !.form = "malformed"], Ask(a, "present", d2)>>,
    <<Ask(a, "absent", d1), Ask(b, "active", d1)>> }

Have(active, persistent) ==
  [name |-> a, cfg |-> d1, active |-> active, autostart |-> persistent,
   persistent |-> persistent]

NoNetworks == [u \in UUIDs |-> None]

\* No network yet, one in each run state, or a transient one.
MCHosts == {NoNetworks} \cup
           {[NoNetworks EXCEPT ![u1] = Have(x[1], x[2])] :
              x \in {<<FALSE, TRUE>>, <<TRUE, TRUE>>, <<TRUE, FALSE>>}}

\* What Idempotent is proved from.
ASSUME ListedOnce == Distinct
=============================================================================
