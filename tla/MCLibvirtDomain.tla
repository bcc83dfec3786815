-------------------------- MODULE MCLibvirtDomain --------------------------
(* Values of LibvirtDomain's constants for TLC. *)
EXTENDS LibvirtDomain

CONSTANTS a, b, u1, u2, c1, c2, m1, m2

MCNames1 == {a}
MCNames2 == {a, b}
MCUUIDs == {u1, u2}
MCCfgs == {c1, c2}
MCMacs == {m1, m2}

\* A structured spec of domain n: definition c1 with one interface whose MAC is
\* left to libvirt.
Ask(n, state) ==
  [name |-> n, state |-> state, form |-> "good", uuid |-> None, cfg |-> c1,
   macs |-> <<None>>, autostart |-> None]

\* The same, with autostart requested.
AskAuto(n, state) == [Ask(n, state) EXCEPT !.autostart = TRUE]

\* A domain of name n as an earlier run or another client left it.
Have(n, cfg, run, persistent) ==
  [name |-> n, cfg |-> cfg, macs |-> <<m1>>, run |-> run, acpi |-> FALSE,
   autostart |-> FALSE, persistent |-> persistent]

NoHost == [u \in UUIDs |-> None]

\* One domain: missing, or in every run state, or transient.
MCHosts1 ==
  {NoHost}
  \cup {[NoHost EXCEPT ![u1] = Have(a, c2, r, TRUE)] : r \in RunStates}
  \cup {[NoHost EXCEPT ![u1] = Have(a, c1, "running", FALSE)]}

\* One-item playbooks: every state, both invalid forms, a pinned UUID and MAC.
MCPlaybooks1 ==
  {<<Ask(a, s)>> : s \in States}
  \cup {<<AskAuto(a, s)>> : s \in {"present", "running"}}
  \cup {<<[Ask(a, "running") EXCEPT !.form = f]>> : f \in {"broken", "malformed"}}
  \cup {<<[Ask(a, "running") EXCEPT !.uuid = u2, !.macs = <<m2>>]>>}

\* What idempotence is proved from.
ASSUME ListedOnce == Distinct

MCHosts2 ==
  {NoHost, [NoHost EXCEPT ![u1] = Have(a, c1, "running", TRUE)]}

\* Two-item playbooks: a broken item before a good one, removal beside
\* creation, two domains that need fresh MACs.
MCPlaybooks2 ==
  { <<[Ask(a, "running") EXCEPT !.form = "broken"], Ask(b, "running")>>,
    <<Ask(a, "absent"), AskAuto(b, "running")>>,
    <<AskAuto(a, "shutdown"), Ask(b, "paused")>> }
=============================================================================
