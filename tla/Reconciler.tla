----------------------------- MODULE Reconciler -----------------------------
(***************************************************************************)
(* What a reconciling module promises of one item after another, without   *)
(* saying how it works: it moves the one resource it was asked about, only *)
(* towards the state asked for, and never in a dry run; and when it        *)
(* answers without failure, the answer says "changed" exactly when it did  *)
(* something, and the resource has reached the state unless somebody else  *)
(* has meddled with it.  A failure, or the end of the module, may cut an   *)
(* item short anywhere.                                                    *)
(***************************************************************************)
CONSTANTS
  Names,   \* the resources
  None     \* no item in hand

VARIABLES
  level,   \* how far up each resource is
  asked,   \* the item in hand: a name, a state, and whether it is a dry run
  moved,   \* whether the module has done anything for it
  alone,   \* whether nobody else has touched its resource
  report   \* the answer to the item before

vars == <<level, asked, moved, alone, report>>

Levels == {"missing", "inactive", "active", "transient"}
States == {"present", "active", "inactive", "absent"}

\* The steps up and down that lead to a state.
Moves(state) ==
  (IF state = "absent" THEN {} ELSE {<<"missing", "inactive">>})
  \cup (IF state = "active" THEN {<<"inactive", "active">>} ELSE {})
  \cup (IF state \in {"inactive", "absent"}
        THEN {<<"active", "inactive">>, <<"transient", "missing">>} ELSE {})
  \cup (IF state = "absent"
        THEN {<<"inactive", "missing">>, <<"active", "transient">>} ELSE {})

Reached(state) ==
  CASE state = "present"  -> Levels \ {"missing"}
    [] state = "active"   -> {"active", "transient"}
    [] state = "inactive" -> {"inactive"}
    [] state = "absent"   -> {"missing"}

Idle == asked = None /\ moved = FALSE /\ alone = TRUE

Init == level \in [Names -> Levels] /\ Idle /\ report = "none"

Take ==
  /\ Idle
  /\ asked' \in [name: Names, state: States, dry: BOOLEAN]
  /\ report' = "none"
  /\ UNCHANGED <<level, moved, alone>>

\* One thing done for the item; settings beside the level may change as well.
Act ==
  /\ asked # None /\ ~asked.dry
  /\ moved' = TRUE
  /\ \E to \in Levels :
       /\ to = level[asked.name] \/ <<level[asked.name], to>> \in Moves(asked.state)
       /\ level' = [level EXCEPT ![asked.name] = to]
  /\ UNCHANGED <<asked, alone, report>>

There == level[asked.name] \in Reached(asked.state)

Answer ==
  /\ asked # None
  /\ \/ report' = "failed"
     \/ report' = "changed" /\ (moved \/ asked.dry) /\ (alone /\ ~asked.dry => There)
     \/ report' = "unchanged" /\ ~moved /\ (alone => There)
  /\ asked' = None /\ moved' = FALSE /\ alone' = TRUE
  /\ UNCHANGED level

\* The module ends, or dies with an item in hand.
Leave ==
  /\ asked' = None /\ moved' = FALSE /\ alone' = TRUE
  /\ report' = "none"
  /\ UNCHANGED level

\* Somebody else moves a resource.
Others ==
  /\ \E n \in Names, to \in Levels :
       /\ level' = [level EXCEPT ![n] = to]
       /\ alone' = (alone /\ (asked = None \/ asked.name # n))
  /\ UNCHANGED <<asked, moved, report>>

Next == Take \/ Act \/ Answer \/ Leave \/ Others

Spec == Init /\ [][Next]_vars
=============================================================================
