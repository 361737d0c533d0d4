--------------------------- MODULE ReviewRegistry ---------------------------
(***************************************************************************)
(* What a legal-review preparation promises, without files: a review id is *)
(* a write-once slot.  A preparation asks for one id and one commit; it    *)
(* either binds the id, which nothing did before it, or it ends without.   *)
(* SnapshotPublish implements this module.                                 *)
(***************************************************************************)
CONSTANTS Procs,     \* preparations: invocations of the command
          Ids,       \* review ids
          Unbound    \* the value of a slot nothing was bound to

VARIABLES binding,   \* binding[i]: the commit id i stands for, or Unbound
          outcome,   \* outcome[p]: "open", "won" or "lost"
          wants      \* wants[p]: the id and the commit p asks for

regVars == <<binding, outcome, wants>>

RegInit ==
  /\ binding = [i \in Ids |-> Unbound]
  /\ outcome = [p \in Procs |-> "open"]

Win(p) ==
  /\ outcome[p] = "open"
  /\ binding[wants[p].id] = Unbound
  /\ binding' = [binding EXCEPT ![wants[p].id] = wants[p].commit]
  /\ outcome' = [outcome EXCEPT ![p] = "won"]
  /\ UNCHANGED wants

Lose(p) ==
  /\ outcome[p] = "open"
  /\ outcome' = [outcome EXCEPT ![p] = "lost"]
  /\ UNCHANGED <<binding, wants>>

RegNext == \E p \in Procs : Win(p) \/ Lose(p)

RegSpec == RegInit /\ [][RegNext]_regVars
=============================================================================
