---------------------------- MODULE PausePolicy ----------------------------
(***************************************************************************)
(* The pause orchestrator that every entry point of the bridge consults    *)
(* (packages/cw-pause-once): one account may be named pauser, it may pause *)
(* the contract once, and naming a pauser is the only way to unpause.      *)
(* A policy is the content of the orchestrator's two storage items.        *)
(***************************************************************************)

CONSTANTS Pausers,   \* accounts that may be named pauser
          NoPauser   \* the item `pauser` holds None

ASSUME PauserAssumption == NoPauser \notin Pausers

PauseOrchestrator == [pauser: Pausers \cup {NoPauser}, paused: BOOLEAN]

\* Names a pauser, or none, and unpauses.
SetPauser(pauser) == [pauser |-> pauser, paused |-> FALSE]

\* Fails the caller's transaction when the contract is paused.
ErrorIfPaused(po) == ~ po.paused

\* `pause` goes through only for the pauser of a contract that is not paused.
PauseAllowed(po, sender) == ErrorIfPaused(po) /\ po.pauser = sender

\* What `pause` writes: the pauser is forgotten.
PausedPolicy == [pauser |-> NoPauser, paused |-> TRUE]

=============================================================================
