-------------------------- MODULE NamespaceConstants --------------------------
(***************************************************************************)
(* The parameters of ConfigNamespace, in a module of their own so that a   *)
(* module that runs it beside other components can give them their values. *)
(***************************************************************************)
EXTENDS Integers, FiniteSets

CONSTANTS
  Reader,           \* concurrent callers of get, getOrThrow, getAll and parse
  Fetch,            \* slots for fetches in flight at the same time
  Refreshing,       \* TRUE when refreshIntervalMs is set
  RefreshInterval,  \* refreshIntervalMs
  Latency,          \* the longest a fetch takes before it answers or times out
  MaxVersion        \* bound: how often the store changes

ASSUME IntervalAssumption ==
  /\ Refreshing \in BOOLEAN
  /\ RefreshInterval \in Nat
  /\ Latency \in Nat
  /\ MaxVersion \in Nat
=============================================================================
