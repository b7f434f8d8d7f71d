------------------------------ MODULE Durable ------------------------------
(***************************************************************************)
(* What a file-backed database promises of its points (SPEC-003 section 4),*)
(* whatever checkpoints, vacuums, crashes and failing calls do: a store    *)
(* whose `value` is what the next open would serve.                        *)
(*                                                                         *)
(* `possible` are the values a crash may still bring it to: the value, and *)
(* older ones for as long as the writes behind them are not promised.      *)
(***************************************************************************)
EXTENDS FiniteSets

CONSTANTS
    Empty,    \* that of a new store
    Update,   \* the writes
    Put(_, _) \* Put(u, v): the value after write u on v

VARIABLES value, possible

Init == value = Empty /\ possible = {Empty}

(* A write: it is in the store at once, and the older values remain         *)
(* possible until it is promised.                                           *)
Write(u) ==
    /\ value' = Put(u, value) /\ value' \in possible'
    /\ possible' \subseteq possible \cup {Put(u, v) : v \in possible}

(* Everything else: promises exclude values, crashes choose among those     *)
(* left.  No value comes back that was excluded, and none appears.          *)
Settle ==
    /\ possible' \subseteq possible
    /\ value' \in possible'

Next == Settle \/ \E u \in Update : Write(u)

Spec == Init /\ [][Next]_<<value, possible>>

=============================================================================
