------------------------- MODULE MCExternalInterface -------------------------
(***************************************************************************)
(* Instance of ExternalInterface for TLC: two guests of one role start by  *)
(* themselves with the same priority, the name of one begins with the name *)
(* of the other; the third guest has a role where none does.               *)
(***************************************************************************)
EXTENDS ExternalInterface

CONSTANTS ivi, ivi2, meter, k1, k2, k3

NameFor == [c \in Guest |-> IF c = ivi THEN <<"i">> ELSE IF c = ivi2 THEN <<"i", "2">> ELSE <<"m">>]
RoleFor == [c \in Guest |-> IF c = meter THEN <<"s">> ELSE <<"h">>]
PriorityFor == [c \in Guest |-> IF c = meter THEN 1 ELSE 100]

Ask(command, by, name) == [command |-> command, by |-> by, name |-> name]
Change(name) == [command |-> "change", name |-> name]

SomeRequests == [k \in Client |->
  CASE k = k1 -> {Ask("shutdown", "name", <<"i", "2">>), Change(<<"i">>), [command |-> "get"]}
    [] k = k2 -> {Ask("force", "role", <<"h">>), Change(<<"i", "2">>), Change(<<"m">>)}
    [] OTHER -> {Ask("reboot", "role", <<"s">>), Change(<<"x">>), [command |-> "unknown"]}]
=============================================================================
