---------------------------- MODULE MCCounterAlarms ----------------------------
(* Three alarms on a counter of three values; one is armed by StartOS, as     *)
(* TxAlarm is in eecfg.c.                                                    *)
EXTENDS CounterAlarms

A3 == {"tx", "b", "c"}
AutoList == <<"tx">>
Auto == [a \in {"tx"} |-> 2]
=============================================================================
