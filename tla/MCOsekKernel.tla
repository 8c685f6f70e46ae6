----------------------------- MODULE MCOsekKernel -----------------------------
(* Instances of OsekKernel for TLC: three tasks on three levels, or two      *)
(* tasks on one level under a third one.                                     *)
EXTENDS OsekKernel

T3 == {"lo", "mid", "hi"}
Level3 == 0 .. 2
Ready3 == [t \in T3 |-> CASE t = "lo" -> 0 [] t = "mid" -> 1 [] t = "hi" -> 2]
\* lo runs with an internal resource that it shares with mid.
Dispatch3 == [t \in T3 |-> CASE t = "lo" -> 1 [] t = "mid" -> 1 [] t = "hi" -> 2]
\* mid is a basic task with two activations, the others are extended.
Rnact3 == [t \in T3 |-> IF t = "mid" THEN 2 ELSE 1]
Ext3 == {"lo", "hi"}
Auto3 == [l \in Level3 |-> IF l = 0 THEN <<"lo">> ELSE <<>>]
Chain3 == [t \in T3 |-> CASE t = "lo" -> {"hi"}
                          [] t = "mid" -> {"mid", "lo"}
                          [] t = "hi" -> {}]

\* Two resources of the highest ceiling and one shared by lo and mid.
Res3 == {"r", "s", "u"}
Ceil3 == [r \in Res3 |-> IF r = "u" THEN 1 ELSE 2]
ChainNone == [t \in T3 |-> {}]
Rnact1 == [t \in T3 |-> 1]

\* lo and mid on one level, as MgmtCmdHandler and TaskShell are in eecfg.c.
Ready2 == [t \in T3 |-> IF t = "hi" THEN 1 ELSE 0]
Level2 == 0 .. 1
Auto2 == [l \in Level2 |-> IF l = 0 THEN <<"mid", "lo">> ELSE <<>>]
Res1 == {"r"}
Ceil1 == [r \in Res1 |-> 1]
\* hi chains to lo in one instance and falls off its body in another.
ChainHiLo == [t \in T3 |-> IF t = "hi" THEN {"lo"} ELSE {}]
NoRes == [r \in {} |-> 0]
=============================================================================
