---------------------------- MODULE MCEventLog ----------------------------
(***************************************************************************)
(* Small instances of EventLog for TLC: the subscription belongs to the    *)
(* first process and listens to one of two channels.                       *)
(***************************************************************************)
EXTENDS EventLog

CONSTANTS c1, c2, s1, chA, chB, nsX

TwoCaches == {c1, c2}
AdminC2 == {c2}
OneSub == {s1}
TwoChannels == {chA, chB}
OneNamespace == {nsX}

AllInX == [c \in Caches |-> nsX]
AllOnC1 == [s \in Subs |-> c1]
ListensToA == [s \in Subs |-> {chA}]

=============================================================================
