----------------------------- MODULE MCSession ------------------------------
(* Session for TLC.  One supported setting with two values and one that    *)
(* the helper refuses are enough for a change to be applied, to change     *)
(* nothing, and to be refused.                                             *)
EXTENDS SessionProperties

MCSettings == {"delay", "bandwidth"}
Delay(v) == [setting |-> "delay", value |-> v]
OneChange == {Delay(1)}
MCChanges == {Delay(1), Delay(0), [setting |-> "bandwidth", value |-> 1]}

StopOnly == {PlainCommand("stop")}
AllLines ==
    {SetCommand(c) : c \in MCChanges}
    \cup {PlainCommand(t) : t \in {"status", "stop", "detach", "invalid", "help", "oversized", "empty"}}
QueueLines ==
    {SetCommand(Delay(1))} \cup {PlainCommand(t) : t \in {"status", "stop", "detach"}}
SetOnly == {SetCommand(Delay(1))}
=============================================================================
