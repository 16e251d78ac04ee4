------------------------------ MODULE MCDaemon ------------------------------
(* Values of the constants of Daemon for the model checker.                *)
EXTENDS Daemon

CONSTANT i1

Plain(op, i) == [op |-> op, id |-> i, wallet |-> "bitbox02", ready |-> FALSE]
StartFrame   == Plain("start", None)

\* Requests that change instances, and the frames that carry no request.
MCFrames ==
    {StartFrame, ShutdownRequest, Plain("ping", None), Plain("garbage", None)}
MCShutdownOnly == {ShutdownRequest}
MCStartShutdown == {StartFrame, ShutdownRequest}
MCEveryFrame == MCFrames \cup {Plain("stop", i1), Plain("nothing", None)}

\* Everything a caller may ask of the registry here.
MCRequests == {StartFrame, Plain("stop", i1), ShutdownRequest}
=============================================================================
