------------------------------ MODULE Operator ------------------------------
(***************************************************************************)
(* What the operator of the engine process does to EngineLoop: he sends    *)
(* signals that ask it to end (wait_for_shutdown_signal of engine.rs).     *)
(*                                                                         *)
(* A listener for signals exists only while the loop waits for entries; it *)
(* is made anew in every round and hears only what comes after it was      *)
(* made.  A signal that comes at another time is lost.                     *)
(***************************************************************************)
EXTENDS EngineLoop

VARIABLE heard  \* the listener that now waits has a signal

all == <<vars, heard>>

OperatorInit == Init /\ heard = FALSE

\* The loop is in its select!, between XREAD and its answer.
Waiting == up = "live" /\ pc = "next" /\ batch = {}

\* A signal arrives at a process in its loop (before that the default action
\* ends it, which is a Crash).  The listener hears it if it waits.
Signal ==
  /\ up = "live"
  /\ heard' = Waiting
  /\ UNCHANGED vars

\* Mutant of Heed: the signal is looked at only when a batch has come.
HeedLate ==
  /\ heard /\ After(last_id) # {}
  /\ Shutdown
  /\ heard' = FALSE

\* The loop is left.
Heed ==
  /\ heard
  /\ Shutdown
  /\ heard' = FALSE

\* The answer to XREAD is taken, though the signal may be there as well: what
\* the listener heard is gone with it.
Round ==
  /\ Xread \/ XreadTimeout
  /\ heard' = FALSE

End == Crash /\ heard' = FALSE

\* What the process does between two rounds.
Work ==
  /\ \/ Load \/ Xrange \/ GoLive \/ Reply \/ Count \/ Truncate \/ Del
     \/ \E p \in batch : ReplayRecord(p) \/ Dispatch(p)
  /\ UNCHANGED heard

Clients ==
  /\ \/ \E kind \in Kinds \ {"reset"} : Send(kind)
     \/ ResetDeletesRows \/ ResetSends
  /\ UNCHANGED heard

OperatorNext == Signal \/ Heed \/ Round \/ End \/ Work \/ Clients

\* The process runs on: whatever it can do it does.  When a signal and an
\* answer to XREAD are there select! takes either at random, so not the answer
\* each time.  The DEL of a reset does not fail every time (when it fails the
\* reset is read and executed again).  And the operator signals again until
\* the process ends.
OperatorSpec ==
  /\ OperatorInit /\ [][OperatorNext]_all
  /\ WF_all(Work) /\ WF_all(Round) /\ SF_all(Heed)
  /\ SF_all(Del /\ stream' = {} /\ UNCHANGED heard)
  /\ WF_all(Signal /\ ~heard)
-----------------------------------------------------------------------------
\* Properties.

\* An operator who repeats the signal has the process end when the requests
\* let up, whatever fails and wherever the process was when it was signalled.
\* (One signal does not suffice: it may come while a batch is executed.)
SignalsEnd == (up = "live" /\ crashes < MaxCrashes) ~> up = "down"
=============================================================================
