---------------------------- MODULE OneShotSend ----------------------------
(***************************************************************************)
(* What scheduling a message promises, without the job that keeps it: a    *)
(* job is submitted, may be withdrawn until it is started, is started at   *)
(* most once, has its effect at most once, and is closed as "sent" only    *)
(* when the effect has happened.  A job closed as "failed" is uncertain:   *)
(* its effect may still happen, but never a second time.                   *)
(***************************************************************************)
EXTENDS Naturals

CONSTANT Jobs

VARIABLES phase, effects

vars == <<phase, effects>>

Init == phase = [j \in Jobs |-> "new"] /\ effects = [j \in Jobs |-> 0]

Submit(j) ==
    /\ phase[j] = "new"
    /\ phase' = [phase EXCEPT ![j] = "waiting"]
    /\ UNCHANGED effects

Withdraw(j) ==
    /\ phase[j] = "waiting"
    /\ phase' = [phase EXCEPT ![j] = "withdrawn"]
    /\ UNCHANGED effects

Start(j) ==
    /\ phase[j] = "waiting"
    /\ phase' = [phase EXCEPT ![j] = "started"]
    /\ UNCHANGED effects

Effect(j) ==
    /\ phase[j] \in {"started", "failed"}
    /\ effects[j] = 0
    /\ effects' = [effects EXCEPT ![j] = 1]
    /\ UNCHANGED phase

CloseSent(j) ==
    /\ phase[j] = "started"
    /\ effects[j] = 1
    /\ phase' = [phase EXCEPT ![j] = "sent"]
    /\ UNCHANGED effects

\* Several jobs may be given up on in one step (one bulk UPDATE).
CloseFailed ==
    /\ \E S \in SUBSET {j \in Jobs : phase[j] = "started"} :
         phase' = [j \in Jobs |-> IF j \in S THEN "failed" ELSE phase[j]]
    /\ UNCHANGED effects

Next ==
    \/ CloseFailed
    \/ \E j \in Jobs :
          \/ Submit(j) \/ Withdraw(j) \/ Start(j) \/ Effect(j) \/ CloseSent(j)

Spec == Init /\ [][Next]_vars
=============================================================================
