------------------------------- MODULE MCJob --------------------------------
(***************************************************************************)
(* Small instances of Job: a caller that terminates the job with KILL, one *)
(* that signals it with TERM and one that unschedules it.                  *)
(***************************************************************************)
EXTENDS Job

CONSTANTS ending, signaling, unscheduling

ThreeCallers == {ending, signaling, unscheduling}

MCCall == [c \in Caller |-> IF c = ending THEN "terminate"
                            ELSE IF c = signaling THEN "signal"
                            ELSE "unschedule"]
MCSig == [c \in Caller |-> IF c = ending THEN "KILL" ELSE "TERM"]
=============================================================================
