------------------------- MODULE OperationLifecycle -------------------------
(***************************************************************************)
(* What an Operation promises its observers, with nothing of how the       *)
(* Runtime keeps the promise: a phase that only moves along the documented *)
(* state machine, one immutable first cancellation reason, and one frozen  *)
(* decision taken before the terminal phase, which the terminal phase      *)
(* respects.  Operation.tla implements it.                                 *)
(***************************************************************************)
CONSTANTS Ops,      \* operations
          Reasons,  \* cancellation reasons
          None      \* "no reason yet", "no decision yet"

VARIABLES phase, cause, decision

abstractVars == <<phase, cause, decision>>

Live == {"Pending", "Running", "Cancelling"}

(* The terminal phases a frozen decision may end in: a failed cleanup turns
   a success into a failure, and a failed domain cleanup any decision.     *)
Outcomes(d) == CASE d = "Success"      -> {"Succeeded", "Failed"}
                 [] d = "Failure"      -> {"Failed"}
                 [] d = "Cancellation" -> {"Cancelled", "Failed"}

AbstractInit == /\ phase = [o \in Ops |-> "Pending"]
                /\ cause = [o \in Ops |-> None]
                /\ decision = [o \in Ops |-> None]

(* The operation is admitted, before anything was decided. *)
Admit(o) == /\ phase[o] = "Pending"
            /\ decision[o] = None
            /\ phase' = [phase EXCEPT ![o] = "Running"]
            /\ UNCHANGED <<cause, decision>>

(* The first cancellation request fixes the reason; it may show at once. *)
Intend(o, r) == /\ phase[o] \in Live
                /\ cause[o] = None
                /\ cause' = [cause EXCEPT ![o] = r]
                /\ \/ UNCHANGED phase
                   \/ /\ decision[o] = None
                      /\ phase' = [phase EXCEPT ![o] = "Cancelling"]
                /\ UNCHANGED decision

(* The one decision: success only of running work that shows no
   cancellation, cancellation only with a reason.                          *)
Decide(o, d) == /\ phase[o] \in Live
                /\ decision[o] = None
                /\ d = "Success" => phase[o] = "Running"
                /\ d = "Cancellation" => cause[o] # None
                /\ decision' = [decision EXCEPT ![o] = d]
                /\ UNCHANGED <<phase, cause>>

ShowCancelling(o) == /\ decision[o] = "Cancellation"
                     /\ phase[o] \in {"Pending", "Running"}
                     /\ phase' = [phase EXCEPT ![o] = "Cancelling"]
                     /\ UNCHANGED <<cause, decision>>

(* Only a decided operation ends, and cancellation is shown first. *)
End(o) == /\ phase[o] \in Live
          /\ decision[o] # None
          /\ decision[o] = "Cancellation" => phase[o] = "Cancelling"
          /\ \E t \in Outcomes(decision[o]) : phase' = [phase EXCEPT ![o] = t]
          /\ UNCHANGED <<cause, decision>>

AbstractNext ==
  \E o \in Ops :
    \/ Admit(o)
    \/ \E r \in Reasons : Intend(o, r)
    \/ \E d \in {"Success", "Failure", "Cancellation"} : Decide(o, d)
    \/ ShowCancelling(o)
    \/ End(o)

AbstractSpec == AbstractInit /\ [][AbstractNext]_abstractVars
=============================================================================
