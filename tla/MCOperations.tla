------------------------------ MODULE MCOperations ------------------------------
(***************************************************************************)
(* Instances of the modules about running the salon: appointments, their   *)
(* reminders, and leaves.  They share no variable; a behaviour follows one *)
(* of them, chosen at the start, while the others rest.                    *)
(***************************************************************************)
EXTENDS Scheduling, Reminders, Leaves

VARIABLE operations   \* the module this behaviour follows

operationsVars == <<operations, bookVars, reminderVars, leaveVars>>

OperationsInit ==
  /\ operations \in {"scheduling", "reminders", "leaves"}
  /\ BookInit /\ ReminderInit /\ LeaveInit
  \* what rests has one initial state
  /\ operations # "leaves" => leaveTxn

OperationsNext ==
  \/ /\ operations = "scheduling" /\ BookNext
     /\ UNCHANGED <<operations, reminderVars, leaveVars>>
  \/ /\ operations = "reminders" /\ ReminderNext
     /\ UNCHANGED <<operations, bookVars, leaveVars>>
  \/ /\ operations = "leaves" /\ LeaveNext
     /\ UNCHANGED <<operations, bookVars, reminderVars>>

OperationsSpec == OperationsInit /\ [][OperationsNext]_operationsVars
=============================================================================
