------------------------------- MODULE Tasks -------------------------------
(***************************************************************************)
(* The FreeRTOS tasks that share the switch's RAM, and the single core     *)
(* they share.  The control task (routines_task, routines.c) outranks the  *)
(* HTTP server task, which outranks the esp_timer daemon that runs the     *)
(* button sampler (http_server.c:18-20).  The scheduler is preemptive and  *)
(* strictly prioritised: a task executes a step only while every task      *)
(* above it is blocked.  What blocks a task depends on the component, so   *)
(* that set is a parameter of CanRun.                                      *)
(***************************************************************************)
EXTENDS Naturals

Ctrl  == "ctrl"
Httpd == "httpd"
Timer == "timer"

Task == {Ctrl, Httpd, Timer}

\* ROUTINES_PRIO 5, HTTPD_TASK_PRIO 3, the esp_timer daemon at 2.
Prio(t) == CASE t = Ctrl -> 5 [] t = Httpd -> 3 [] t = Timer -> 2

\* Task t may take a step when every task of higher priority is blocked.
CanRun(t, blocked) == \A u \in Task : Prio(u) > Prio(t) => u \in blocked

=============================================================================
