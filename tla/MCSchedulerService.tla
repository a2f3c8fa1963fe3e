------------------------- MODULE MCSchedulerService -------------------------
(* SchedulerService for TLC: two configured jobs and one name the          *)
(* application uses for tasks of its own.                                  *)
EXTENDS SchedulerService

MCJobs == <<"cleanup", "report">>
=============================================================================
