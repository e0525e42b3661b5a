------------------------------ MODULE MCJobQueue ------------------------------
(* Four clients for two slots: two clients can be parked behind two jobs, so
   that the order of the parked ones and every mix of giving up, handing over
   and closing occurs. *)
EXTENDS JobQueue
=============================================================================
