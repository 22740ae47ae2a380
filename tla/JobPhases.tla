------------------------------ MODULE JobPhases ------------------------------
(***************************************************************************)
(* The closed vocabulary of phases that job_queue.payload["phase"] takes    *)
(* (ingest/job_store.py) and the status the polling API derives from it     *)
(* (api/ingest_routes.py).                                                  *)
(***************************************************************************)
EXTENDS Naturals

JobPhase == {"pending", "parsed", "chunked", "indexing", "ready", "failed"}

\* Phases a job leaves behind it; the other two end it.
Settled == {"ready", "failed"}
Working == JobPhase \ Settled

\* Position of a phase on the way from upload to searchable document.
Rank == [p \in JobPhase |->
            CASE p = "pending"  -> 0
              [] p = "parsed"   -> 1
              [] p = "chunked"  -> 2
              [] p = "indexing" -> 3
              [] OTHER          -> 4]

ApiStatus == {"pending", "parsing", "indexing", "ready", "failed"}

\* What a poll answers for a job in the given phase.
MapPhaseToStatus(phase) ==
    IF phase \in {"parsed", "chunked"} THEN "parsing" ELSE phase

\* Position of a status, "unknown" being that of no job at all.
StatusRank(s) ==
    CASE s = "unknown" -> 0
      [] s = "pending" -> 1
      [] s = "parsing" -> 2
      [] s = "indexing" -> 3
      [] OTHER -> 4

=============================================================================
