--------------------------- MODULE MCIngestPipeline ---------------------------
(* Instances of IngestPipeline for TLC. *)
EXTENDS IngestPipeline

Up(format, primary, rescue, chunks) ==
    [format |-> format, primary |-> primary, rescue |-> rescue, chunks |-> chunks]

\* A plain text in two chunks, an empty one, PDFs that need the rescue parser
\* or that neither parser reads, and a name with a foreign extension.
MCUploads == {Up("text", TRUE, FALSE, 2), Up("text", TRUE, FALSE, 0),
              Up("pdf", FALSE, TRUE, 2), Up("pdf", FALSE, FALSE, 1),
              Up("unsupported", TRUE, TRUE, 1)}

\* resume_ingest_job is called for every job that has not failed.
NotFailed == JobPhase \ {"failed"}

\* It is called for failed jobs as well.
AnyPhase == JobPhase

=============================================================================
