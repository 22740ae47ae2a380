--------------------------- MODULE MCIngestService ---------------------------
(* Instances of IngestService for TLC. *)
EXTENDS IngestService

\* A text in two chunks, one in none, and a file whose MIME type is supported
\* while its name is not: the handler checks the former, the parser the latter.
MCUploads ==
    {[format |-> "text", primary |-> TRUE, rescue |-> FALSE, chunks |-> 2],
     [format |-> "text", primary |-> TRUE, rescue |-> FALSE, chunks |-> 0],
     [format |-> "unsupported", primary |-> TRUE, rescue |-> FALSE, chunks |-> 1]}

\* Every request with any credentials that do not authenticate it, and one for
\* each way that does: with the key, and with a token.
MCRequests ==
    {r \in Request :
        \/ ~Authentic(r.settings, r.headers)
        \/ r.settings = [admin_api_key |-> "secret", jwks |-> TRUE]
           /\ r.headers \in {[api_key |-> "secret", authorization |-> "malformed"],
                             [api_key |-> None, authorization |-> "good"]}}

\* The scheduler runs a job once, when it is pending.
OnlyPending == {"pending"}

=============================================================================
