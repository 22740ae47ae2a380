--------------------------- MODULE DocumentParsing ---------------------------
(***************************************************************************)
(* What parse_document does with an upload (ingest/parsing.py): it chooses  *)
(* a parser by the file name's extension, a PDF has a second parser that    *)
(* rescues a failure of the first, and everything else has one.             *)
(*                                                                          *)
(* An upload is abstracted to the format its name announces, whether each   *)
(* parser can read its bytes, and the number of chunks its text splits      *)
(* into.  The bytes are the same on every run, so the outcome is a function *)
(* of the upload.                                                           *)
(***************************************************************************)
EXTENDS Naturals

Format == {"text", "docx", "pdf", "unsupported"}

Upload == [format : Format, primary : BOOLEAN, rescue : BOOLEAN, chunks : Nat]

\* Does parse_document return a text for this upload?
Parses(u) ==
    CASE u.format = "unsupported"    -> FALSE
      [] u.format = "pdf"            -> u.primary \/ u.rescue
      [] u.format \in {"text","docx"} -> u.primary

\* ParseResult.used_fallback_parser: "none" where a rescue does not exist.
FallbackFlag(u) ==
    CASE u.format # "pdf" -> "none"
      [] u.format = "pdf" -> IF u.primary THEN "primary" ELSE "rescue"

=============================================================================
