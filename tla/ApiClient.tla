----------------------------- MODULE ApiClient ------------------------------
(***************************************************************************)
(* What the client of the Atelier API makes of a reply (src/src/iris/      *)
(* http.rs and its callers): the API version in its URLs and the error     *)
(* class of an answer.  A reply is an HTTP status, a body that is JSON or  *)
(* not, the envelope's status.errors[], and, of a compilation, the status  *)
(* strings of the documents.                                               *)
(***************************************************************************)
EXTENDS Naturals

Reply == [http : {"ok", "notFound", "conflict", "other", "none"}, json : BOOLEAN,
          errors : BOOLEAN, failed : BOOLEAN]

Fine     == [http |-> "ok", json |-> TRUE, errors |-> FALSE, failed |-> FALSE]
Status(s) == [Fine EXCEPT !.http = s]
NoReply   == Status("none")

\* 0 stands for "not negotiated".
Prefix(version) == IF version = 0 THEN 8 ELSE version

\* Seeded fault: an envelope that lists errors passes for a success.
AbsorbFaulty(r) == IF ~r.json THEN "envelope" ELSE r.http

\* IrisClient::absorb: the body is parsed before the status is looked at.
Absorb(r) == IF ~r.json THEN "envelope"
             ELSE IF r.http # "ok" THEN r.http
             ELSE IF r.errors THEN "iris" ELSE "ok"

\* negotiate_version: best effort, and a configured version is overwritten too.
Negotiated(version, r, api) == IF Absorb(r) = "ok" /\ api > 0 THEN api ELSE version

\* compile: an envelope without errors may still report a failed document.
CompileOutcome(r) == IF Absorb(r) = "ok" /\ r.failed THEN "compile" ELSE Absorb(r)

\* The kinds of answer a document tool gives; "notFound" is DocNotFound for get
\* and delete and the bare HTTP status for the others.
Outcomes == {"ok", "envelope", "notFound", "conflict", "other", "iris", "compile", "network"}
=============================================================================
