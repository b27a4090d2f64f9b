----------------------------- MODULE Documents ------------------------------
(***************************************************************************)
(* The document tools (src/src/tools/documents.rs, compile.rs) as          *)
(* concurrent requests to one IRIS server: get, put, delete, compile and   *)
(* put_and_compile, which is a put followed by a compile.  Each is one or  *)
(* two HTTP exchanges; the client gives one up after timeout_secs, while   *)
(* IRIS may still be about to serve it.                                    *)
(*                                                                         *)
(* One document stands for all: requests for different documents do not    *)
(* touch each other.  What client c writes is called c, or Stale when it   *)
(* is written for a call that was given up.  IRIS is external: it refuses  *)
(* to overwrite a document unless told to ignore conflicts, since the      *)
(* client never sends a timestamp to compare.                              *)
(***************************************************************************)
EXTENDS ApiClient

CONSTANTS Clients,   \* requests that can be served at once
          Absent,    \* no document, nothing compiled
          Stale      \* a text whose put was given up by its caller

ASSUME TextAssumption == Absent \notin Clients /\ Stale \notin Clients /\ Absent # Stale

VARIABLES version,   \* settings.iris_api_version
          speaks,    \* the highest API version this IRIS serves
          stored,    \* whose text the document has
          late,      \* writes that IRIS may still serve, with nobody waiting
          req        \* req[c]: the tool call c makes

dvars == <<version, speaks, stored, late, req>>

Texts == Clients \cup {Stale, Absent}
Steps == {"get", "put", "delete", "compile"}
Ops   == Steps \cup {"putCompile"}
None  == "none"

\* `pc`: with the client, the handler, IRIS, the handler again; `sent`: the API
\* version in the URL. Ghosts: `writes` counts the puts of the call that took
\* effect, `built` is what it compiled, `missed` that IRIS found no document.
Req == [pc : {"idle", "queued", "send", "iris", "replied", "done"}, op : Ops, step : Steps,
        ignore : BOOLEAN, sent : 0..9, reply : Reply,
        answer : Outcomes \cup {None, "dropped"},
        writes : 0..2, built : Texts, missed : BOOLEAN]

NoReq == [pc |-> "idle", op |-> "get", step |-> "get", ignore |-> FALSE, sent |-> 0,
          reply |-> NoReply, answer |-> None, writes |-> 0, built |-> Absent,
          missed |-> FALSE]

\* A write as IRIS sees it.
Write(c) == [step |-> req[c].step, ignore |-> req[c].ignore]

DInit(v, s) ==
    /\ version = v /\ speaks = s
    /\ stored \in {Stale, Absent}
    /\ late = {}
    /\ req = [c \in Clients |-> NoReq]
-----------------------------------------------------------------------------
\* A tool call arrives.
Call(c, op, ignore) ==
    /\ req[c].pc = "idle"
    /\ req' = [req EXCEPT ![c] = [NoReq EXCEPT
                 !.pc = "queued", !.op = op, !.ignore = ignore,
                 !.step = IF op = "putCompile" THEN "put" ELSE op]]
    /\ UNCHANGED <<version, speaks, stored, late>>

\* The handler of the call starts.
Handle(c) ==
    /\ req[c].pc = "queued"
    /\ req' = [req EXCEPT ![c].pc = "send"]
    /\ UNCHANGED <<version, speaks, stored, late>>

\* api_url reads the version, then the request is sent.
Send(c) ==
    /\ req[c].pc = "send"
    /\ req' = [req EXCEPT ![c].pc = "iris", ![c].sent = Prefix(version)]
    /\ UNCHANGED <<version, speaks, stored, late>>

Outcome(r) == IF r.step = "compile" THEN CompileOutcome(r.reply) ELSE Absorb(r.reply)

\* put_and_compile has its first exchange behind it.
MovesOn(r) == r.op = "putCompile" /\ r.step = "put" /\ Outcome(r) = "ok"

Absorbs(c) ==
    /\ req[c].pc = "replied"
    /\ req' = [req EXCEPT ![c] =
                 IF MovesOn(req[c])
                 THEN [@ EXCEPT !.pc = "send", !.step = "compile", !.reply = NoReply]
                 ELSE [@ EXCEPT !.pc = "done", !.answer = Outcome(req[c]), !.reply = NoReply]]
    /\ UNCHANGED <<version, speaks, stored, late>>

\* A request nobody waits for any more is lost or served later. (At most one
\* write is kept; reads and compilations change no document.)
Abandon(C) ==
    \/ UNCHANGED late
    \/ /\ late = {}
       /\ \E c \in C : /\ req[c].pc = "iris" /\ req[c].step \in {"put", "delete"}
                       /\ late' = {Write(c)}

\* Seeded fault: a call without an answer is sent once more.
TimesOutFaulty(c) ==
    /\ req[c].pc \in {"send", "iris", "replied"}
    /\ req' = [req EXCEPT ![c].pc = "send", ![c].reply = NoReply]
    /\ Abandon({c})
    /\ UNCHANGED <<version, speaks, stored>>

\* The error of an exchange that is given up. Once the head of the reply is there
\* absorb reads the body, and whatever ends that, the time-out and a cut connection
\* included, is an invalid envelope ("non-JSON body") to it.
Lost(r) == {"network"} \cup (IF r.pc = "replied" THEN {"envelope"} ELSE {})

\* reqwest: no connection, or no reply, or only a part of one, within timeout_secs.
\* Nothing is retried.
TimesOut(c) ==
    /\ req[c].pc \in {"send", "iris", "replied"}
    /\ \E a \in Lost(req[c]) :
          req' = [req EXCEPT ![c].pc = "done", ![c].answer = a, ![c].reply = NoReply]
    /\ Abandon({c})
    /\ UNCHANGED <<version, speaks, stored>>

\* The caller has read the answer.
Return(c) ==
    /\ req[c].pc = "done"
    /\ req' = [req EXCEPT ![c] = NoReq]
    /\ UNCHANGED <<version, speaks, stored, late>>
-----------------------------------------------------------------------------
(***************************************************************************)
(* IRIS serves a request.                                                  *)
(***************************************************************************)
\* IRIS replies r to c, whose ghosts are then those of g.
Answers(c, r, g) ==
    /\ req' = [req EXCEPT ![c] = [g EXCEPT !.pc = "replied", !.reply = r]]
    /\ UNCHANGED <<version, speaks, late>>

Asked(c, step) == req[c].pc = "iris" /\ req[c].step = step /\ req[c].sent <= speaks

Finds(c) ==
    /\ Asked(c, "get")
    /\ IF stored = Absent
       THEN Answers(c, Status("notFound"), [req[c] EXCEPT !.missed = TRUE])
       ELSE Answers(c, Fine, req[c])
    /\ UNCHANGED stored

Writes(c) ==
    /\ Asked(c, "put")
    /\ stored = Absent \/ req[c].ignore
    /\ stored' = c
    /\ Answers(c, Fine, [req[c] EXCEPT !.writes = @ + 1])

Conflicts(c) ==
    /\ Asked(c, "put")
    /\ stored # Absent /\ ~req[c].ignore
    /\ Answers(c, Status("conflict"), req[c])
    /\ UNCHANGED stored

Deletes(c) ==
    /\ Asked(c, "delete")
    /\ IF stored = Absent
       THEN Answers(c, Status("notFound"), [req[c] EXCEPT !.missed = TRUE])
       ELSE Answers(c, Fine, req[c])
    /\ stored' = Absent

Compiles(c) ==
    /\ Asked(c, "compile")
    /\ stored # Absent
    /\ Answers(c, Fine, [req[c] EXCEPT !.built = stored])
    /\ UNCHANGED stored

\* Errors in the envelope, or in the status of the document.
FailsToCompile(c) ==
    /\ Asked(c, "compile")
    /\ Answers(c, [Fine EXCEPT !.failed = TRUE], req[c])
    /\ UNCHANGED stored

\* No such route; or an error status, an envelope with errors, a proxy's page.
Rejects(c) ==
    /\ req[c].pc = "iris"
    /\ \/ req[c].sent > speaks /\ Answers(c, Status("notFound"), req[c])
       \/ Answers(c, Status("other"), req[c])
       \/ Answers(c, [Fine EXCEPT !.errors = TRUE], req[c])
       \/ Answers(c, [Fine EXCEPT !.json = FALSE], req[c])
    /\ UNCHANGED stored

ServesLate(w) ==
    /\ late' = late \ {w}
    /\ stored' = IF w.step = "delete" THEN Absent
                 ELSE IF stored = Absent \/ w.ignore THEN Stale ELSE stored
    /\ UNCHANGED <<version, speaks, req>>

Iris == \/ \E c \in Clients : \/ Finds(c) \/ Writes(c) \/ Conflicts(c) \/ Deletes(c)
                              \/ Compiles(c) \/ FailsToCompile(c) \/ Rejects(c)
        \/ \E w \in late : ServesLate(w)
-----------------------------------------------------------------------------
(***************************************************************************)
(* Properties.                                                             *)
(***************************************************************************)

\* Every variable has its type, and only the two steps of put_and_compile differ
\* from the tool that was called.
DocumentsTypeOK ==
    /\ version \in 0..9 /\ speaks \in 1..9
    /\ stored \in Texts
    /\ late \subseteq [step : {"put", "delete"}, ignore : BOOLEAN]
    /\ req \in [Clients -> Req]
    /\ \A c \in Clients : \/ req[c].step = req[c].op
                          \/ req[c].op = "putCompile" /\ req[c].step \in {"put", "compile"}

Answered(c, a) == req[c].pc = "done" /\ req[c].answer = a

\* A tool that reports success has had its effect, although errors can come in a
\* reply of status 200, in the envelope or beside one document: a put has been
\* written, a compilation has compiled, and a put_and_compile has done both. The
\* two steps are not atomic: another caller may overwrite the text in between, but
\* if the document still has the caller's text, that is what was compiled.
SuccessMeansDone ==
    \A c \in Clients : Answered(c, "ok") =>
        /\ req[c].op \in {"put", "putCompile"} => req[c].writes = 1
        /\ req[c].op \in {"compile", "putCompile"} => req[c].built # Absent
        /\ req[c].op = "putCompile" /\ stored = c => req[c].built = c

\* "The only legitimate 404 in the Atelier API" (iris/documents.rs:80-81): a get or
\* delete that answers DocNotFound met no document, unless the version was not
\* negotiated and this IRIS does not serve the default one.
NotFoundMeansAbsent ==
    \A c \in Clients : Answered(c, "notFound") /\ req[c].op \in {"get", "delete"} =>
        req[c].missed \/ Prefix(version) > speaks

\* The errors that leave open what IRIS has done. "envelope" is one of them: it
\* is the answer to a page that is no envelope and to a reply that broke off, be it
\* of a put that took effect (iris/http.rs:298-301).
Unclear == {"network", "envelope", "dropped"}

\* A tool that reports an error of IRIS's own, a status, an error of the envelope
\* or of a document, has not had its effect, but for put_and_compile, whose compile
\* step may fail after the put. After any other error the put may have been
\* written, but once: nothing is sent again. A refused put is not followed by a
\* compilation of somebody else's text, and what was not found was absent.
FailureMeansUndone ==
    /\ NotFoundMeansAbsent
    /\ \A c \in Clients :
          /\ req[c].writes <= 1
          /\ req[c].pc = "done" /\ req[c].answer \notin {"ok"} \cup Unclear =>
                /\ req[c].writes > 0 => req[c].op = "putCompile" /\ req[c].step = "compile"
                /\ req[c].built = Absent
=============================================================================
