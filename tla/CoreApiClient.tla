---------------------------- MODULE CoreApiClient ----------------------------
(***************************************************************************)
(* The calls of a coreapi client that are under way.  A call of action() is  *)
(* one turn of the event loop: it throws, or the request is built and handed *)
(* to fetch.  The answer comes in two later turns, its head and then its     *)
(* text, and either may fail.  The continuations of a promise run in the     *)
(* turn in which it settles.                                                 *)
(***************************************************************************)
EXTENDS CoreApi

CONSTANTS
    Calls,   \* the calls of action()
    Answers  \* what the server may answer: status, contentType, wellFormed

VARIABLE
    call  \* call[c]: the phase of c, its request, the answer to it, and the answer that the
          \* response callback was called with

clientVars == <<call>>

Unused == [phase |-> "unused", request |-> Absent, answer |-> Absent, heard |-> Absent]
Phases == {"unused", "thrown", "sent", "body", "resolved", "rejected"}
Pending == {"sent", "body"}
Settled == {"resolved", "rejected"}

ClientTypeOK ==
    /\ DOMAIN call = Calls
    /\ \A c \in Calls :
        /\ DOMAIN call[c] = DOMAIN Unused
        /\ call[c].phase \in Phases
        /\ call[c].answer \in Answers \cup {Absent}
        /\ call[c].heard \in Answers \cup {Absent}
        /\ call[c].phase = "body" => call[c].answer \in Answers /\ ~NoContent(call[c].answer)

ClientInit == call = [c \in Calls |-> Unused]

\* The link is looked up and its request built before anything is sent; each may throw.
action(c, document, keys, params, auth) ==
    LET link == lookupLink(document, keys)
    IN /\ call[c].phase = "unused"
       /\ call' = [call EXCEPT ![c] =
              IF \/ link = Absent
                 \/ ~determineTransport(link)
                 \/ ParameterError(link.fields, params)
                 \/ AssignmentError(link.fields, params)
              THEN [Unused EXCEPT !.phase = "thrown"]
              ELSE [Unused EXCEPT !.phase = "sent", !.request = buildRequest(link, params, auth)]]

\* The promise of fetch resolves.  An answer without content is not read at all.
Answered(c, answer) ==
    /\ call[c].phase = "sent"
    /\ ~BodyNotAllowed(call[c].request)
    /\ call' = [call EXCEPT ![c].answer = answer,
                            ![c].phase = IF NoContent(answer) THEN "resolved" ELSE "body"]

\* Mutant of parseResponse: what can be decoded is a success.
parseResponseAnyStatus(c) ==
    /\ call[c].phase = "body"
    /\ call' = [call EXCEPT ![c].heard = call[c].answer,
                            ![c].phase = IF Decodes(call[c].answer) THEN "resolved" ELSE "rejected"]

\* The text has been read: the callback hears of it, and it is decoded.
parseResponse(c) ==
    /\ call[c].phase = "body"
    /\ call' = [call EXCEPT ![c].heard = call[c].answer,
                            ![c].phase = IF Ok(call[c].answer) /\ Decodes(call[c].answer)
                                         THEN "resolved" ELSE "rejected"]

\* fetch refuses the request, or the connection fails before the head or within the text.
Failed(c) ==
    /\ call[c].phase \in Pending
    /\ call' = [call EXCEPT ![c].phase = "rejected"]

(***************************************************************************)
(* What this client promises (ApiCalls): a call whose head has come is       *)
(* still pending.                                                           *)
(***************************************************************************)
OutcomeOf(phase) ==
    CASE phase = "unused" -> "none" [] phase \in Pending -> "pending" [] OTHER -> phase

Contents == {a \in Answers : ~NoContent(a)}

Promise == INSTANCE ApiCalls WITH
    Answers <- Contents,
    Useful <- {a \in Contents : Ok(a) /\ Decodes(a)},
    outcome <- [c \in Calls |-> OutcomeOf(call[c].phase)],
    heard <- [c \in Calls |-> call[c].heard]
=============================================================================
