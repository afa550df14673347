---------------------------- MODULE ProxyRequest ----------------------------
(***************************************************************************)
(* One request through handleRequest and proxyRequest of                   *)
(* pkg/proxy/proxy.go: the choice of an upstream, the exchange with it,    *)
(* and the answer to the client.  The status goes out before the body is   *)
(* copied; when the copy fails, handleRequest answers once more into the   *)
(* same response.  The upstream may hang or break off at any point, the    *)
(* client may go away.  net/http's server and client are modelled from how *)
(* the proxy uses them.  A body is its length, counted in units; the text  *)
(* of an error answer is left out.                                         *)
(***************************************************************************)
EXTENDS Integers

CONSTANT BodyLengths     \* lengths of upstream bodies

ASSUME RequestAssumption == BodyLengths \subseteq Nat

VARIABLES
    stage,           \* where handleRequest is
    status,          \* the status sent to the client, 0 for none yet
    upstreamLength,  \* length of the upstream's body
    framing,         \* how the upstream marks the end of its body
    copied,          \* units of the body copied to the client
    respBody,        \* resp.Body: "none", "open" or "closed"
    client,          \* "there" or "gone": whether writes reach the client
    overdue          \* whether the http.Client's Timeout has passed

requestVars == <<stage, status, upstreamLength, framing, copied, respBody, client, overdue>>

\* A Content-Length, chunks with a last one, or the end of the connection.
Framings == {"length", "chunked", "close"}

RequestInit ==
    /\ stage = "idle" /\ status = 0
    /\ upstreamLength \in BodyLengths /\ framing \in Framings
    /\ copied = 0
    /\ respBody = "none" /\ client = "there" /\ overdue = FALSE

-----------------------------------------------------------------------------
\* http.Error (external): the status, unless one was sent before.
Error(code) ==
    /\ status' = IF status = 0 THEN code ELSE status
    /\ stage' = "returned"

\* SelectBackend: with no healthy backend the answer is 502.
SelectUpstream ==
    /\ stage = "idle"
    /\ \/ stage' = "do" /\ UNCHANGED status
       \/ Error(502)
    /\ UNCHANGED <<upstreamLength, framing, copied, respBody, client, overdue>>

\* client.Do fails: no connection, no answer in time, or the client is gone;
\* so does an upstream address that is no URL.  errors.go: ProxyError is 502.
DoFails ==
    /\ stage = "do"
    /\ Error(502)
    /\ UNCHANGED <<upstreamLength, framing, copied, respBody, client, overdue>>

\* client.Do returns a response; its headers and status go to the client.
DoReturns ==
    /\ stage = "do" /\ ~overdue
    /\ stage' = "copy" /\ status' = 200 /\ respBody' = "open"
    /\ UNCHANGED <<upstreamLength, framing, copied, client, overdue>>

\* io.Copy: one unit is read and written.
CopyUnit ==
    /\ stage = "copy" /\ client = "there" /\ ~overdue
    /\ copied < upstreamLength
    /\ copied' = copied + 1
    /\ UNCHANGED <<stage, status, upstreamLength, framing, respBody, client, overdue>>

\* The deferred resp.Body.Close().
CloseBody == respBody' = "closed"

\* Whether the body that io.Copy reads ends here.  A Content-Length tells by
\* itself, a last chunk must arrive; without either the body ends when the
\* upstream closes the connection, also if that is too early: net/http cannot
\* tell the difference, and io.Copy returns no error for a body cut short.
MeetsEnd == framing = "close" \/ copied = upstreamLength

\* io.Copy has met the end of the body.
CopyEnds ==
    /\ stage = "copy" /\ MeetsEnd
    /\ CloseBody
    /\ stage' = "returned"
    /\ UNCHANGED <<status, upstreamLength, framing, copied, client, overdue>>

\* Only a Content-Length is met as soon as the last unit is read; a body in
\* chunks or up to the end of the connection may break off after it.
MayFail == copied < upstreamLength \/ framing # "length" \/ client = "gone"

\* io.Copy fails before the end: the upstream broke off, the Timeout of the
\* http.Client has passed, or the client is gone.  handleRequest calls
\* http.Error on the response that has its status already.
CopyFails ==
    /\ stage = "copy" /\ MayFail
    /\ CloseBody
    /\ Error(502)
    /\ UNCHANGED <<upstreamLength, framing, copied, client, overdue>>

\* The client disconnects, or the server's WriteTimeout has passed.
ClientGone ==
    /\ stage # "returned" /\ client = "there"
    /\ client' = "gone"
    /\ UNCHANGED <<stage, status, upstreamLength, framing, copied, respBody, overdue>>

\* Mutant of TimeoutPasses: the http.Client has no Timeout.
TimeoutPasses_Never == FALSE /\ UNCHANGED requestVars

\* Timeout: 30 * time.Second of the http.Client, for the body as well.
TimeoutPasses ==
    /\ stage \in {"do", "copy"} /\ ~overdue
    /\ overdue' = TRUE
    /\ UNCHANGED <<stage, status, upstreamLength, framing, copied, respBody, client>>

\* What handleRequest does of itself.  The upstream's part is not in it: units
\* of the body, a last chunk, the end of the connection.  Nor is it sure to
\* notice that the client is gone.
HandlerStep ==
    \/ SelectUpstream
    \/ overdue /\ (DoFails \/ CopyFails)
    \/ framing = "length" /\ CopyEnds

RequestNext ==
    \/ SelectUpstream \/ DoFails \/ DoReturns \/ CopyUnit \/ CopyEnds \/ CopyFails
    \/ ClientGone \/ TimeoutPasses

\* The handler's goroutine runs and the timeout passes.  Nothing is assumed of
\* the upstream, which may hang, or of the client.
RequestFairness == WF_requestVars(HandlerStep) /\ WF_requestVars(TimeoutPasses)

RequestSpec == RequestInit /\ [][RequestNext]_requestVars /\ RequestFairness

-----------------------------------------------------------------------------
\* A request ends, although the upstream may never answer or never finish.
RequestEnds == stage = "do" ~> stage = "returned"

=============================================================================
