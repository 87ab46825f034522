--------------------------- MODULE HttpObservation ---------------------------
(***************************************************************************)
(* http-readonly-observation-adapter.ts: a checked GET or HEAD follows its *)
(* redirects hop by hop, each under a timer of its own, and hashes the     *)
(* body it streams.                                                        *)
(*                                                                         *)
(*   call.url, .redirects   currentUrl and how often it was redirected     *)
(*   call.bytes             what has been read of the body                 *)
(*   call.timedOut          the hop's timer has fired and aborted it       *)
(*   world   the server: the hops asked for, the response to the last one  *)
(*           (Null while there is none), the bytes of its body sent so far,*)
(*           and whether the connection broke                              *)
(*                                                                         *)
(* A URL is [faults, origin, path, query].  A response is [status,         *)
(* location, declared, size]: location is a URL or Null, declared its      *)
(* content-length or Null.                                                 *)
(***************************************************************************)
EXTENDS ToolCall

CONSTANTS
    Responses,
    UnsafeOrigins       \* isUnsafeDestinationHost of the origin's host

\* ------------------------------------------------------------------------
\* Creation and the request

\* normalizeAllowedOrigins and the limits
CreateHttpReadonlyObservationAdapter ==
    Created("http",
        /\ call.options.allowedOrigins # {}
        /\ \A url \in call.options.allowedOrigins :
              UrlError(url) = Null /\ url.path = "/" /\ url.query = <<>>
        /\ call.options.limitsValid)

AllowedOrigins == {url.origin : url \in call.options.allowedOrigins}

\* assertExecutableDestination
DestinationError(url) ==
    FirstError(<<
        <<url.origin \in AllowedOrigins, "url_not_allowed">>,
        <<call.options.allowLocalNetwork \/ url.origin \notin UnsafeOrigins, "unsafe_destination">> >>)

\* urlIdentity: the keys of the query, not its values.
UrlIdentity(url) ==
    [origin |-> url.origin, path |-> url.path,
     queryKeys |-> {url.query[i][1] : i \in DOMAIN url.query}]

\* parseAdapterArgs and what it calls
ArgsError(args) ==
    FirstError(<<
        <<~args.rawBody, "raw_body_not_allowed">>,
        <<args.keysKnown, "invalid_input">>,
        <<UrlError(args.url) = Null, UrlError(args.url)>>,
        <<DestinationError(args.url) = Null, DestinationError(args.url)>>,
        <<args.method \in {"GET", "HEAD"}, "invalid_method">>,
        <<HeadersError(args.headers) = Null, "unsafe_header">>,
        <<args.limitsValid, "invalid_input">> >>)

\* ------------------------------------------------------------------------
\* Answers

\* The receipt of arguments that were refused names no resource.
ArgsRefused(c, reason) ==
    Answer(c, [status |-> "failed",
               payload |-> [reason |-> reason, resource |-> Null, statusCode |-> Null,
                            redirects |-> 0]], Null)

\* receiptCandidateFor, failurePayload
HttpFailed(c, reason, status) ==
    Answer(c, [status |-> "failed",
               payload |-> [reason |-> reason, resource |-> UrlIdentity(c.url),
                            statusCode |-> status, redirects |-> c.redirects]], Null)

\* receiptCandidateFor, successPayload
HttpReceipt(c, status, bytes) ==
    [status |-> "succeeded",
     payload |-> [reason |-> Null, resource |-> UrlIdentity(c.url), statusCode |-> status,
                  redirects |-> c.redirects, byteLength |-> bytes]]

\* buildHttpReadonlyObservationCandidate: its subject is the final URL's identity,
\* so URLs that differ in a query value are one subject.
HttpObservationOf(c, status, bytes) ==
    [subject |-> UrlIdentity(c.url), statusCode |-> status, byteLength |-> bytes]

\* normalizeResponseMetadata checks the limit once more.
ResponseMetadataError(status, bytes) ==
    FirstError(<<
        <<status \in 100..599, "invalid_response_metadata">>,
        <<bytes <= call.options.maxResponseBytes, "response_too_large">> >>)

\* execute after a successful fetch; nothing catches what the observation throws.
HttpObserved(c, status, bytes) ==
    IF ResponseMetadataError(status, bytes) # Null THEN [c EXCEPT !.step = "thrown"]
    ELSE Answer(c, HttpReceipt(c, status, bytes), HttpObservationOf(c, status, bytes))

\* fetchHashOnly's catch
Caught(c) == HttpFailed(c, IF c.timedOut THEN "timeout" ELSE "fetch_error", Null)

\* ------------------------------------------------------------------------
\* fetchHashOnly

\* One turn of its loop up to the await of fetch, under a new timeout guard.
Fetching(c, url) == [c EXCEPT !.step = "fetching", !.url = url, !.timedOut = FALSE]
Asked(url) == [hops |-> Append(world.hops, url), response |-> Null, sent |-> 0, broken |-> FALSE]

ExecuteHttp ==
    /\ At("http", "idle")
    /\ LET args == call.request
           error == ArgsError(args)
       IN  IF error # Null
           THEN call' = ArgsRefused(call, error) /\ UNCHANGED world
           ELSE call' = Fetching(call, args.url) /\ world' = Asked(args.url)

IsRedirect(response) == response.status \in {301, 302, 303, 307, 308}

\* Mutant: a redirect too many is followed.
RedirectError_OneMore(response) ==
    LET next == response.location
    IN  FirstError(<<
            <<next # Null, "unsafe_redirect">>,
            <<call.redirects <= call.options.maxRedirects, "redirect_limit_exceeded">>,
            <<next # Null /\ UrlError(next) = Null /\ next.origin = call.url.origin
                /\ DestinationError(next) = Null, "unsafe_redirect">> >>)

\* The checks of a redirect response; parseRedirectUrl, isUnsafeRedirect.
RedirectError(response) ==
    LET next == response.location
    IN  FirstError(<<
            <<next # Null, "unsafe_redirect">>,
            <<call.redirects < call.options.maxRedirects, "redirect_limit_exceeded">>,
            <<next # Null /\ UrlError(next) = Null /\ next.origin = call.url.origin
                /\ DestinationError(next) = Null, "unsafe_redirect">> >>)

\* The checks of a final response before its body is read.
ResponseError(response) ==
    FirstError(<<
        <<response.status \in 200..299, "non_success_status">>,
        <<call.request.method = "HEAD" \/ response.declared = Null
            \/ response.declared <= call.options.maxResponseBytes, "response_too_large">> >>)

\* The continuation of fetch.
ResponseArrives ==
    LET response == world.response
    IN  /\ At("http", "fetching") /\ response # Null
        /\ IF IsRedirect(response)
           THEN LET error == RedirectError(response)
                IN  IF error # Null
                    THEN call' = HttpFailed(call, error, response.status) /\ UNCHANGED world
                    ELSE /\ call' = [Fetching(call, response.location) EXCEPT !.redirects = @ + 1]
                         /\ world' = Asked(response.location)
           ELSE /\ UNCHANGED world
                /\ call' = IF ResponseError(response) # Null
                           THEN HttpFailed(call, ResponseError(response), response.status)
                           ELSE IF call.request.method = "HEAD"
                           THEN HttpObserved(call, response.status, 0)
                           ELSE [call EXCEPT !.step = "reading"]

\* Mutant: only what had been read before the last chunk is compared.
ChunkArrives_OneLate ==
    /\ At("http", "reading") /\ ~call.timedOut
    /\ \E bytes \in 1..(world.sent - call.bytes) :
          call' = IF call.bytes > call.options.maxResponseBytes
                  THEN HttpFailed(call, "response_too_large", world.response.status)
                  ELSE [call EXCEPT !.bytes = @ + bytes]
    /\ UNCHANGED world

\* hashResponseBody: what a read returns is counted before it is hashed.
ChunkArrives ==
    /\ At("http", "reading") /\ ~call.timedOut
    /\ \E bytes \in 1..(world.sent - call.bytes) :
          call' = IF call.bytes + bytes > call.options.maxResponseBytes
                  THEN HttpFailed(call, "response_too_large", world.response.status)
                  ELSE [call EXCEPT !.bytes = @ + bytes]
    /\ UNCHANGED world

BodyEnds ==
    /\ At("http", "reading") /\ ~call.timedOut
    /\ call.bytes = world.response.size
    /\ call' = HttpObserved(call, world.response.status, call.bytes)
    /\ UNCHANGED world

\* Mutant: the timer is cleared when the response is there.
TimeoutFires_FetchOnly ==
    /\ At("http", "fetching") /\ ~call.timedOut
    /\ call' = [call EXCEPT !.timedOut = TRUE]
    /\ UNCHANGED world

\* createTimeoutGuard's timer: it runs until the hop's finally clears it.
TimeoutFires ==
    /\ call.tool = "http" /\ call.step \in {"fetching", "reading"} /\ ~call.timedOut
    /\ call' = [call EXCEPT !.timedOut = TRUE]
    /\ UNCHANGED world

\* An abort or a broken connection rejects what is awaited; a response that is
\* there already is still handled.
Rejected ==
    /\ call.tool = "http"
    /\ call.timedOut \/ world.broken
    /\ \/ call.step = "fetching" /\ world.response = Null
       \/ call.step = "reading"
    /\ call' = Caught(call)
    /\ UNCHANGED world

\* ------------------------------------------------------------------------
\* The server

Idling == [hops |-> <<>>, response |-> Null, sent |-> 0, broken |-> FALSE]

ServerResponds ==
    /\ At("http", "fetching") /\ world.response = Null /\ ~world.broken /\ ~call.timedOut
    /\ \E response \in Responses : world' = [world EXCEPT !.response = response]
    /\ UNCHANGED call

ServerSends ==
    /\ At("http", "reading") /\ ~world.broken /\ world.sent < world.response.size
    /\ world' = [world EXCEPT !.sent = @ + 1]
    /\ UNCHANGED call

ConnectionBreaks ==
    /\ call.tool = "http" /\ call.step \in {"fetching", "reading"} /\ ~world.broken
    /\ world' = [world EXCEPT !.broken = TRUE]
    /\ UNCHANGED call

HttpCall(options, request) ==
    Over(NewCall("http", options, request),
         [url |-> Null, redirects |-> 0, bytes |-> 0, timedOut |-> FALSE])

HttpNext ==
    \/ CreateHttpReadonlyObservationAdapter
    \/ ExecuteHttp \/ ResponseArrives \/ ChunkArrives \/ BodyEnds \/ TimeoutFires \/ Rejected
    \/ ServerResponds \/ ServerSends \/ ConnectionBreaks

\* Timers fire and promises settle; nothing is assumed of the server.
HttpFairness ==
    /\ WF_toolVars(ExecuteHttp \/ ResponseArrives)
    /\ WF_toolVars(TimeoutFires)
    /\ WF_toolVars(Rejected)

\* ------------------------------------------------------------------------

\* No observation is thrown away for its size after its body was accepted; and
\* success is said of the last response asked for, a 2xx one from the origin first
\* asked, whose whole body was read and is within the limit.
HttpReceiptIsTrue ==
    /\ call.step # "thrown"
    /\ Succeeded =>
        LET payload == call.receipt.payload
            last == world.hops[Len(world.hops)]
        IN  /\ world.response.status \in 200..299 /\ payload.statusCode = world.response.status
            /\ payload.resource = UrlIdentity(last) /\ last.origin = call.request.url.origin
            /\ payload.byteLength =
                  (IF call.request.method = "HEAD" THEN 0 ELSE world.response.size)
            /\ payload.byteLength <= call.options.maxResponseBytes
            /\ call.observation.subject = payload.resource

\* No more hops than maxRedirects allows, all to one allowed origin.
HopsAreBounded ==
    call.tool = "http" =>
        \A i \in DOMAIN world.hops :
            /\ i <= call.options.maxRedirects + 1
            /\ world.hops[i].origin = world.hops[1].origin
            /\ world.hops[i].origin \in AllowedOrigins
=============================================================================
