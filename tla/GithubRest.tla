----------------------------- MODULE GithubRest -----------------------------
(***************************************************************************)
(* github-rest-adapter.ts: a request is checked against the repository     *)
(* scopes, sent once, and a write whose outcome is not known is thrown for *)
(* the broker to quarantine.  Nothing bounds the time fetch may take.      *)
(*                                                                         *)
(*   world   the server: the headers it was sent (Null before), whether it *)
(*           has carried the request out, its answer (Null, Lost or a      *)
(*           response [status, declared, size]), and its body: "streaming",*)
(*           "ended" or "broken"                                           *)
(*                                                                         *)
(* A URL is [faults, host, path]: what is wrong with its text, its scheme  *)
(* and host, and the segments of its path; args.given says whether it is   *)
(* given whole ("url") or by its path alone.  A body is Null or [object,   *)
(* base, head]; a branch is a name, or Null when the body has none that is *)
(* safe.  Names are lower case already.                                    *)
(***************************************************************************)
EXTENDS ToolCall, SequencesExt

CONSTANTS GithubResponses, PullNumbers,
    Lost        \* the answer of a connection that fails

\* The statuses of responses fetch resolves with.
ASSUME GithubStatuses == \A response \in GithubResponses : response.status \in 200..599

ReadMethods == {"GET", "HEAD"}
WriteMethods == {"DELETE", "PATCH", "POST", "PUT"}
Methods == IF call.options.mode = "read" THEN ReadMethods ELSE WriteMethods

Operations == {"get_repository", "list_pull_requests", "create_pull_request",
               "get_pull_request", "update_pull_request", "merge_pull_request"}

\* normalizeMode, normalizeAllowedBaseUrls, normalizeRepositoryScopes, limits
CreateGithubRestAdapter ==
    LET options == call.options
    IN  Created("github",
            /\ options.mode \in {"read", "write"}
            /\ options.allowedBases # <<>>
            /\ \A i \in DOMAIN options.allowedBases :
                  UrlError(options.allowedBases[i]) = Null
            /\ options.scopes # <<>>
            /\ \A i \in DOMAIN options.scopes :
                  LET scope == options.scopes[i]
                  IN  /\ scope.allowedOperations # {}
                      /\ scope.allowedOperations \subseteq Operations
                      /\ scope.baseBranches # {} /\ scope.headBranches # {}
            /\ options.limitsValid)

\* ------------------------------------------------------------------------
\* The request

\* parseScopedUrl: a path is taken on the host of the first allowed base.
ScopedUrl(args) ==
    IF args.given = {"path"} THEN [args.url EXCEPT !.host = call.options.allowedBases[1].host]
    ELSE args.url

\* parseScopedUrl's checks, with parsePathUrl, parseHttpUrl and isAllowedUrl
ScopedUrlError(args) ==
    LET url == ScopedUrl(args)
    IN  FirstError(<<
            <<Cardinality(args.given) = 1, "invalid_url">>,
            <<args.given = {"path"} => "relative" \notin url.faults, "invalid_url">>,
            <<UrlError(url) = Null, UrlError(url)>>,
            <<\E i \in DOMAIN call.options.allowedBases :
                  LET base == call.options.allowedBases[i]
                  IN  url.host = base.host /\ IsPrefix(base.path, url.path),
              "base_url_not_allowed">> >>)

\* bodyForMethod
BodyError(args) ==
    IF args.body = Null \/ (args.method \notin {"GET", "HEAD", "DELETE"} /\ args.body.object)
    THEN Null ELSE "invalid_body"

\* pathSegments: the whole path's, that of the allowed base included.
SegmentsError(url) == IF "encoded" \in url.faults THEN "invalid_url" ELSE Null

\* parseGithubResource: what the path asks for, Null when that is out of scope.
OperationOf(segments, method) ==
    LET rest == SubSeq(segments, 4, Len(segments))
        read == method \in ReadMethods
        pull == Len(rest) > 1 /\ rest[2] \in PullNumbers
    IN  CASE Len(segments) < 3 \/ segments[1] # "repos" -> Null
          [] rest = <<>> -> IF read THEN "get_repository" ELSE Null
          [] rest[1] # "pulls" -> Null
          [] Len(rest) = 1 -> IF read THEN "list_pull_requests"
                              ELSE IF method = "POST" THEN "create_pull_request" ELSE Null
          [] Len(rest) = 2 /\ pull -> IF read THEN "get_pull_request"
                                      ELSE IF method = "PATCH" THEN "update_pull_request" ELSE Null
          [] Len(rest) = 3 /\ pull -> IF rest[3] = "merge" /\ method = "PUT"
                                      THEN "merge_pull_request" ELSE Null
          [] OTHER -> Null

\* requestBranch
RequestBranch(body, key) == IF body = Null THEN Null ELSE body[key]

\* assertCreatePullRequestBranchScope; Null stands for branches not configured.
BranchError(scope, args) ==
    LET base == RequestBranch(args.body, "base")
        head == RequestBranch(args.body, "head")
        scoped == Null \notin {scope.baseBranches, scope.headBranches}
    IN  FirstError(<<
            <<scoped, "branch_scope_required">>,
            <<Null \notin {base, head}, "branch_scope_required">>,
            <<scoped => base \in scope.baseBranches /\ head \in scope.headBranches,
              "branch_not_allowed">> >>)

\* validateGithubResourceScope: the first scope of the repository that allows the
\* operation decides about the branches.
ScopeError(owner, repo, operation, args) ==
    LET scopes == call.options.scopes
        ofOwner == {i \in DOMAIN scopes : scopes[i].owner = owner}
        ofRepo == {i \in ofOwner : scopes[i].repo = repo}
        allowing == {i \in ofRepo : operation \in scopes[i].allowedOperations}
    IN  IF ofOwner = {} THEN "owner_not_allowed"
        ELSE IF ofRepo = {} THEN "repo_not_allowed"
        ELSE IF allowing = {} THEN "endpoint_not_allowed"
        ELSE IF operation = "create_pull_request"
        THEN BranchError(scopes[CHOOSE i \in allowing : \A j \in allowing : i <= j], args)
        ELSE Null

\* parseArgs
GithubArgsError(args) ==
    LET url == ScopedUrl(args)
        segments == url.path
        operation == OperationOf(segments, args.method)
        error == FirstError(<<
            <<args.keysKnown, "invalid_input">>,
            <<args.method \in Methods, "invalid_method">>,
            <<ScopedUrlError(args) = Null, ScopedUrlError(args)>>,
            <<HeadersError(args.headers) = Null, "unsafe_header">>,
            <<BodyError(args) = Null, "invalid_body">>,
            <<SegmentsError(url) = Null, "invalid_url">>,
            <<operation # Null, "endpoint_not_allowed">> >>)
        scopeError == IF error # Null THEN error
                      ELSE ScopeError(segments[2], segments[3], operation, args)
    IN  IF scopeError # Null THEN scopeError
        ELSE IF args.limitsValid THEN Null ELSE "invalid_input"

\* capabilityScopeFailureFor, parseArgs and what execute asks of a write
GithubRefusal(args) ==
    LET write == call.options.mode = "write"
    IN  FirstError(<<
            <<args.forThisTool, "capability_scope_mismatch">>,
            <<GithubArgsError(args) = Null, GithubArgsError(args)>>,
            <<write => args.idempotencyKey # Null, "missing_idempotency_key">>,
            <<write => call.options.token # Null, "missing_token">> >>)

Header(name, value) == IF value = Null THEN <<>> ELSE [key \in {name} |-> value]

\* Mutant: the caller's headers are set last.
RequestHeadersForFetch_CallersLast(args) ==
    Over(args.headers,
    Over(Header("idempotency-key", IF call.options.mode = "write" THEN args.idempotencyKey ELSE Null),
    Over(Header("authorization", call.options.token),
    Over(Header("content-type", IF args.body = Null THEN Null ELSE "json"),
         Header("accept", "github json")))))

\* requestHeadersForFetch: later headers replace earlier ones of the same name; a
\* read carries no idempotency key of its own.
RequestHeadersForFetch(args) ==
    Over(Header("idempotency-key", IF call.options.mode = "write" THEN args.idempotencyKey ELSE Null),
    Over(Header("authorization", call.options.token),
    Over(Header("content-type", IF args.body = Null THEN Null ELSE "json"),
    Over(args.headers,
         Header("accept", "github json")))))

\* ------------------------------------------------------------------------
\* Answers

\* resourceIdentity; observation and evidence ids are made of it, so every
\* observation of one resource has the same ids.
Resource(args) ==
    LET url == ScopedUrl(args) IN <<url.host, url.path, OperationOf(url.path, args.method)>>

\* successPayload: what was asked and with which key
SuccessPayload(args, status, bytes) ==
    [reason |-> Null, resource |-> Resource(args), body |-> args.body,
     idempotencyKey |-> IF call.options.mode = "write" THEN args.idempotencyKey ELSE Null,
     statusCode |-> status, byteLength |-> bytes]

\* receiptCandidateFor, failurePayload
GithubFailed(reason, status) ==
    Answer(call, [status |-> "failed", payload |-> [reason |-> reason, statusCode |-> status]], Null)

\* receiptCandidateFor
GithubReceipt(status, bytes) ==
    [status |-> "succeeded", payload |-> SuccessPayload(call.request, status, bytes)]

GithubObservation(status, bytes) ==
    [subject |-> Resource(call.request), statusCode |-> status, byteLength |-> bytes]

ExecuteGithub ==
    /\ At("github", "idle")
    /\ LET refusal == GithubRefusal(call.request)
       IN  IF refusal # Null
           THEN call' = GithubFailed(refusal, Null) /\ UNCHANGED world
           ELSE /\ call' = [call EXCEPT !.step = "fetching"]
                /\ world' = [world EXCEPT !.sent = RequestHeadersForFetch(call.request)]

\* fetchGithubHashOnly throws: a read answers that it failed, a write throws on.
\* Mutant: both answer.
FetchThrows_AlwaysAnswers(code) == call' = GithubFailed(code, Null)

FetchThrows(code) ==
    call' = IF call.options.mode = "write" THEN [call EXCEPT !.step = "thrown"]
            ELSE GithubFailed(code, Null)

FetchFails ==
    /\ At("github", "fetching") /\ world.answer = Lost
    /\ FetchThrows("fetch_error")
    /\ UNCHANGED world

\* execute once the response has been read
GithubAnswers(status, bytes) ==
    LET write == call.options.mode = "write"
        observation == IF write THEN Null ELSE GithubObservation(status, bytes)
    IN  call' = IF write /\ status >= 500 THEN [call EXCEPT !.step = "thrown"]
                ELSE IF status \in 200..399 THEN Answer(call, GithubReceipt(status, bytes), observation)
                ELSE GithubFailed("fetch_error", status)

\* fetchGithubHashOnly's continuation of fetch; hashResponseBody counts as http's.
GithubResponseArrives ==
    LET response == world.answer
    IN  /\ At("github", "fetching") /\ response \notin {Null, Lost}
        /\ UNCHANGED world
        /\ IF response.declared # Null /\ response.declared > call.options.maxResponseBytes
           THEN FetchThrows("response_too_large")
           ELSE IF call.request.method = "HEAD" THEN GithubAnswers(response.status, 0)
           ELSE call' = [call EXCEPT !.step = "reading"]

GithubBodyRead ==
    LET response == world.answer
    IN  /\ At("github", "reading")
        /\ UNCHANGED world
        /\ \/ world.body = "broken" /\ FetchThrows("fetch_error")
           \/ /\ response.size > call.options.maxResponseBytes
              /\ FetchThrows("response_too_large")
           \/ /\ world.body = "ended" /\ response.size <= call.options.maxResponseBytes
              /\ GithubAnswers(response.status, response.size)

\* ------------------------------------------------------------------------
\* The server, as HTTP has it: a 2xx says a write was carried out, a 4xx that it was
\* not, anything else or silence says nothing.  fetch rejects a redirect it would
\* follow, so of the 3xx only those that are none get here (a 300, a 304).

NotAsked == [sent |-> Null, done |-> FALSE, answer |-> Null, body |-> "streaming"]

ServerCarriesOut ==
    /\ At("github", "fetching") /\ ~world.done /\ world.answer \in {Null, Lost}
    /\ world' = [world EXCEPT !.done = TRUE]
    /\ UNCHANGED call

ServerAnswers ==
    /\ At("github", "fetching") /\ world.answer = Null
    /\ \E answer \in GithubResponses \cup {Lost} :
          /\ answer # Lost =>
                /\ answer.status \in 200..299 => world.done
                /\ answer.status \in 400..499 => ~world.done
          /\ world' = [world EXCEPT !.answer = answer]
    /\ UNCHANGED call

BodyStops ==
    /\ At("github", "reading") /\ world.body = "streaming"
    /\ \E body \in {"ended", "broken"} : world' = [world EXCEPT !.body = body]
    /\ UNCHANGED call

GithubCall(options, request) == NewCall("github", options, request)

GithubNext ==
    \/ CreateGithubRestAdapter
    \/ ExecuteGithub \/ FetchFails \/ GithubResponseArrives \/ GithubBodyRead
    \/ ServerCarriesOut \/ ServerAnswers \/ BodyStops

GithubFairness == WF_toolVars(ExecuteGithub \/ FetchFails \/ GithubResponseArrives \/ GithubBodyRead)

\* ------------------------------------------------------------------------

\* A write's receipt that says it failed is of a write that was not carried out; one
\* that says it succeeded is of one that was, unless the status it carries is a 3xx,
\* which the adapter takes for a success.  A receipt carries the status of the answer
\* and, of a write, the key it was sent with; a read's is of the whole body.
GithubReceiptIsTrue ==
    (call.tool = "github" /\ call.receipt # Null) =>
        LET payload == call.receipt.payload
            write == call.options.mode = "write"
        IN  /\ write /\ Failed => ~world.done
            /\ Succeeded =>
                  /\ payload.statusCode = world.answer.status
                  /\ payload.byteLength =
                        (IF call.request.method = "HEAD" THEN 0 ELSE world.answer.size)
                  /\ write => /\ world.done \/ payload.statusCode \in 300..399
                              /\ payload.idempotencyKey = world.sent["idempotency-key"]

\* What is sent goes to an allowed host, one configured scope covers it, and a
\* write carries the broker's key and the adapter's token, whatever headers the
\* caller chose.
GithubSendsInScope ==
    (call.tool = "github" /\ world.sent # Null) =>
        LET args == call.request
            url == ScopedUrl(args)
            operation == OperationOf(url.path, args.method)
        IN  /\ url.host \in {call.options.allowedBases[i].host : i \in DOMAIN call.options.allowedBases}
            /\ call.options.mode = "write" =>
                  /\ Null \notin {args.idempotencyKey, call.options.token}
                  /\ world.sent["idempotency-key"] = args.idempotencyKey
                  /\ world.sent["authorization"] = call.options.token
            /\ \E i \in DOMAIN call.options.scopes :
                  LET scope == call.options.scopes[i]
                  IN  /\ scope.owner = url.path[2] /\ scope.repo = url.path[3]
                      /\ operation \in scope.allowedOperations
                      /\ operation = "create_pull_request" =>
                            args.body.base \in scope.baseBranches /\ args.body.head \in scope.headBranches
=============================================================================
