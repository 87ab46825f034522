--------------------------- MODULE MCToolAdapters ---------------------------
(* Every tool adapter with a sound configuration and request, and with each of *)
(* their parts wrong in turn.                                                  *)
EXTENDS ToolAdapters, TLC

Wrong(base, alternatives) ==
    {base} \cup UNION {{[base EXCEPT ![part] = value] : value \in alternatives[part]} :
                          part \in DOMAIN alternatives}

Cases(tool, options, requests) == [tool : {tool}, options : options, request : requests]

\* ------------------------------------------------------------------------
\* Processes

Cwd == [absolute |-> TRUE, within |-> TRUE, target |-> "directory", targetWithin |-> TRUE]
Cwds == Wrong(Cwd, [absolute |-> {FALSE}, within |-> {FALSE},
                    target |-> {"missing", "file"}, targetWithin |-> {FALSE}])
Profile == [profileId |-> "build", keysKnown |-> TRUE, profileClass |-> "read_only_compute",
            absolute |-> TRUE, args |-> {"--run"}, cwd |-> Null, env |-> "plain",
            limitsPositive |-> TRUE]
WrongProfiles == Wrong(Profile,
    [profileId |-> {Null}, keysKnown |-> {FALSE}, absolute |-> {FALSE}, args |-> {{"--run", flag} : flag \in InteractiveOrDangerous},
     profileClass |-> {"dangerous", "filesystem_write"}, cwd |-> Cwds, limitsPositive |-> {FALSE}])

RootDir == [absolute |-> TRUE, target |-> "directory"]
Shell == [rootDir |-> RootDir, adapterKind |-> "controlled_compute",
          sideEffectClass |-> "compute", profiles |-> <<Profile>>]
Certified(kind, effect, class) ==
    [Shell EXCEPT !.adapterKind = kind, !.sideEffectClass = effect,
                  !.profiles = <<[Profile EXCEPT !.profileClass = class]>>]
ShellOptions ==
    Wrong(Shell, [rootDir |-> Wrong(RootDir, [absolute |-> {FALSE}, target |-> {"missing", "file"}]), adapterKind |-> {"deterministic_fake"},
                  sideEffectClass |-> {"read"},
                  profiles |-> {<<Profile, Profile>>} \cup {<<p>> : p \in WrongProfiles}])
    \cup {Certified("local_readonly", "read", "filesystem_read"),
          Certified("external_read", "read", "network_read"),
          Certified("external_write", "idempotent_write", "network_write")}
Secretive == [Shell EXCEPT !.profiles = <<[Profile EXCEPT !.env = "secret"]>>]

Named == [keys |-> {"profileId"}, profileId |-> "build"]
Unusual == Wrong(Named, [keys |-> {{"profileId", "args"}, {"profileId", "note"}},
                         profileId |-> {Null, "deploy"}])

MCProcessCases ==
    Cases("shell", ShellOptions, {Named}) \cup Cases("shell", {Shell, Secretive}, Unusual)
        \cup Cases("compute", {[profiles |-> <<Profile, Profile>>]}, Unusual)

\* ------------------------------------------------------------------------
\* Files

\* Two files that mix, and one too large.
MCContents == {<<"a", "a">>, <<"b", "b">>, <<"a", "b", "a">>}

MCFilesystemCases ==
    [options : [allowDotfiles : {FALSE}, observationType : {Null, "file"}],
     request : [path : {"name"}]]
    \cup [options : [allowDotfiles : BOOLEAN, observationType : {Null}],
          request : [path : {"blank", "invalid", ".name", "..name"}]]
MCFirstDisks == {disk \in Disks : disk.root /\ disk.outside \in {Missing, <<"a", "a">>}}

\* ------------------------------------------------------------------------
\* HTTP

Page == [faults |-> {}, origin |-> "https://a", path |-> "/page", query |-> <<>>]
Searched(value) == [Page EXCEPT !.query = << <<"q", value>> >>]
Elsewhere == [Page EXCEPT !.origin = "https://b"]
Local == [Page EXCEPT !.origin = "http://localhost"]
Faulty(fault) == [Page EXCEPT !.faults = {fault, "query"}]
Faults == {"unparsable", "scheme", "credentials", "query"}
Root == [Page EXCEPT !.path = "/"]
Http == [allowedOrigins |-> {Root, [Root EXCEPT !.origin = "http://localhost"]},
         allowLocalNetwork |-> FALSE, maxRedirects |-> 1, maxResponseBytes |-> 1,
         limitsValid |-> TRUE]
HttpOptions == Wrong(Http, [allowedOrigins |-> {{}, {Page}, {Faulty("scheme")}}, limitsValid |-> {FALSE}])

Get == [rawBody |-> FALSE, keysKnown |-> TRUE, url |-> Page, method |-> "GET",
        headers |-> "accept" :> "text", limitsValid |-> TRUE]
HttpRequests == Wrong(Get,
    [rawBody |-> {TRUE}, keysKnown |-> {FALSE}, method |-> {"HEAD", "POST"},
     headers |-> {"cookie" :> "x", "accept" :> "Bearer x"},
     url |-> {Searched("x"), Elsewhere, Local} \cup {Faulty(f) : f \in Faults}, limitsValid |-> {FALSE}])

MCHttpCases == [options : {Http}, request : HttpRequests] \cup [options : HttpOptions, request : {Get}]
MCResponses ==
    [status : {302}, location : {Null, Searched("x"), Searched("y"), Elsewhere, Faulty("query")},
     declared : {Null}, size : {0}]
    \cup [status : {200, 404}, location : {Null}, declared : {Null, 2}, size : 0..2]
    \cup [status : {304}, location : {Null}, declared : {Null}, size : {0}]

\* ------------------------------------------------------------------------
\* GitHub

Scope(operations, bases) ==
    [owner |-> "octo", repo |-> "cat", allowedOperations |-> operations,
     baseBranches |-> bases, headBranches |-> bases]
Base == [faults |-> {}, host |-> "https://api", path |-> <<>>]
Enterprise == [Base EXCEPT !.host = "https://ghe", !.path = <<"api", "v3">>]
Writer == [mode |-> "write", allowedBases |-> <<Base, Enterprise>>, token |-> "token",
           scopes |-> <<Scope({"update_pull_request", "merge_pull_request"}, Null),
                        Scope({"create_pull_request"}, {"main"}),
                        Scope({"create_pull_request"}, {"dev"})>>,
           maxResponseBytes |-> 1, limitsValid |-> TRUE]
Reader == [Writer EXCEPT !.mode = "read", !.token = Null,
              !.scopes = <<Scope({"get_repository", "list_pull_requests", "get_pull_request"}, Null)>>]
GithubOptions == Wrong(Writer,
    [mode |-> {"both"}, allowedBases |-> {<<>>, <<[Base EXCEPT !.faults = {"scheme"}]>>, <<Enterprise>>}, token |-> {Null}, limitsValid |-> {FALSE},
     scopes |-> {<<>>, <<Scope({}, Null)>>, <<Scope({"delete_repository"}, Null)>>,
                 <<Scope({"create_pull_request"}, {})>>, <<Scope({"create_pull_request"}, Null)>>}])

Path(rest) == [Base EXCEPT !.path = <<"repos", "octo", "cat">> \o rest]
Pulls == Path(<<"pulls">>)
Create == [forThisTool |-> TRUE, keysKnown |-> TRUE, method |-> "POST", given |-> {"url"},
           url |-> Pulls, headers |-> "idempotency-key" :> "other",
           body |-> [object |-> TRUE, base |-> "main", head |-> "main"],
           limitsValid |-> TRUE, idempotencyKey |-> "key"]
Writes == Wrong(Create,
    [forThisTool |-> {FALSE}, keysKnown |-> {FALSE}, method |-> {"GET", "PUT"},
     given |-> {{}, {"path"}, {"path", "url"}},
     url |-> {[Pulls EXCEPT !.faults = {f}] : f \in Faults \cup {"encoded"}} \cup
             {[Pulls EXCEPT !.host = "https://b"],
              [Enterprise EXCEPT !.path = @ \o Pulls.path], [Enterprise EXCEPT !.path = Pulls.path],
              [Path(<<>>) EXCEPT !.path = <<"user">>],
              [Path(<<>>) EXCEPT !.path = <<"repos", "hexa", "cat", "pulls">>],
              [Path(<<>>) EXCEPT !.path = <<"repos", "octo", "dog", "pulls">>],
              Path(<<>>), Path(<<"issues">>), Path(<<"pulls", "7", "files", "8">>)},
     headers |-> {"cookie" :> "x"},
     body |-> {Null, [Create.body EXCEPT !.object = FALSE]}
                \cup Wrong(Create.body, [base |-> {Null, "dev", "other"}, head |-> {"other"}]),
     limitsValid |-> {FALSE}, idempotencyKey |-> {Null}])
    \cup {[Create EXCEPT !.method = "PATCH", !.url = Path(<<"pulls", "7">>)],
          [Create EXCEPT !.method = "PUT", !.url = Path(<<"pulls", "7", "merge">>)],
          [Create EXCEPT !.body.base = "dev", !.body.head = "dev"],
          [Create EXCEPT !.given = {"path"}, !.url.host = "none"],
          [Create EXCEPT !.given = {"path"}, !.url.faults = {"relative"}]}
ReadParts == [method : {"GET", "HEAD"}, url : {Path(<<>>), Path(<<"pulls">>), Path(<<"pulls", "7">>)},
           body : {Null, Create.body}]
ReadRequests == {[Create EXCEPT !.method = r.method, !.url = r.url, !.body = r.body,
                                !.idempotencyKey = Null] : r \in ReadParts}

MCGithubCases ==
    [options : {Writer}, request : Writes] \cup [options : GithubOptions, request : {Create}]
        \cup [options : {Reader}, request : ReadRequests]
MCGithubResponses == [status : {200, 304, 404, 422, 500}, declared : {Null, 2}, size : {0, 2}]
=============================================================================
