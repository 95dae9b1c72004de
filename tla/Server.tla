-------------------------------- MODULE Server --------------------------------
(***************************************************************************)
(* oServer (o-server/src): the HTTP face of a node.  A request passes the  *)
(* authentication middleware, the first route that matches its path, the   *)
(* validators of that route and ends in node.use(), whose answer becomes   *)
(* the response.  Express tries routes in the order they were added, and   *)
(* ":address/:method" was added before "use/stream".                       *)
(*                                                                         *)
(* http.Server is modelled from its use: listen() on a taken port fails,   *)
(* close() of a server that does not listen fails.                         *)
(***************************************************************************)
EXTENDS Naturals, Sequences

CONSTANTS
    Requests,    \* HTTP requests
    MaxServers   \* bound on start() calls

VARIABLES
    mode,       \* what is configured: "jwt", "authenticate" or "open"
    request,    \* every request and its response
    listening,  \* the http server that has the port, 0 for none
    server,     \* the http server the instance knows, 0 for none
    started     \* start() calls so far

vars == <<mode, request, listening, server, started>>

Paths == {"health", "use", "use/stream", "address/method"}
Tokens == {"missing", "malformed", "expired", "early", "unsound", "valid"}
Bodies == {"fine", "no schema", "bad address", "bad method"}
Outcomes == {"result", "not found", "other error"}

Unsent == [stage |-> "unsent", path |-> "none", route |-> "none", token |-> "none",
           auth |-> "none", told |-> <<>>]

TypeOK ==
    /\ mode \in {"jwt", "authenticate", "open"}
    /\ \A r \in Requests :
          /\ request[r].stage \in {"unsent", "authenticating", "using", "answered"}
          /\ request[r].path \in Paths \cup {"none"}
          /\ request[r].token \in Tokens \cup {"none"}
          /\ request[r].auth \in {"none", "client", "verified"}
    /\ listening \in 0..MaxServers /\ server \in 0..MaxServers
    /\ started \in 0..MaxServers

Init == /\ mode \in {"jwt", "authenticate", "open"}
        /\ request = [r \in Requests |-> Unsent]
        /\ listening = 0 /\ server = 0 /\ started = 0

-----------------------------------------------------------------------------

\* The routes in the order oServer() adds them.
Routes == <<"health", "use", "address/method", "use/stream">>

Matches(route, path) ==
    route = path \/ (route = "address/method" /\ path = "use/stream")

\* Express: the first route that matches.
RouteOf(path) == Routes[CHOOSE i \in DOMAIN Routes :
                          /\ Matches(Routes[i], path)
                          /\ \A j \in 1..(i - 1) : ~Matches(Routes[j], path)]

\* createJwtMiddleware(): the code a token is refused with.
TokenRefusal ==
    [token \in Tokens \ {"valid"} |->
        CASE token = "missing"   -> "MISSING_TOKEN"
          [] token = "malformed" -> "INVALID_TOKEN_FORMAT"
          [] token = "expired"   -> "TOKEN_EXPIRED"
          [] token = "early"     -> "TOKEN_NOT_ACTIVE"
          [] OTHER               -> "INVALID_TOKEN"]

\* What the validators refuse a body with: validateRequest(), on the routes
\* that carry address and method in the body, validateAddress(),
\* validateMethod().
SchemaRefusal  == "INVALID_PARAMS"
AddressRefusal == "INVALID_ADDRESS"
MethodRefusal  == "INVALID_METHOD"
BodyRefusal == [body \in Bodies \ {"fine"} |-> CASE body = "no schema"   -> SchemaRefusal
                                                 [] body = "bad address" -> AddressRefusal
                                                 [] OTHER                -> MethodRefusal]

\* handleOlaneError(): the codes it knows, anything else is an execution error.
HandleOlaneError(code) ==
    CASE code \in {"NODE_NOT_FOUND", "TOOL_NOT_FOUND"} -> <<404, code>>
      [] code = "INVALID_PARAMS" -> <<400, code>>
      [] code = "TIMEOUT"        -> <<504, code>>
      [] OTHER                   -> <<500, "EXECUTION_ERROR">>

\* How a route reports a validation error: the stream's passes it on as it is.
Invalid(route, code) == IF route = "use/stream" THEN <<400, code>>
                        ELSE HandleOlaneError(code)

\* How a route answers what node.use() came to.  Errors of the node carry
\* numbers for codes, so only a message that says "not found" is recognised.
Answer(route, outcome) ==
    CASE route = "use/stream"   -> <<200, "events">>
      [] outcome = "result"     -> <<200, "data">>
      [] outcome = "not found"  -> HandleOlaneError("NODE_NOT_FOUND")
      [] OTHER                  -> HandleOlaneError("EXECUTION_ERROR")

\* The _auth that reaches the node: the client's is taken out of the params,
\* the verified token's is put in.
AuthUnstripped(token, claims) == IF mode = "jwt" THEN "verified"
                                 ELSE IF claims THEN "client" ELSE "none"
AuthOf(token, claims) == IF mode = "jwt" THEN "verified" ELSE "none"

-----------------------------------------------------------------------------

Respond(r, told) == [request[r] EXCEPT !.stage = "answered", !.told = told]

\* The route of a request that passed the middleware.
Dispatch(q, body, claims) ==
    LET route == RouteOf(q.path) IN
    CASE route = "health" -> [q EXCEPT !.stage = "answered", !.route = route,
                                       !.told = <<200, "data">>]
      [] route # "health" /\ body # "fine" ->
            [q EXCEPT !.stage = "answered", !.route = route,
                      !.told = Invalid(route, BodyRefusal[body])]
      [] OTHER -> [q EXCEPT !.stage = "using", !.route = route,
                            !.auth = AuthOf(q.token, claims)]

\* A request arrives: jwt verification is done in the same turn, authenticate
\* is awaited.  The schema is checked by "use" and "use/stream" only.
Arrive(r, path, token, body, claims) ==
    LET q == [Unsent EXCEPT !.path = path, !.token = token] IN
    /\ listening # 0
    /\ request[r].stage = "unsent"
    /\ body = "no schema" => RouteOf(path) # "address/method"
    /\ request' = [request EXCEPT ![r] =
          CASE mode = "jwt" /\ path # "health" /\ token # "valid" ->
                  [q EXCEPT !.stage = "answered", !.told = <<401, TokenRefusal[token]>>]
            [] mode = "authenticate" -> [q EXCEPT !.stage = "authenticating"]
            [] OTHER -> Dispatch(q, body, claims)]
    /\ UNCHANGED <<mode, listening, server, started>>

\* The configured authenticate() resolves or rejects.
Authenticated(r, ok, body, claims) ==
    /\ request[r].stage = "authenticating"
    /\ body = "no schema" => RouteOf(request[r].path) # "address/method"
    /\ request' = [request EXCEPT ![r] = IF ok THEN Dispatch(@, body, claims)
                                         ELSE Respond(r, <<401, "UNAUTHORIZED">>)]
    /\ UNCHANGED <<mode, listening, server, started>>

\* node.use() resolves or rejects.
Used(r, outcome) ==
    /\ request[r].stage = "using"
    /\ request' = [request EXCEPT ![r] = Respond(r, Answer(request[r].route, outcome))]
    /\ UNCHANGED <<mode, listening, server, started>>

\* start(): the new http server replaces the known one, got it the port or not.
Start ==
    /\ started < MaxServers
    /\ started' = started + 1
    /\ server' = started + 1
    /\ listening' = IF listening = 0 THEN started + 1 ELSE listening
    /\ UNCHANGED <<mode, request>>

\* stop() of the known server, if it listens; otherwise stop() rejects.  It
\* resolves once the requests under way are answered.
Stop == /\ server # 0 /\ server = listening
        /\ listening' = 0
        /\ UNCHANGED <<mode, request, server, started>>

Next == \/ \E r \in Requests :
              \/ \E path \in Paths, token \in Tokens, body \in Bodies, claims \in BOOLEAN :
                    Arrive(r, path, token, body, claims)
              \/ \E ok, claims \in BOOLEAN, body \in Bodies : Authenticated(r, ok, body, claims)
              \/ \E outcome \in Outcomes : Used(r, outcome)
        \/ Start \/ Stop

Spec == Init /\ [][Next]_vars

-----------------------------------------------------------------------------

\* What reaches the node as _auth is what the middleware verified of this
\* very request and never what the client wrote into its params, on every
\* route and in every mode (stripClientAuth, buildAuthFromRequest).
NodeSeesVerifiedAuth ==
    \A r \in Requests : LET q == request[r] IN
       q.route \notin {"none", "health"} =>
          /\ q.auth # "client"
          /\ q.auth = "verified" => mode = "jwt" /\ q.token = "valid"
          /\ mode = "jwt" => q.token = "valid"

\* README.md of o-server: POST /api/v1/use/stream answers with events.
StreamAnswersEvents ==
    \A r \in Requests : LET q == request[r] IN
       q.path = "use/stream" /\ q.stage = "answered" /\ q.told[1] = 200 =>
          q.told[2] = "events"
=============================================================================
