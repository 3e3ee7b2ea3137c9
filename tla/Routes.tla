--------------------------------- MODULE Routes ---------------------------------
(***************************************************************************)
(* Which requests reach a handler, and with whose claims.  Every route     *)
(* declares its security for the OpenAPI document; what is enforced comes  *)
(* from three lists of paths in the auth middleware, kept in another file. *)
(*                                                                         *)
(* chi and huma are external.  A path is the sequence of the pieces of its *)
(* text, cut where an entry of the lists may end; the paths are those the  *)
(* program registers.                                                      *)
(***************************************************************************)
EXTENDS Integers

-----------------------------------------------------------------------------
(* The routes and the security they document *)

Route(method, path, security) == [method |-> method, path |-> path, security |-> security]

\* The alternatives of an operation's Security: none declared, optional, required.
Undeclared == {}
Optional == {{}, {"bearerAuth"}}
Required == {{"bearerAuth"}}

AuthRoutes ==
    {Route("POST", <<"/auth/register">>, Undeclared),
     Route("GET", <<"/auth/me">>, Optional),
     Route("POST", <<"/auth/device">>, Undeclared),
     Route("POST", <<"/auth/device", "/poll">>, Undeclared),
     Route("POST", <<"/auth/device", "/refresh">>, Undeclared),
     Route("POST", <<"/auth/device", "/revoke">>, Undeclared)}

ProfileRoutes == {Route("PATCH", <<"/profile/setup">>, Optional)}

\* "/id" is the path parameter {id}.
CardBrandRoutes ==
    {Route("GET", <<"/card-brands">>, Required),
     Route("POST", <<"/card-brands">>, Required),
     Route("GET", <<"/card-brands", "/id">>, Required),
     Route("PATCH", <<"/card-brands", "/id">>, Required),
     Route("DELETE", <<"/card-brands", "/id">>, Required)}

\* Health checks, and what huma serves of the OpenAPI document itself.  (Its /schemas
\* stay behind the middleware; the repository says nothing of who may read them.)
PlainRoutes ==
    {Route("GET", path, Undeclared) : path \in
        {<<"/health/", "liveness">>, <<"/health/", "readiness">>, <<"/docs">>,
         <<"/openapi", ".json">>, <<"/openapi", ".yaml">>,
         <<"/openapi", "-3.0.json">>, <<"/openapi", "-3.0.yaml">>}}

Routes == PlainRoutes \cup AuthRoutes \cup ProfileRoutes \cup CardBrandRoutes

-----------------------------------------------------------------------------
(* What is enforced *)

skipPrefixes == {"/health/", "/docs", "/openapi"}

\* Mutant: a route is added to the API and forgotten here.
skipExactOutdated == {<<"/auth/register">>, <<"/auth/device">>, <<"/auth/device", "/poll">>}

skipExact ==
    {<<"/auth/register">>, <<"/auth/device">>, <<"/auth/device", "/poll">>,
     <<"/auth/device", "/refresh">>, <<"/auth/device", "/revoke">>}

optionalExact == {<<"/auth/me">>, <<"/profile/setup">>}

isPublicPath(path) ==
    \/ path[1] \in skipPrefixes
    \/ path \in skipExact

isOptionalPath(path) == path \in optionalExact

\* The Authorization header: absent, of another scheme, "Bearer " with nothing behind,
\* a token that is not valid, a valid one of a person without or with an account.
Header == {"absent", "basic", "empty", "invalid", "unlinked", "linked"}

\* extractBearerToken
NoBearer == {"absent", "basic", "empty"}

\* What the client is told, or the handler given: claims of the token, or none.
Outcome(code, claims) == [code |-> code, claims |-> claims]
Pass(claims) == Outcome(0, claims)

\* tryPopulateClaims
Try(header) ==
    CASE header \in NoBearer   -> Pass(FALSE)
      [] header = "invalid"    -> Outcome(401, FALSE)
      [] OTHER                 -> Pass(TRUE)

\* requireAuth
Require(header) ==
    CASE header \in NoBearer \cup {"invalid"} -> Outcome(401, FALSE)
      [] header = "unlinked"                  -> Outcome(403, FALSE)
      [] OTHER                                -> Pass(TRUE)

Matches(method, path) == \E r \in Routes : r.method = method /\ r.path = path

\* The chain: SupressNotFound, then Protected.  What matches no route is not found,
\* whoever asks.
Serve(method, path, header) ==
    CASE ~Matches(method, path) -> Outcome(404, FALSE)
      [] isPublicPath(path)     -> Pass(FALSE)
      [] ~isPublicPath(path) /\ isOptionalPath(path) -> Try(header)
      [] OTHER                  -> Require(header)

-----------------------------------------------------------------------------
(* What is declared against what is enforced *)

\* Whether a header meets one of the alternatives an operation declares.
Meets(header, security) ==
    \/ security = Undeclared
    \/ {} \in security /\ header \in NoBearer
    \/ {"bearerAuth"} \in security /\ header \in {"unlinked", "linked"}

\* The lists of the middleware and the security the routes declare agree: 401 is
\* answered to exactly those who do not meet what is declared, and a handler is given
\* claims exactly if its route declares a token and a valid one came.
ListsMatchDeclarations ==
    \A r \in Routes, header \in Header :
        LET outcome == Serve(r.method, r.path, header) IN
        /\ outcome.code = 401 <=> ~Meets(header, r.security)
        /\ outcome.code = 0 =>
             (outcome.claims <=> r.security # Undeclared /\ header \notin NoBearer)
=============================================================================
