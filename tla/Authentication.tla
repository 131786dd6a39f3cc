--------------------------- MODULE Authentication ---------------------------
(***************************************************************************)
(* Who a request is from: parse_verify_token, which every endpoint but     *)
(* /service-info depends on, with the checks of Basic credentials and of   *)
(* OAuth2 tokens.  The issuers of tokens, PyJWT and fastapi are external.  *)
(***************************************************************************)
EXTENDS Naturals, Sequences

CONSTANTS
  Subject,   \* whom tokens name in sub
  Issuer,    \* and who signs them, as iss says: anyone with a web server
  Username,  \* properties.basic_auth.username
  Nobody     \* the author of a task that was created without authentication

ASSUME SubjectAssumption == Nobody \notin Subject \cup {Username}

\* basic_auth.enable and oauth.enable; Basic comes first when both are set.
Settings == [basic : BOOLEAN, oauth : BOOLEAN]

\* What verify_token asks, in this order: of the token, of its issuer's answer,
\* of the key and, with it, of the signature, the times and the issuer.
Checks ==
  << "decodes", "names sub", "names iss", "issuer answers", "status 200", "is JSON",
     "is object", "names jwks_uri", "key is found", "verifies" >>

Check == {Checks[i] : i \in 1..Len(Checks)}

\* A bearer token, with the checks it does not stand.
Token == [sub : Subject, iss : Issuer, fails : SUBSET Check]

\* jwt cannot decode None: a request without a token is one with this flaw.
NoToken == {"decodes"}

Credentials == {"absent", "wrong", "right"}

\* What came of it: the subject, or the status of the answer.
Accepted(subject) == [status |-> 200, subject |-> subject]
Rejected(status) == [status |-> status, subject |-> Nobody]

\* Only an OAuth2TokenError becomes a 401.  A list has no get, and the clause for
\* the key names PyJWKClientError, which is not imported: both end in a 500.
StatusOf(check) == IF check \in {"is object", "key is found"} THEN 500 ELSE 401

\* Mutant: decoded, but not verified.
VerifyTokenUnsigned(token) ==
  IF token.fails \in {{}, {"verifies"}} THEN Accepted(token.sub) ELSE Rejected(401)

\* The first check that fails decides.  The token is verified with the key of the
\* issuer it names itself, and nothing of the issuer is kept: two issuers may give
\* one sub to two people.
VerifyToken(token) ==
  IF token.fails = {} THEN Accepted(token.sub)
  ELSE LET first == CHOOSE i \in 1..Len(Checks) :
                      Checks[i] \in token.fails /\ \A j \in 1..(i - 1) : Checks[j] \notin token.fails
       IN Rejected(StatusOf(Checks[first]))

\* verify_basic_auth; without credentials parse_verify_token asks None for its
\* username.
VerifyBasicAuth(credentials) ==
  CASE credentials = "right"  -> Accepted(Username)
    [] credentials = "wrong"  -> Rejected(401)
    [] credentials = "absent" -> Rejected(500)

\* What a request says of its sender.
Request == [token : Token, basic : Credentials]

ParseVerifyToken(settings, request) ==
  IF settings.basic THEN VerifyBasicAuth(request.basic)
  ELSE IF settings.oauth THEN VerifyToken(request.token)
  ELSE Accepted(Nobody)

=============================================================================
