---------------------------- MODULE Authentication ----------------------------
(***************************************************************************)
(* require_auth (api/auth.py), the first dependency of every route but      *)
(* /ready: who a request is from, or that it is answered with 401.          *)
(*                                                                          *)
(* A key is an abstract value, with the empty string and one outside ASCII  *)
(* among them; a token is abstracted to the first thing that is wrong with  *)
(* it, if anything is.                                                      *)
(***************************************************************************)

\* A header that is not sent, or a setting that is not there.
None == "none"

Key == {"", "secret", "other", "non_ascii"}

\* What verify_jwt meets on its way: no readable header, no kid, none that the
\* bundle knows, an algorithm that is not in ALLOWED_ALGORITHMS, one that does
\* not fit the type of the key, and a signature or a claim that fails.
Token == {"good", "malformed", "no_kid", "unknown_kid", "algorithm",
          "key_type", "signature"}

\* app.state, as main.py fills it from the environment.
Settings == [admin_api_key : Key \union {None}, jwks : BOOLEAN]

\* The Authorization header names another scheme or has no token, or is a
\* bearer's.
Headers == [api_key : Key \union {None},
            authorization : {None, "malformed"} \union Token]

\* Mutant: a key that is set to nothing matches one that is sent as nothing.
VerifyEmptyKey(settings, key) ==
    IF settings.admin_api_key = key THEN "admin_api_key" ELSE "unauthenticated"

\* hmac.compare_digest has no answer for a string outside ASCII.
VerifyAdminApiKey(settings, key) ==
    CASE settings.admin_api_key \in {None, ""}              -> "unauthenticated"
      [] "non_ascii" \in {settings.admin_api_key, key}
         /\ settings.admin_api_key \notin {None, ""}        -> "raised"
      [] OTHER -> IF settings.admin_api_key = key
                  THEN "admin_api_key" ELSE "unauthenticated"

\* Mutant: only PyJWTError is caught.
VerifyRaises(token) ==
    CASE token = "good"     -> "jwt"
      [] token = "key_type" -> "raised"
      [] OTHER              -> "unauthenticated"

\* PyJWT raises a TypeError for a key of another type; all of its errors
\* become an AuthenticationError.
VerifyJwt(token) == IF token = "good" THEN "jwt" ELSE "unauthenticated"

\* A key that is sent decides alone, whatever else is sent with it.
RequireAuth(settings, headers) ==
    CASE headers.api_key # None -> VerifyAdminApiKey(settings, headers.api_key)
      [] headers.api_key = None /\ headers.authorization \in Token ->
            IF settings.jwks
            THEN VerifyJwt(headers.authorization) ELSE "unauthenticated"
      [] OTHER -> "unauthenticated"

\* What the two methods are meant to establish: the caller sent the key that
\* is set, or sent no key but a token that the bundle vouches for.
Authentic(settings, headers) ==
    \/ headers.api_key \notin {None, "", "non_ascii"}
       /\ headers.api_key = settings.admin_api_key
    \/ headers.api_key = None /\ headers.authorization = "good" /\ settings.jwks

=============================================================================
