------------------------------ MODULE AppSettings ------------------------------
(***************************************************************************)
(* The settings that decide what the application lets a browser do         *)
(* (app/core/config.py), and what CORSMiddleware, which create_app         *)
(* (app/main.py) builds from them, answers.                                *)
(*                                                                         *)
(* CORS_ORIGINS is a comma-separated list or the text of a JSON array.     *)
(* Its items are kept as a set of entries; an entry is a text with or      *)
(* without blanks around it.                                               *)
(***************************************************************************)

CONSTANTS
    Origins,      \* origins of web pages
    NoOrigin      \* no Origin header; no Access-Control-Allow-Origin

Star == [text |-> "*", padded |-> FALSE]
Entry(o) == [text |-> o, padded |-> FALSE]
Blank == [text |-> "", padded |-> FALSE]

(* item.strip() *)
Strip(entry) == [entry EXCEPT !.padded = FALSE]

(* _split_list: the items of a comma-separated list are stripped, and      *)
(* dropped when nothing is left; those of a JSON array are taken as they   *)
(* are.                                                                    *)
SplitList(raw) ==
    IF raw.form = "json" THEN raw.items ELSE {Strip(i) : i \in raw.items} \ {Blank}

CorsOrigins(s) == SplitList(s.origins)

(* _refuse_default_secret_in_production *)
RefusesSecret(s) == s.environment \in {"staging", "production"} /\ s.defaultSecret

(* Fault: a wildcard with credentials is refused in production only. *)
RefusesWildcardInProduction(s) ==
    s.environment = "production" /\ s.credentials /\ Star \in CorsOrigins(s)

(* _refuse_wildcard_cors_with_credentials *)
RefusesWildcard(s) == s.credentials /\ Star \in CorsOrigins(s)

(* Settings() succeeds; text that begins like an array must be JSON. *)
Accepts(s) == s.origins.form # "broken" /\ ~RefusesSecret(s) /\ ~RefusesWildcard(s)

-----------------------------------------------------------------------------
(* CORSMiddleware (starlette) with these settings. *)

AllowAll(s) == Star \in CorsOrigins(s)
IsAllowed(s, o) == AllowAll(s) \/ Entry(o) \in CorsOrigins(s)

(* Access-Control-Allow-Origin of the answer to a preflight: the origin    *)
(* itself unless "*" will do.                                              *)
PreflightOrigin(s, o) ==
    IF ~IsAllowed(s, o) THEN NoOrigin
    ELSE IF AllowAll(s) /\ ~s.credentials THEN "*" ELSE o

(* The same of any other answer: a wildcard becomes the caller's origin    *)
(* when the request has a cookie.                                          *)
SimpleOrigin(s, o, cookie) ==
    IF AllowAll(s) THEN (IF cookie THEN o ELSE "*")
    ELSE IF IsAllowed(s, o) THEN o ELSE NoOrigin

=============================================================================
