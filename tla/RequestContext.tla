--------------------------- MODULE RequestContext ---------------------------
(***************************************************************************)
(* The contexts of the process and of a request, and what the log lines    *)
(* written through them show (context/*.go, shop/shop.go, handlers/app.go, *)
(* handlers/context.go), composed with RequestHandler.                     *)
(*                                                                         *)
(* A context is a chain of layers; Value asks the top one first.  It is    *)
(* modelled by its answers, a function on the keys, and a new layer by the *)
(* answers it overrides.  A logger is the fields it will write: it keeps   *)
(* the values that were looked up when it was made, while the layer of the *)
(* response answers with what is true when it is asked.                    *)
(*                                                                         *)
(* Method, host, URI, referer, user agent and content type are looked up   *)
(* like the remote address and not modelled, nor is the duration.          *)
(***************************************************************************)
EXTENDS RequestHandler

CONSTANTS
  Fields,    \* names that may be configured under log.fields
  Requests,  \* what the headers of a request say of where it comes from
  RouteVars  \* the variables of the route

ASSUME ContextAssumption ==
  /\ Requests \subseteq [forwarded : {"absent", "invalid", "valid"},
                          real : {"absent", "invalid", "valid"}]
  \* The keys of the logger and the version are no strings; nor is a field given
  \* the name of a value of the response.
  /\ Fields \cap {"logger", "versionKey", "http.response.status",
                  "http.response.written"} = {}
  /\ RouteVars \subseteq {"vars.name", "vars.uuid"}

VARIABLES
  main,       \* how far the main goroutine is
  configured, \* the names under log.fields
  request,    \* the request
  app,        \* the context NewApp is given
  ctx,        \* the context ServeHTTP makes for the request
  inner,      \* the one the handler of the route gets
  loggerf,    \* uuid.Loggerf
  log         \* the lines written, and the fields they show

contexts == <<main, configured, request, app, ctx, inner, loggerf, log>>
allVars  == <<vars, contexts>>

-----------------------------------------------------------------------------
(* Contexts. *)

Live == {"http.response.status", "http.response.written"}
Keys == {"instance.id", "version", "versionKey", "logger", "http.request.id",
         "http.request.remoteaddr", "vars", "vars.name", "vars.uuid"}
        \cup Live \cup Fields

\* An answer is a tuple, to tell it from nil.
Nil == <<>>

Empty == [k \in Keys |-> Nil]

\* A layer that has answers for some keys, on top of a context.
Push(c, answers) == [k \in Keys |-> IF k \in DOMAIN answers THEN answers[k] ELSE c[k]]

\* The answer for k; the layer of the response reads its counters now.
Value(c, k) ==
  CASE k = "http.response.status"  /\ c[k] # Nil -> <<status>>
    [] k = "http.response.written" /\ c[k] # Nil -> <<written>>
    [] OTHER -> c[k]

\* fmt.Sprint of versionKey{} is "version".
FieldName(k) == IF k = "versionKey" THEN "version" ELSE k

\* The logger of the context, or one that knows the instance, with the keys that
\* the context has an answer for.
GetLogger(c, keys) ==
  LET base == IF Value(c, "logger") # Nil
                THEN Value(c, "logger")[1]
                ELSE [Empty EXCEPT !["instance.id"] = Value(c, "instance.id")]
      answered(f) == {k \in keys : FieldName(k) = f /\ Value(c, k) # Nil}
  IN  [f \in Keys |-> IF answered(f) # {}
                        THEN Value(c, CHOOSE k \in answered(f) : TRUE)
                        ELSE base[f]]

WithLogger(c, logger) == Push(c, [k \in {"logger"} |-> <<logger>>])

Background == [Empty EXCEPT !["instance.id"] = <<"instance">>]

WithVersion(c) ==
  LET versioned == Push(c, [k \in {"versionKey"} |-> <<"version">>])
  IN  WithLogger(versioned, GetLogger(versioned, {"versionKey"}))

\* Mutants, which no specification uses.  First: the configured fields put into
\* the context, but not into its logger.
WithFieldsNoLogger(c, names) == Push(c, [k \in names |-> <<"configured">>])

WithFields(c, names) ==
  LET valued == Push(c, [k \in names |-> <<"configured">>])
  IN  IF names = {} THEN c ELSE WithLogger(valued, GetLogger(valued, names))

\* RemoteAddr: the first address that a proxy names and that parses.
RemoteAddr(r) ==
  IF r.forwarded = "valid" THEN "forwarded"
  ELSE IF r.real = "valid" THEN "real" ELSE "peer"

\* What GetRequestLogger looks up.
RequestKeys == {"http.request.id", "http.request.remoteaddr"}

RequestAnswers(r) ==
  [k \in RequestKeys |-> IF k = "http.request.id" THEN <<"id">> ELSE <<RemoteAddr(r)>>]

WithRequest(c, r) == Push(c, RequestAnswers(r))

WithResponseWriter(c) == Push(c, [k \in Live |-> <<"live">>])

\* The logger of ServeHTTP made before the request is in the context, or with the
\* values of the response.
ServeContextLoggerFirst(r) ==
  WithResponseWriter(WithRequest(WithLogger(Empty, GetLogger(Empty, RequestKeys)), r))

ServeContextPushesResponse(r) ==
  LET c == WithResponseWriter(WithRequest(Empty, r))
  IN  WithLogger(c, GetLogger(c, RequestKeys \cup Live))

\* What ServeHTTP makes of the context net/http gives it, and dispatcher of that.
ServeContext(r) ==
  LET c == WithResponseWriter(WithRequest(Empty, r))
  IN  WithLogger(c, GetLogger(c, RequestKeys))

VarsAnswers == [k \in RouteVars \cup {"vars"} |-> <<"variable">>]

WithVars(c) == Push(c, VarsAnswers)

AppContext(c) ==
  LET v == WithVars(c)
  IN  WithLogger(v, GetLogger(v, {"vars.name", "vars.uuid"}))

Line(name, logger) == [line |-> name, fields |-> logger]

-----------------------------------------------------------------------------
InitAll ==
  /\ Init
  /\ main = "start"
  /\ configured \in SUBSET Fields
  /\ request \in Requests
  /\ app = Empty /\ ctx = Empty /\ inner = Empty
  /\ loggerf = Empty
  /\ log = {}

\* ServeCmd: the instance id is generated, once, when WithVersion looks it up
\* for the first logger; a random source that fails ends the process.
Begin ==
  /\ main = "start"
  /\ \/ main' = "version" /\ app' = WithVersion(Background)
     \/ main' = "failed" /\ UNCHANGED app
  /\ UNCHANGED <<vars, configured, request, ctx, inner, loggerf, log>>

\* configureLogging, which refuses an unknown formatter, and uuid.Loggerf.
ConfigureLogging ==
  /\ main = "version"
  /\ \/ /\ main' = "logging"
        /\ app' = WithFields(app, configured)
        /\ loggerf' = GetLogger(app', {})
     \/ main' = "failed" /\ UNCHANGED <<app, loggerf>>
  /\ UNCHANGED <<vars, configured, request, ctx, inner, log>>

\* NewApp, which warns of a missing secret; it fails without redis or mongodb.
NewApp ==
  /\ main = "logging"
  /\ \/ main' = "serving" /\ log' \in {log, log \cup {Line("secret", GetLogger(app, {}))}}
     \/ main' = "failed" /\ UNCHANGED log
  /\ UNCHANGED <<vars, configured, request, app, ctx, inner, loggerf>>

\* A stop is announced; the request may still be in progress.
StopServing ==
  /\ main = "serving"
  /\ main' = "stopping"
  /\ log' = IF infoLogged THEN log \cup {Line("stopping", GetLogger(app, {}))} ELSE log
  /\ UNCHANGED <<vars, configured, request, app, ctx, inner, loggerf>>

-----------------------------------------------------------------------------
(* The steps of the request that have to do with its context. *)

\* uuid.Generate may warn through uuid.Loggerf.
PrepareContext ==
  /\ Prepare
  /\ ctx' = IF panicking' THEN ctx ELSE ServeContext(request)
  /\ inner' = ctx'
  /\ log' \in {log, log \cup {Line("uuid", loggerf)}}

DispatchContext ==
  /\ Dispatch
  /\ inner' = AppContext(ctx)
  /\ UNCHANGED <<ctx, log>>

\* A handler writes a line with the logger of its context.
HandlerLogs ==
  /\ InHandler
  /\ log' = log \cup {Line("handler", GetLogger(inner, {}))}
  /\ UNCHANGED <<vars, ctx, inner>>

\* The deferred function of ServeHTTP looks at its own context.
CompletedContext ==
  /\ Completed
  /\ log' = IF lines' # lines
              THEN log \cup {Line("completed", GetLogger(ctx, Live))}
              ELSE log
  /\ UNCHANGED <<ctx, inner>>

OtherSteps ==
  /\ \/ Route
     \/ \E s \in Statuses : WriteHeader(s)
     \/ \E n \in 0..MaxSize : Write(n)
     \/ RecordHeader \/ RecordWrite
     \/ Flush \/ HandlerReturns \/ HandlerPanics
     \/ CloseBody \/ NotifyBugsnag \/ Recover \/ Finish \/ Abort
  /\ UNCHANGED <<ctx, inner, log>>

RequestStep ==
  /\ main \in {"serving", "stopping"}
  /\ PrepareContext \/ DispatchContext \/ HandlerLogs \/ CompletedContext \/ OtherSteps
  /\ UNCHANGED <<main, configured, request, app, loggerf>>

NextAll ==
  Begin \/ ConfigureLogging \/ NewApp \/ StopServing \/ RequestStep

SpecAll == InitAll /\ [][NextAll]_allVars

-----------------------------------------------------------------------------
(* Properties. *)

\* A logger that was pushed onto a context never contradicts it: what it kept is
\* what a lookup answers now.  "Because the values are read at call time, pushing
\* a logger returned from [GetResponseLogger] on the context will lead to missing
\* or invalid data" (http.go).
LoggersCurrent ==
  \A c \in {app, ctx, inner} : c["logger"] # Nil =>
    \A k \in Keys \ {"logger", "versionKey"} :
      c["logger"][1][k] # Nil /\ Value(c, k) # Nil => c["logger"][1][k] = Value(c, k)

\* The lines written for a request through its loggers, by its handler or at its
\* end, also after a panic, can be told to be its lines: they show its id and
\* where it came from; and the line at the end of a response that was written
\* shows what net/http sent.
LinesAttributed ==
  \A l \in log :
    /\ l.line \in {"handler", "completed"} =>
         /\ l.fields["http.request.id"] = <<"id">>
         /\ l.fields["http.request.remoteaddr"] = <<RemoteAddr(request)>>
    /\ l.line = "completed" /\ ~ panicking =>
         /\ l.fields["http.response.status"] = <<sent>>
         /\ l.fields["http.response.written"] = <<size>>

\* The lines of the process, those of uuid.Generate while it works for a request
\* among them, are marked with the instance, the version and every configured
\* field; a configured field of the same name is preferred.
ProcessLinesMarked ==
  \A l \in log : l.line \in {"secret", "stopping", "uuid"} =>
    \A f \in configured \cup {"instance.id", "version"} :
      l.fields[f] = CASE f \in configured  -> <<"configured">>
                      [] f \notin configured /\ f = "version" -> <<"version">>
                      [] OTHER             -> <<"instance">>
=============================================================================
