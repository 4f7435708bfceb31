--------------------------- MODULE RequestHandler ---------------------------
(***************************************************************************)
(* One request on its way through the handlers of NewShop: access log,     *)
(* panicHandler, bugsnag, App.ServeHTTP, the router, dispatcher and the    *)
(* handler of the route, and back, by return or by panic (shop/shop.go,    *)
(* shop/handlers/app.go, context/http.go).                                 *)
(*                                                                         *)
(* The response passes three writers: instrumentedResponseWriter, the one  *)
(* of the access log, and net/http, which decides what the client gets.    *)
(* instrumentedResponseWriter forwards a call first and records it under   *)
(* its lock afterwards, so goroutines that look a value up in the context  *)
(* see the states between the two.                                         *)
(***************************************************************************)
EXTENDS Naturals

CONSTANTS
  AccessLog,  \* config.Log.AccessLog is not disabled
  Bugsnag,    \* an API key for bugsnag is configured
  Statuses,   \* the statuses handlers pass to WriteHeader
  MaxSize     \* bound: the largest response body, in units of data

ASSUME StatusAssumption == Statuses \subseteq 200..599 /\ 200 \in Statuses
ASSUME SizeAssumption   == MaxSize \in Nat
ASSUME FlagAssumption   == {AccessLog, Bugsnag} \subseteq BOOLEAN

VARIABLES
  pc,         \* where the goroutine of the request is
  panicking,  \* it unwinds because of a panic
  headers,    \* how often dispatcher added the configured headers
  infoLogged, \* config.Log.Level lets Infof write: it is info or debug
  sent,       \* the status net/http decided on, 0 while it is open; what the
              \* client got in the end
  size,       \* the data net/http took; what the client got in the end
  started,    \* the handler called WriteHeader or Write
  flushed,    \* net/http has put something of the response on the wire
  forwarded,  \* the call instrumentedResponseWriter passed on but not recorded
  status, written,        \* irw.status, irw.written
  logStatus, logSize,     \* the status and size the access log knows
  lines,      \* the lines logged at the end, with the status and size they show
  bodyClosed, \* r.Body was closed
  alerted     \* bugsnag was told of a panic

response == <<sent, size, started, flushed, forwarded, status, written, logStatus, logSize>>
ends     == <<lines, bodyClosed, alerted>>
vars     == <<pc, panicking, headers, infoLogged, response, ends>>

NoCall        == [call |-> "none", arg |-> 0]
HeaderCall(s) == [call |-> "WriteHeader", arg |-> s]
WriteCall(n)  == [call |-> "Write", arg |-> n]

TypeOK ==
  /\ pc \in {"app", "router", "dispatcher", "handler", "completed", "closeBody",
             "notify", "recover", "log", "over"}
  /\ panicking \in BOOLEAN
  /\ headers \in 0..1
  /\ infoLogged \in BOOLEAN
  /\ sent \in Statuses \cup {0}
  /\ size \in 0..MaxSize
  /\ started \in BOOLEAN /\ flushed \in BOOLEAN
  /\ forwarded \in [call : {"none", "WriteHeader", "Write"}, arg : Nat]
  /\ status \in Statuses \cup {0}
  /\ written \in 0..MaxSize
  /\ logStatus \in Statuses
  /\ logSize \in 0..MaxSize
  /\ lines \subseteq [line : {"access", "completed", "panic"},
                      status : Statuses \cup {0}, size : 0..MaxSize]
  /\ bodyClosed \in BOOLEAN
  /\ alerted \in BOOLEAN

Init ==
  /\ pc = "app"
  /\ panicking = FALSE
  /\ headers = 0
  /\ infoLogged \in BOOLEAN
  /\ sent = 0 /\ size = 0 /\ started = FALSE /\ flushed = FALSE
  /\ forwarded = NoCall
  /\ status = 0 /\ written = 0
  /\ logStatus = 200 /\ logSize = 0
  /\ lines = {} /\ bodyClosed = FALSE /\ alerted = FALSE

-----------------------------------------------------------------------------
(* Mutants, which no specification uses: a header recorded before it is       *)
(* forwarded, a size taken for the count, a deferred function that does not   *)
(* look at the status, and two that do not survive a panic.                   *)

WriteHeaderRecordsFirst(s) ==
  /\ pc = "handler" /\ forwarded = NoCall /\ ~ started
  /\ started' = TRUE
  /\ status' = s
  /\ forwarded' = HeaderCall(s)
  /\ UNCHANGED <<pc, panicking, headers, infoLogged, sent, size, flushed, written,
                 logStatus, logSize, ends>>

RecordWriteOverwrites ==
  /\ forwarded.call = "Write"
  /\ forwarded' = NoCall
  /\ written' = forwarded.arg
  /\ status' = IF status = 0 THEN 200 ELSE status
  /\ UNCHANGED <<pc, panicking, headers, infoLogged, sent, size, started, flushed,
                 logStatus, logSize, ends>>

CompletedAlways ==
  /\ pc = "completed"
  /\ pc' = "closeBody"
  /\ lines' = lines \cup {[line |-> "completed", status |-> status, size |-> written]}
  /\ UNCHANGED <<panicking, headers, infoLogged, response, bodyClosed, alerted>>

\* The recovered panic is logged with log.Error, and the access log goes on.
RecoverAndGoOn ==
  /\ pc = "recover"
  /\ pc' = "log"
  /\ panicking' = FALSE
  /\ lines' = IF panicking
                THEN lines \cup {[line |-> "panic", status |-> 0, size |-> 0]}
                ELSE lines
  /\ UNCHANGED <<headers, infoLogged, response, bodyClosed, alerted>>

-----------------------------------------------------------------------------
(* Into the handler. *)

\* App.ServeHTTP prepares the context; WithRequest generates a UUID, which
\* panics when the random source fails.  Only then "response completed" is
\* deferred, while closing the body already is.
Prepare ==
  /\ pc = "app"
  /\ \/ pc' = "router" /\ UNCHANGED panicking
     \/ pc' = "closeBody" /\ panicking' = TRUE
  /\ UNCHANGED <<headers, infoLogged, response, ends>>

\* The router answers by itself what no route matches, or sends it on.
Route ==
  /\ pc = "router"
  /\ pc' \in {"dispatcher", "handler"}
  /\ UNCHANGED <<panicking, headers, infoLogged, response, ends>>

\* dispatcher adds the configured headers and calls the handler of the route.
Dispatch ==
  /\ pc = "dispatcher"
  /\ pc' = "handler"
  /\ headers' = headers + 1
  /\ UNCHANGED <<panicking, infoLogged, response, ends>>

-----------------------------------------------------------------------------
(* The handler.  It calls WriteHeader at most once, and neither after Write   *)
(* nor after Flush: net/http would ignore such a call, but irw would record it. *)

InHandler == pc = "handler" /\ forwarded = NoCall

WriteHeader(s) ==
  /\ InHandler
  /\ ~ started
  /\ sent = 0
  /\ started' = TRUE
  /\ sent' = s
  /\ logStatus' = s
  /\ forwarded' = HeaderCall(s)
  /\ UNCHANGED <<pc, panicking, headers, infoLogged, size, flushed, status, written,
                 logSize, ends>>

RecordHeader ==
  /\ forwarded.call = "WriteHeader"
  /\ status' = forwarded.arg
  /\ forwarded' = NoCall
  /\ UNCHANGED <<pc, panicking, headers, infoLogged, sent, size, started, flushed,
                 written, logStatus, logSize, ends>>

\* net/http sends status 200 if none was sent; a status without a body, or a
\* client that is gone, makes the call fail with n = 0.  Data stays in a buffer
\* until there is too much of it.
Write(n) ==
  /\ InHandler
  /\ size + n <= MaxSize
  /\ sent \in {204, 304} => n = 0
  /\ started' = TRUE
  /\ sent' = IF sent = 0 THEN 200 ELSE sent
  /\ size' = size + n
  /\ logSize' = logSize + n
  /\ flushed' \in IF n = 0 THEN {flushed} ELSE {flushed, TRUE}
  /\ forwarded' = WriteCall(n)
  /\ UNCHANGED <<pc, panicking, headers, infoLogged, status, written, logStatus, ends>>

\* irw.written counts, and the likely status is guessed if not set.
RecordWrite ==
  /\ forwarded.call = "Write"
  /\ written' = written + forwarded.arg
  /\ status' = IF status = 0 THEN 200 ELSE status
  /\ forwarded' = NoCall
  /\ UNCHANGED <<pc, panicking, headers, infoLogged, sent, size, started, flushed,
                 logStatus, logSize, ends>>

\* Flush is forwarded and nothing is recorded, though net/http sends 200.
Flush ==
  /\ InHandler
  /\ sent' = IF sent = 0 THEN 200 ELSE sent
  /\ flushed' = TRUE
  /\ UNCHANGED <<pc, panicking, headers, infoLogged, size, started, forwarded,
                 status, written, logStatus, logSize, ends>>

HandlerReturns ==
  /\ InHandler
  /\ pc' = "completed"
  /\ UNCHANGED <<panicking, headers, infoLogged, response, ends>>

HandlerPanics ==
  /\ InHandler
  /\ pc' = "completed"
  /\ panicking' = TRUE
  /\ UNCHANGED <<headers, infoLogged, response, ends>>

-----------------------------------------------------------------------------
(* The way back: deferred functions run in a panic too. *)

\* "response completed" is for the statuses from 200 to 399, and an Infof.  It is
\* deferred, so a panic does not stop it.
Completed ==
  /\ pc = "completed"
  /\ pc' = "closeBody"
  /\ lines' = IF status \in 200..399 /\ infoLogged
                THEN lines \cup {[line |-> "completed", status |-> status, size |-> written]}
                ELSE lines
  /\ UNCHANGED <<panicking, headers, infoLogged, response, bodyClosed, alerted>>

CloseBody ==
  /\ pc = "closeBody"
  /\ pc' = "notify"
  /\ bodyClosed' = TRUE
  /\ UNCHANGED <<panicking, headers, infoLogged, response, lines, alerted>>

\* bugsnag.Handler reports a panic and panics again.
NotifyBugsnag ==
  /\ pc = "notify"
  /\ pc' = "recover"
  /\ alerted' = (panicking /\ Bugsnag)
  /\ UNCHANGED <<panicking, headers, infoLogged, response, lines, bodyClosed>>

\* panicHandler recovers, and log.Panic writes the message and panics again.
\* configureLogging adds no hook to the logger.
Recover ==
  /\ pc = "recover"
  /\ pc' = "log"
  /\ lines' = IF panicking
                THEN lines \cup {[line |-> "panic", status |-> 0, size |-> 0]}
                ELSE lines
  /\ UNCHANGED <<panicking, headers, infoLogged, response, bodyClosed, alerted>>

\* The access log writes its line, and net/http sends what it has of the
\* response, with status 200 if the handler sent none.
Finish ==
  /\ pc = "log" /\ ~ panicking
  /\ pc' = "over"
  /\ lines' = IF AccessLog
                THEN lines \cup {[line |-> "access", status |-> logStatus, size |-> logSize]}
                ELSE lines
  /\ sent' = IF sent = 0 THEN 200 ELSE sent
  /\ flushed' = TRUE
  /\ UNCHANGED <<panicking, headers, infoLogged, size, started, forwarded, status,
                 written, logStatus, logSize, bodyClosed, alerted>>

\* A panic passes the access log, and net/http closes the connection: what is
\* still in its buffer is dropped, so the client gets a response that breaks off,
\* or none.
Abort ==
  /\ pc = "log" /\ panicking
  /\ pc' = "over"
  /\ sent' = IF flushed THEN sent ELSE 0
  /\ size' \in IF flushed THEN 0..size ELSE {0}
  /\ UNCHANGED <<panicking, headers, infoLogged, started, flushed, forwarded, status,
                 written, logStatus, logSize, ends>>

Next ==
  \/ Prepare \/ Route \/ Dispatch
  \/ \E s \in Statuses : WriteHeader(s)
  \/ \E n \in 0..MaxSize : Write(n)
  \/ RecordHeader \/ RecordWrite
  \/ Flush \/ HandlerReturns \/ HandlerPanics
  \/ Completed \/ CloseBody \/ NotifyBugsnag \/ Recover \/ Finish \/ Abort

Spec == Init /\ [][Next]_vars

-----------------------------------------------------------------------------
(* Properties. *)

Shows(line) == {l \in lines : l.line = line}

\* net/http dropped what it had not sent of the response.
Aborted == pc = "over" /\ panicking

\* Whoever looks up "http.response.status" in the context, while the handlers run
\* and after, finds what net/http has decided to send, or 0: irw never claims
\* what is not decided.  Only a response dropped for a panic is not sent.
StatusTrue == ~ Aborted /\ status # 0 => status = sent

\* What the context shows lags behind by the call in progress at most; a status
\* is there as soon as the handler wrote anything, by the guess in Write.
RecordsSettle ==
  ~ Aborted /\ forwarded = NoCall => written = size /\ (status = 0 <=> ~ started)

\* The lines of a response that was written to its end agree with what net/http
\* sent, though three writers keep their own account of it, and only a success is
\* logged as completed.  A response that a panic ended is in no access log; the
\* deferred function may still call it completed, where the comment at
\* http.go:161-162 wants its logger called "only [...] after the response has
\* been written".
LinesTrue ==
  \A l \in Shows("access") \cup Shows("completed") :
    /\ ~ panicking => l.status = sent /\ l.size = size
    /\ l.line = "completed" /\ ~ panicking => sent \in 200..399
    /\ l.line = "access" => ~ panicking

\* Every request leaves its traces, whatever the handler did: the body closed,
\* an access line or, for a panic, the panic line and the report to bugsnag; and,
\* where the level of the logger is not above Info, the completion of a response
\* the handler wrote with a status below 400.  A level above Info says nothing of
\* completions.
EveryEndLogged ==
  pc = "over" =>
    /\ bodyClosed
    /\ Shows("panic") # {} <=> panicking
    /\ Shows("access") # {} <=> AccessLog /\ ~ panicking
    /\ ~ panicking => (Shows("completed") # {} <=> infoLogged /\ started /\ sent \in 200..399)
    /\ Shows("completed") # {} => infoLogged /\ started
    /\ alerted <=> panicking /\ Bugsnag

\* "Headers is a set of headers to include in HTTP responses"
\* (configuration.go): every response of the server has them.
HeadersIncluded == sent # 0 => headers > 0

-----------------------------------------------------------------------------
(* The inductive invariant behind them. *)

\* net/http, the access log and irw keep the same account of the response.
AccountsAgree ==
  ~ Aborted =>
    /\ logSize = size
    /\ logStatus = IF sent = 0 THEN 200 ELSE sent
    /\ sent = 0 => size = 0 /\ ~ started
    /\ sent # 0 /\ status = 0 /\ forwarded.call # "WriteHeader" => sent = 200

\* A call between forwarding and recording; without a call nothing is recorded.
CallInProgress ==
  /\ status # 0 => started
  /\ forwarded # NoCall => pc = "handler" /\ started /\ ~ panicking
  /\ forwarded.call = "WriteHeader" =>
       forwarded.arg = sent /\ status = 0 /\ written = 0 /\ size = 0
  /\ forwarded.call = "Write" => written + forwarded.arg = size
  /\ forwarded.call = "none" => forwarded = NoCall

\* What is logged and done on each stage of the way back.
WayBack ==
  /\ pc \in {"app", "router", "dispatcher", "handler"} => ~ panicking
  /\ pc \in {"app", "router", "dispatcher"} => ~ started /\ headers = 0
  /\ pc \in {"app", "router", "dispatcher", "handler", "completed"} => lines = {}
  /\ pc \in {"closeBody", "notify", "recover", "log", "over"} =>
       (Shows("completed") # {} <=> infoLogged /\ status \in 200..399)
  /\ pc \in {"notify", "recover", "log", "over"} => bodyClosed
  /\ pc \in {"recover", "log", "over"} =>
       (alerted <=> panicking /\ Bugsnag)
  /\ pc \in {"closeBody", "notify", "recover"} => Shows("panic") = {}
  /\ pc \in {"log", "over"} => (Shows("panic") # {} <=> panicking)
  /\ pc # "over" => Shows("access") = {}
  /\ pc = "over" => (Shows("access") # {} <=> AccessLog /\ ~ panicking)

RequestInv ==
  /\ TypeOK
  /\ StatusTrue
  /\ RecordsSettle
  /\ AccountsAgree
  /\ CallInProgress
  /\ WayBack
  /\ LinesTrue
=============================================================================
