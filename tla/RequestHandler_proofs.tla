----------------------- MODULE RequestHandler_proofs -----------------------
(***************************************************************************)
(* The properties of RequestHandler, and those RequestContext adds, hold    *)
(* for every set of statuses, every size of the body and every             *)
(* configuration.                                                          *)
(***************************************************************************)
EXTENDS RequestContext, TLAPS

USE DEF vars, response, ends, NoCall, HeaderCall, WriteCall, Shows, InHandler, Aborted

\* Nothing is sent, recorded or logged when a request arrives.
LEMMA InitInv == Init => RequestInv
<1>. SUFFICES ASSUME Init PROVE RequestInv
     OBVIOUS
<1>. USE StatusAssumption, SizeAssumption, FlagAssumption DEF Init
<1>1. /\ panicking \in BOOLEAN /\ started \in BOOLEAN /\ flushed \in BOOLEAN
      /\ infoLogged \in BOOLEAN /\ bodyClosed \in BOOLEAN /\ alerted \in BOOLEAN
      OBVIOUS
<1>2. TypeOK
      BY <1>1 DEF TypeOK
<1>3. StatusTrue /\ RecordsSettle /\ AccountsAgree /\ CallInProgress
      BY DEF StatusTrue, RecordsSettle, AccountsAgree, CallInProgress
<1>4. WayBack /\ LinesTrue
      BY DEF WayBack, LinesTrue
<1>. QED
  BY <1>2, <1>3, <1>4 DEF RequestInv

\* One case per action of the goroutine, the handler and the way back.
LEMMA StepInv == RequestInv /\ [Next]_vars => RequestInv'
<1>. SUFFICES ASSUME RequestInv, [Next]_vars
              PROVE  RequestInv'
     OBVIOUS
<1>. USE StatusAssumption, SizeAssumption, FlagAssumption
     DEF RequestInv, TypeOK, StatusTrue, RecordsSettle, AccountsAgree, CallInProgress,
         WayBack, LinesTrue
<1>1. CASE Prepare
  <2>1. panicking' \in BOOLEAN /\ started' = started /\ flushed' = flushed
        /\ bodyClosed' = bodyClosed /\ infoLogged' = infoLogged
        BY <1>1 DEF Prepare
  <2>2. TypeOK'
        BY <1>1, <2>1 DEF Prepare
  <2>. QED
    BY <1>1, <2>1, <2>2 DEF Prepare
<1>2. CASE Route
      BY <1>2 DEF Route
<1>3. CASE Dispatch
      BY <1>3 DEF Dispatch
<1>4. ASSUME NEW s \in Statuses, WriteHeader(s)
      PROVE  RequestInv'
      BY <1>4 DEF WriteHeader
<1>5. ASSUME NEW n \in 0..MaxSize, Write(n)
      PROVE  RequestInv'
  <2>1. /\ pc = "handler" /\ pc' = pc /\ ~ panicking /\ panicking' = panicking
        /\ forwarded = NoCall /\ forwarded' = WriteCall(n)
        /\ started' /\ sent' = (IF sent = 0 THEN 200 ELSE sent)
        /\ size' = size + n /\ size' <= MaxSize /\ logSize' = logSize + n
        /\ flushed' \in BOOLEAN
        /\ UNCHANGED <<headers, infoLogged, status, written, logStatus, ends>>
        BY <1>5 DEF Write
  <2>2. TypeOK'
        BY <2>1
  <2>3. StatusTrue' /\ RecordsSettle' /\ AccountsAgree' /\ CallInProgress'
        BY <2>1
  <2>4. WayBack' /\ LinesTrue'
        BY <2>1
  <2>. QED
    BY <2>2, <2>3, <2>4
<1>6. CASE RecordHeader
      BY <1>6 DEF RecordHeader
<1>7. CASE RecordWrite
  <2>1. /\ panicking' \in BOOLEAN /\ started' \in BOOLEAN /\ bodyClosed' \in BOOLEAN
        /\ flushed' \in BOOLEAN /\ infoLogged' \in BOOLEAN
        BY <1>7 DEF RecordWrite
  <2>2. lines' \subseteq [line : {"access", "completed", "panic"},
                         status : Statuses \cup {0}, size : 0..MaxSize]
        BY <1>7 DEF RecordWrite
  <2>3. TypeOK'
        BY <1>7, <2>1, <2>2 DEF RecordWrite
  <2>4. StatusTrue' /\ RecordsSettle' /\ AccountsAgree' /\ CallInProgress'
    <3>1. /\ pc = "handler" /\ pc' = pc /\ started /\ started' = started
          /\ sent # 0 /\ sent' = sent
          /\ written' = size /\ size' = size
          BY <1>7 DEF RecordWrite
    <3>2. status' = sent /\ forwarded' = NoCall
          BY <1>7, <3>1 DEF RecordWrite
    <3>3. logSize' = logSize /\ logStatus' = logStatus
          BY <1>7 DEF RecordWrite
    <3>. QED
      BY <3>1, <3>2, <3>3
  <2>5. LinesTrue'
        BY <1>7 DEF RecordWrite
  <2>6. WayBack'
        BY <1>7 DEF RecordWrite
  <2>. QED
    BY <2>3, <2>4, <2>5, <2>6
<1>8. CASE Flush
      BY <1>8 DEF Flush
<1>9. CASE HandlerReturns
      BY <1>9 DEF HandlerReturns
<1>10. CASE HandlerPanics
      BY <1>10 DEF HandlerPanics
<1>11. CASE Completed
  <2>1. /\ panicking' \in BOOLEAN /\ started' \in BOOLEAN /\ bodyClosed' \in BOOLEAN
        /\ flushed' \in BOOLEAN /\ infoLogged' \in BOOLEAN
        BY <1>11 DEF Completed
  <2>2. lines' \subseteq [line : {"access", "completed", "panic"},
                         status : Statuses \cup {0}, size : 0..MaxSize]
        BY <1>11 DEF Completed
  <2>3. TypeOK'
        BY <1>11, <2>1, <2>2 DEF Completed
  <2>4. StatusTrue' /\ RecordsSettle' /\ AccountsAgree' /\ CallInProgress'
        BY <1>11 DEF Completed
  <2>5. LinesTrue'
        BY <1>11 DEF Completed
  <2>6. WayBack'
    <3>. DEFINE l == [line |-> "completed", status |-> status, size |-> written]
    <3>1. CASE status \in 200..399 /\ infoLogged
      <4>1. l \in Shows("completed")'
            BY <1>11, <3>1 DEF Completed
      <4>2. \A other \in {"access", "completed", "panic"} \ {"completed"} :
              Shows(other)' = Shows(other)
            BY <1>11, <3>1 DEF Completed
      <4>. QED
        BY <1>11, <3>1, <4>1, <4>2 DEF Completed
    <3>2. CASE ~ (status \in 200..399 /\ infoLogged)
      <4>1. lines' = lines
            BY <1>11, <3>2 DEF Completed
      <4>. QED
        BY <1>11, <3>2, <4>1 DEF Completed
    <3>. QED
      BY <3>1, <3>2
  <2>. QED
    BY <2>3, <2>4, <2>5, <2>6
<1>12. CASE CloseBody
      BY <1>12 DEF CloseBody
<1>13. CASE NotifyBugsnag
      BY <1>13 DEF NotifyBugsnag
<1>14. CASE Recover
  <2>1. /\ panicking' \in BOOLEAN /\ started' \in BOOLEAN /\ bodyClosed' \in BOOLEAN
        /\ flushed' \in BOOLEAN /\ infoLogged' \in BOOLEAN
        BY <1>14 DEF Recover
  <2>2. lines' \subseteq [line : {"access", "completed", "panic"},
                         status : Statuses \cup {0}, size : 0..MaxSize]
        BY <1>14 DEF Recover
  <2>3. TypeOK'
        BY <1>14, <2>1, <2>2 DEF Recover
  <2>4. StatusTrue' /\ RecordsSettle' /\ AccountsAgree' /\ CallInProgress'
        BY <1>14 DEF Recover
  <2>5. LinesTrue'
        BY <1>14 DEF Recover
  <2>6. WayBack'
    <3>. DEFINE l == [line |-> "panic", status |-> 0, size |-> 0]
    <3>1. CASE panicking
      <4>1. l \in Shows("panic")'
            BY <1>14, <3>1 DEF Recover
      <4>2. \A other \in {"access", "completed", "panic"} \ {"panic"} :
              Shows(other)' = Shows(other)
            BY <1>14, <3>1 DEF Recover
      <4>. QED
        BY <1>14, <3>1, <4>1, <4>2 DEF Recover
    <3>2. CASE ~ panicking
      <4>1. lines' = lines
            BY <1>14, <3>2 DEF Recover
      <4>. QED
        BY <1>14, <3>2, <4>1 DEF Recover
    <3>. QED
      BY <3>1, <3>2
  <2>. QED
    BY <2>3, <2>4, <2>5, <2>6
<1>15. CASE Finish
  <2>1. /\ panicking' \in BOOLEAN /\ started' \in BOOLEAN /\ bodyClosed' \in BOOLEAN
        /\ flushed' \in BOOLEAN /\ infoLogged' \in BOOLEAN
        BY <1>15 DEF Finish
  <2>2. lines' \subseteq [line : {"access", "completed", "panic"},
                         status : Statuses \cup {0}, size : 0..MaxSize]
        BY <1>15 DEF Finish
  <2>3. TypeOK'
        BY <1>15, <2>1, <2>2 DEF Finish
  <2>4. StatusTrue' /\ RecordsSettle' /\ AccountsAgree' /\ CallInProgress'
        BY <1>15 DEF Finish
  <2>5. LinesTrue'
        BY <1>15 DEF Finish
  <2>6. WayBack'
    <3>. DEFINE l == [line |-> "access", status |-> logStatus, size |-> logSize]
    <3>1. CASE AccessLog
      <4>1. l \in Shows("access")'
            BY <1>15, <3>1 DEF Finish
      <4>2. \A other \in {"access", "completed", "panic"} \ {"access"} :
              Shows(other)' = Shows(other)
            BY <1>15, <3>1 DEF Finish
      <4>. QED
        BY <1>15, <3>1, <4>1, <4>2 DEF Finish
    <3>2. CASE ~ AccessLog
      <4>1. lines' = lines
            BY <1>15, <3>2 DEF Finish
      <4>. QED
        BY <1>15, <3>2, <4>1 DEF Finish
    <3>. QED
      BY <3>1, <3>2
  <2>. QED
    BY <2>3, <2>4, <2>5, <2>6
<1>16. CASE Abort
  <2>1. TypeOK'
    <3>1. /\ sent' \in Statuses \cup {0} /\ size' \in 0..MaxSize
          BY <1>16 DEF Abort
    <3>2. UNCHANGED <<panicking, headers, infoLogged, started, flushed, forwarded, status,
                      written, logStatus, logSize, lines, bodyClosed, alerted>> /\ pc' = "over"
          BY <1>16 DEF Abort
    <3>. QED
      BY <3>1, <3>2
  <2>2. panicking' /\ pc' = "over" /\ pc = "log" /\ panicking
        BY <1>16 DEF Abort
  <2>3. UNCHANGED <<lines, status, started, forwarded, bodyClosed, alerted>>
        BY <1>16 DEF Abort
  <2>4. StatusTrue' /\ RecordsSettle' /\ AccountsAgree'
        BY <2>2
  <2>5. CallInProgress'
    <3>1. forwarded = NoCall /\ forwarded' = NoCall
          BY <2>2, <2>3
    <3>. QED
      BY <2>3, <3>1
  <2>6. WayBack' /\ LinesTrue'
    <3>1. \A line \in {"access", "completed", "panic"} : Shows(line)' = Shows(line)
          BY <2>3
    <3>2. \A l \in lines : l.line # "access"
          BY <2>2
    <3>3. LinesTrue'
          BY <2>2, <2>3, <3>2
    <3>4. WayBack'
      <4>1. bodyClosed /\ (alerted <=> panicking /\ Bugsnag)
            BY <2>2
      <4>2. Shows("panic") # {} /\ Shows("access") = {}
            BY <2>2
      <4>3. Shows("completed") # {} <=> status \in 200..399 /\ infoLogged
            BY <2>2
      <4>4. panicking' = panicking /\ infoLogged' = infoLogged
            BY <1>16 DEF Abort
      <4>. QED
        BY <2>2, <2>3, <3>1, <4>1, <4>2, <4>3, <4>4
    <3>. QED
      BY <3>3, <3>4
  <2>. QED
    BY <2>1, <2>4, <2>5, <2>6
<1>17. CASE UNCHANGED vars
      BY <1>17
<1>. QED
  BY <1>1, <1>2, <1>3, <1>4, <1>5, <1>6, <1>7, <1>8, <1>9, <1>10, <1>11, <1>12,
     <1>13, <1>14, <1>15, <1>16, <1>17 DEF Next

\* The inductive invariant: the accounts of the three writers, the call in
\* progress, and what is logged on each stage of the way back.
THEOREM RequestInvHolds == Spec => []RequestInv
BY InitInv, StepInv, PTL DEF Spec

\* No reader of the context ever sees a status the client will not get.
THEOREM StatusTrueHolds == Spec => []StatusTrue
<1>1. RequestInv => StatusTrue
      BY DEF RequestInv
<1>. QED
  BY <1>1, RequestInvHolds, PTL

\* The context lags behind the response by one call at most.
THEOREM RecordsSettleHolds == Spec => []RecordsSettle
<1>1. RequestInv => RecordsSettle
      BY DEF RequestInv
<1>. QED
  BY <1>1, RequestInvHolds, PTL

\* The lines of both logs agree with what was sent.
THEOREM LinesTrueHolds == Spec => []LinesTrue
<1>1. RequestInv => LinesTrue
      BY DEF RequestInv
<1>. QED
  BY <1>1, RequestInvHolds, PTL

\* Every request, returned or panicked, leaves its traces.
THEOREM EveryEndLoggedHolds == Spec => []EveryEndLogged
<1>1. RequestInv => EveryEndLogged
      BY StatusAssumption
      DEF RequestInv, TypeOK, WayBack, StatusTrue, RecordsSettle, CallInProgress, EveryEndLogged
<1>. QED
  BY <1>1, RequestInvHolds, PTL

-----------------------------------------------------------------------------
(* RequestContext. *)

\* Every step of the composition is one of the request or leaves it alone.
LEMMA StepRefines == [NextAll]_allVars => [Next]_vars
<1>. USE DEF allVars
<1>1. CASE Begin BY <1>1 DEF Begin
<1>2. CASE ConfigureLogging BY <1>2 DEF ConfigureLogging
<1>3. CASE NewApp BY <1>3 DEF NewApp
<1>4. CASE StopServing BY <1>4 DEF StopServing
<1>5. CASE RequestStep
  BY <1>5, Zenon DEF RequestStep, PrepareContext, DispatchContext, HandlerLogs,
                     CompletedContext, OtherSteps, Next
<1>6. CASE UNCHANGED allVars BY <1>6
<1>. QED
  BY <1>1, <1>2, <1>3, <1>4, <1>5, <1>6 DEF NextAll

\* With its contexts and loggers the request is served as RequestHandler says, so
\* that what is proved of it above holds here too.
THEOREM RefinesRequestHandler == SpecAll => Spec
<1>1. InitAll => Init
  BY DEF InitAll
<1>. QED
  BY <1>1, StepRefines, PTL DEF SpecAll, Spec

\* What the contexts and loggers of the program are.
VersionLogger ==
  [k \in Keys |-> CASE k = "instance.id" -> <<"instance">>
                    [] k = "version"     -> <<"version">>
                    [] OTHER             -> Nil]

VersionApp ==
  [k \in Keys |-> CASE k = "instance.id" -> <<"instance">>
                    [] k = "versionKey"  -> <<"version">>
                    [] k = "logger"      -> <<VersionLogger>>
                    [] OTHER             -> Nil]

ProcessLogger ==
  [k \in Keys |-> IF k \in configured THEN <<"configured">> ELSE VersionLogger[k]]

ProcessApp ==
  [k \in Keys |-> IF k = "logger" THEN <<ProcessLogger>>
                  ELSE IF k \in configured THEN <<"configured">> ELSE VersionApp[k]]

ServeLogger ==
  [k \in Keys |-> CASE k = "http.request.id"         -> <<"id">>
                    [] k = "http.request.remoteaddr" -> <<RemoteAddr(request)>>
                    [] OTHER                         -> Nil]

ServeCtx ==
  [k \in Keys |-> CASE k = "http.request.id"         -> <<"id">>
                    [] k = "http.request.remoteaddr" -> <<RemoteAddr(request)>>
                    [] k = "logger"                  -> <<ServeLogger>>
                    [] k \in Live                    -> <<"live">>
                    [] OTHER                         -> Nil]

AppLogger ==
  [k \in Keys |-> IF k \in RouteVars THEN <<"variable">> ELSE ServeLogger[k]]

AppCtx ==
  [k \in Keys |-> IF k = "logger" THEN <<AppLogger>>
                  ELSE IF k \in RouteVars \cup {"vars"} THEN <<"variable">> ELSE ServeCtx[k]]

\* An answer is told apart from none.
LEMMA NotNil == \A v : <<v>> # Nil
BY DEF Nil

\* A pushed logger is found again as it is.
LEMMA LoggerFound ==
  ASSUME NEW c, NEW logger, c["logger"] = <<logger>>, logger = [k \in Keys |-> logger[k]]
  PROVE  GetLogger(c, {}) = logger
<1>1. Value(c, "logger") = <<logger>> /\ Value(c, "logger") # Nil
  BY NotNil DEF Value
<1>. QED
  BY <1>1 DEF GetLogger

\* What WithVersion makes of the background context.
LEMMA VersionAppIs == WithVersion(Background) = VersionApp
<1> DEFINE c == [k \in Keys |-> CASE k = "instance.id" -> <<"instance">>
                                  [] k = "versionKey"  -> <<"version">>
                                  [] OTHER             -> Nil]
<1>1. Push(Background, [k \in {"versionKey"} |-> <<"version">>]) = c
  BY DEF Push, Background, Empty, Keys
<1>2. GetLogger(c, {"versionKey"}) = VersionLogger
  <2>1. /\ Value(c, "logger") = Nil
        /\ Value(c, "instance.id") = <<"instance">>
        /\ Value(c, "versionKey") = <<"version">>
    BY DEF Value, Keys
  <2>2. \A f \in Keys : {k \in {"versionKey"} : FieldName(k) = f /\ Value(c, k) # Nil}
                          = IF f = "version" THEN {"versionKey"} ELSE {}
    BY <2>1, NotNil DEF FieldName
  <2>. HIDE DEF c
  <2>. QED
    BY <2>1, <2>2 DEF GetLogger, VersionLogger, Empty, Keys
<1>. HIDE DEF c
<1>3. WithLogger(c, VersionLogger) = VersionApp
  BY DEF WithLogger, Push, VersionApp, c, Keys
<1>. QED
  BY <1>1, <1>2, <1>3 DEF WithVersion

\* What configureLogging makes of it, and the logger it pushes.
LEMMA ProcessAppIs ==
  ASSUME configured \in SUBSET Fields
  PROVE  /\ WithFields(VersionApp, configured) = ProcessApp
         /\ GetLogger(ProcessApp, {}) = ProcessLogger
<1> DEFINE c == Push(VersionApp, [k \in configured |-> <<"configured">>])
<1>1. /\ configured \subseteq Keys /\ "logger" \notin configured
      /\ configured \cap Live = {} /\ \A k \in configured : FieldName(k) = k
  BY ContextAssumption DEF Keys, Live, FieldName
<1>2. c = [k \in Keys |-> IF k \in configured THEN <<"configured">> ELSE VersionApp[k]]
  BY <1>1 DEF Push
<1>3. GetLogger(c, configured) = ProcessLogger
  <2>1. /\ Value(c, "logger") = <<VersionLogger>>
        /\ \A k \in configured : Value(c, k) = <<"configured">>
    BY <1>1, <1>2 DEF Value, VersionApp, Keys, Live
  <2>2. \A f \in Keys : {k \in configured : FieldName(k) = f /\ Value(c, k) # Nil}
                          = IF f \in configured THEN {f} ELSE {}
    BY <1>1, <2>1, NotNil
  <2>. HIDE DEF c
  <2>. QED
    BY <2>1, <2>2, NotNil DEF GetLogger, ProcessLogger
<1>4. WithLogger(c, ProcessLogger) = ProcessApp
  BY <1>1, <1>2 DEF WithLogger, Push, ProcessApp
<1>5. configured = {} => ProcessApp = VersionApp
  <2>1. configured = {} => ProcessLogger = VersionLogger
    BY DEF ProcessLogger, VersionLogger
  <2>. QED
    BY <2>1 DEF ProcessApp, VersionApp
<1>6. WithFields(VersionApp, configured) = ProcessApp
  BY <1>3, <1>4, <1>5 DEF WithFields
<1>7. GetLogger(ProcessApp, {}) = ProcessLogger
  <2>1. ProcessApp["logger"] = <<ProcessLogger>>
    BY DEF ProcessApp, Keys
  <2>2. ProcessLogger = [k \in Keys |-> ProcessLogger[k]]
    BY DEF ProcessLogger
  <2>. QED
    BY <2>1, <2>2, LoggerFound
<1>. QED
  BY <1>6, <1>7

\* The context ServeHTTP builds, and its logger.
LEMMA ServeCtxIs ==
  /\ ServeContext(request) = ServeCtx
  /\ GetLogger(ServeCtx, {}) = ServeLogger
<1> DEFINE c == WithResponseWriter(WithRequest(Empty, request))
<1>1. c = [k \in Keys |-> CASE k = "http.request.id"         -> <<"id">>
                            [] k = "http.request.remoteaddr" -> <<RemoteAddr(request)>>
                            [] k \in Live                    -> <<"live">>
                            [] OTHER                         -> Nil]
  BY DEF WithResponseWriter, WithRequest, RequestAnswers, Push, Empty, RequestKeys, Keys, Live
<1>2. GetLogger(c, RequestKeys) = ServeLogger
  <2>1. /\ Value(c, "logger") = Nil /\ Value(c, "instance.id") = Nil
        /\ Value(c, "http.request.id") = <<"id">>
        /\ Value(c, "http.request.remoteaddr") = <<RemoteAddr(request)>>
    BY <1>1 DEF Value, Keys, Live
  <2>2. \A f \in Keys : {k \in RequestKeys : FieldName(k) = f /\ Value(c, k) # Nil}
                          = IF f \in RequestKeys THEN {f} ELSE {}
    <3>1. \A k \in RequestKeys : FieldName(k) = k /\ Value(c, k) # Nil
      BY <2>1, NotNil DEF FieldName, RequestKeys
    <3>. HIDE DEF c
    <3>. QED
      BY <3>1
  <2>3. \A f \in Keys : Empty[f] = Nil /\ [Empty EXCEPT !["instance.id"] = Nil][f] = Nil
    BY DEF Empty
  <2>. HIDE DEF c
  <2>. QED
    BY <2>1, <2>2, <2>3 DEF GetLogger, ServeLogger, RequestKeys
<1>3. WithLogger(c, ServeLogger) = ServeCtx
  BY <1>1 DEF WithLogger, Push, ServeCtx, Keys, Live
<1>4. GetLogger(ServeCtx, {}) = ServeLogger
  <2>1. ServeCtx["logger"] = <<ServeLogger>>
    BY DEF ServeCtx, Keys, Live
  <2>2. ServeLogger = [k \in Keys |-> ServeLogger[k]]
    BY DEF ServeLogger
  <2>. QED
    BY <2>1, <2>2, LoggerFound
<1>. QED
  BY <1>2, <1>3, <1>4 DEF ServeContext

\* The context of the handler of the route, and its logger.
LEMMA AppCtxIs == AppContext(ServeCtx) = AppCtx /\ GetLogger(AppCtx, {}) = AppLogger
<1> DEFINE v == WithVars(ServeCtx)
<1>1. /\ v = [k \in Keys |-> IF k \in RouteVars \cup {"vars"} THEN <<"variable">>
                             ELSE ServeCtx[k]]
      /\ RouteVars \subseteq {"vars.name", "vars.uuid"}
  BY ContextAssumption DEF WithVars, VarsAnswers, Push
<1>2. GetLogger(v, {"vars.name", "vars.uuid"}) = AppLogger
  <2>1. /\ Value(v, "logger") = <<ServeLogger>>
        /\ \A k \in {"vars.name", "vars.uuid"} :
             Value(v, k) = IF k \in RouteVars THEN <<"variable">> ELSE Nil
    BY <1>1, ContextAssumption DEF Value, ServeCtx, Keys, Live
  <2>2. \A f \in Keys :
          {k \in {"vars.name", "vars.uuid"} : FieldName(k) = f /\ Value(v, k) # Nil}
            = IF f \in RouteVars THEN {f} ELSE {}
    <3>1. \A k \in {"vars.name", "vars.uuid"} :
            FieldName(k) = k /\ (Value(v, k) # Nil <=> k \in RouteVars)
      BY <2>1, NotNil DEF FieldName
    <3>. HIDE DEF v
    <3>. QED
      BY <1>1, <3>1
  <2>. HIDE DEF v
  <2>. QED
    BY <1>1, <2>1, <2>2, NotNil DEF GetLogger, AppLogger
<1>3. WithLogger(v, AppLogger) = AppCtx
  BY <1>1 DEF WithLogger, Push, AppCtx
<1>4. GetLogger(AppCtx, {}) = AppLogger
  <2>1. AppCtx["logger"] = <<AppLogger>>
    BY DEF AppCtx, Keys
  <2>2. AppLogger = [k \in Keys |-> AppLogger[k]]
    BY DEF AppLogger
  <2>. QED
    BY <2>1, <2>2, LoggerFound
<1>. QED
  BY <1>2, <1>3, <1>4 DEF AppContext

\* What tells the request is in both loggers of it.
LEMMA AppLoggerKeeps == \A k \in RequestKeys : AppLogger[k] = ServeLogger[k]
BY ContextAssumption DEF AppLogger, RequestKeys, Keys

\* The logger of the line at the end.
LEMMA ResponseLogger ==
  /\ \A k \in RequestKeys : GetLogger(ServeCtx, Live)[k] = ServeLogger[k]
  /\ GetLogger(ServeCtx, Live)["http.response.status"] = <<status>>
  /\ GetLogger(ServeCtx, Live)["http.response.written"] = <<written>>
<1>1. /\ Value(ServeCtx, "logger") = <<ServeLogger>>
      /\ Value(ServeCtx, "http.response.status") = <<status>>
      /\ Value(ServeCtx, "http.response.written") = <<written>>
  BY NotNil DEF Value, ServeCtx, Keys, Live
<1>2. \A f \in Keys : {k \in Live : FieldName(k) = f /\ Value(ServeCtx, k) # Nil}
                        = IF f \in Live THEN {f} ELSE {}
  <2>1. \A k \in Live : FieldName(k) = k /\ Value(ServeCtx, k) # Nil
    BY <1>1, NotNil DEF FieldName, Live
  <2>. QED
    BY <2>1
<1>. QED
  BY <1>1, <1>2, NotNil DEF GetLogger, Live, RequestKeys, Keys

\* Where the contexts are, and what each line shows.
ContextsBuilt ==
  /\ configured \in SUBSET Fields
  /\ app \in {Empty, VersionApp, ProcessApp}
  /\ main = "version" => app = VersionApp
  /\ main \in {"logging", "serving", "stopping"} =>
       app = ProcessApp /\ loggerf = ProcessLogger
  /\ ctx \in {Empty, ServeCtx}
  /\ inner \in {ctx, AppCtx}
  /\ pc \in {"router", "dispatcher", "handler", "completed"} => ctx = ServeCtx

LinesBuilt ==
  \A l \in log :
    /\ l.line \in {"secret", "stopping", "uuid"} => l.fields = ProcessLogger
    /\ l.line \in {"handler", "completed"} =>
         \A k \in RequestKeys : l.fields[k] = ServeLogger[k]
    /\ l.line = "completed" /\ ~ panicking =>
         /\ l.fields["http.response.status"] = <<sent>>
         /\ l.fields["http.response.written"] = <<size>>
         /\ sent # 0
    /\ l.line = "completed" =>
         /\ pc \in {"closeBody", "notify", "recover", "log", "over"}

ContextInv == RequestInv /\ ContextsBuilt /\ LinesBuilt

\* Nothing is built or written at first.
LEMMA ContextInit == InitAll => ContextInv
BY InitInv DEF InitAll, ContextInv, ContextsBuilt, LinesBuilt, Init

\* The steps of the main goroutine.
LEMMA MainKeeps ==
  ASSUME ContextInv, Begin \/ ConfigureLogging \/ NewApp \/ StopServing
  PROVE  ContextsBuilt' /\ LinesBuilt'
<1>1. /\ ProcessApp' = ProcessApp /\ ProcessLogger' = ProcessLogger
      /\ ServeCtx' = ServeCtx /\ ServeLogger' = ServeLogger /\ AppCtx' = AppCtx
  BY DEF Begin, ConfigureLogging, NewApp, StopServing, ProcessApp, ProcessLogger,
         ServeCtx, ServeLogger, AppCtx, AppLogger
<1>. USE <1>1 DEF ContextInv, ContextsBuilt, LinesBuilt, Line
<1>2. CASE Begin BY <1>2, VersionAppIs DEF Begin
<1>3. CASE ConfigureLogging
  <2>1. CASE main' = "logging"
    <3>1. app' = ProcessApp
      BY <1>3, <2>1, ProcessAppIs DEF ConfigureLogging
    <3>2. loggerf' = ProcessLogger
      <4>1. loggerf' = GetLogger(app', {})
        BY <1>3, <2>1 DEF ConfigureLogging
      <4>. QED
        BY <3>1, <4>1, ProcessAppIs
    <3>. QED
      BY <1>3, <2>1, <3>1, <3>2 DEF ConfigureLogging
  <2>. QED
    BY <1>3, <2>1 DEF ConfigureLogging
<1>4. CASE NewApp BY <1>4, ProcessAppIs DEF NewApp
<1>5. CASE StopServing BY <1>5, ProcessAppIs DEF StopServing
<1>. QED
  BY <1>2, <1>3, <1>4, <1>5

\* The steps of the request.
LEMMA RequestKeeps ==
  ASSUME ContextInv, RequestStep
  PROVE  ContextsBuilt' /\ LinesBuilt'
<1>1. /\ ProcessApp' = ProcessApp /\ ProcessLogger' = ProcessLogger
      /\ ServeCtx' = ServeCtx /\ ServeLogger' = ServeLogger /\ AppCtx' = AppCtx
  BY DEF RequestStep, ProcessApp, ProcessLogger, ServeCtx, ServeLogger, AppCtx, AppLogger
<1>. USE <1>1 DEF ContextInv, ContextsBuilt, LinesBuilt, Line, RequestStep
<1>2. CASE PrepareContext
  <2>1. ctx' \in {ctx, ServeCtx} /\ (pc' = "router" => ctx' = ServeCtx)
    BY <1>2, ServeCtxIs DEF PrepareContext, Prepare, RequestInv, WayBack
  <2>2. pc' \in {"router", "closeBody"} /\ UNCHANGED <<sent, size>>
    BY <1>2 DEF PrepareContext, Prepare
  <2>3. \A l \in log : l.line # "completed"
    BY <1>2 DEF PrepareContext, Prepare
  <2>4. loggerf = ProcessLogger
    OBVIOUS
  <2>5. LinesBuilt'
    BY <1>2, <2>2, <2>3, <2>4 DEF PrepareContext
  <2>. QED
    BY <1>2, <2>1, <2>2, <2>5 DEF PrepareContext
<1>3. CASE DispatchContext BY <1>3, AppCtxIs DEF DispatchContext, Dispatch
<1>4. CASE HandlerLogs
  <2>1. GetLogger(inner, {}) \in {ServeLogger, AppLogger}
    BY <1>4, ServeCtxIs, AppCtxIs DEF HandlerLogs
  <2>. QED
    BY <1>4, <2>1, AppLoggerKeeps DEF HandlerLogs
<1>5. CASE CompletedContext
  <2>1. lines' # lines => status # 0 /\ status = sent /\ written = size
    BY <1>5 DEF CompletedContext, Completed, RequestInv, StatusTrue, RecordsSettle,
                CallInProgress
  <2>. QED
    BY <1>5, <2>1, ResponseLogger DEF CompletedContext, Completed
<1>6. CASE OtherSteps
  <2>1. CASE Abort
    BY <1>6, <2>1 DEF OtherSteps, Abort
  <2>2. CASE Finish
    BY <1>6, <2>2 DEF OtherSteps, Finish
  <2>3. CASE Route \/ HandlerReturns \/ HandlerPanics \/ CloseBody \/ NotifyBugsnag \/ Recover
    BY <1>6, <2>3
       DEF OtherSteps, Route, HandlerReturns, HandlerPanics, CloseBody, NotifyBugsnag, Recover
  <2>4. CASE \/ \E s \in Statuses : WriteHeader(s)
             \/ \E n \in 0..MaxSize : Write(n)
             \/ RecordHeader \/ RecordWrite \/ Flush
    <3>1. pc = "handler" /\ pc' = pc
      <4>1. forwarded # NoCall => pc = "handler"
        BY DEF RequestInv, CallInProgress
      <4>2. CASE RecordHeader \/ RecordWrite
        <5>1. forwarded.call # NoCall.call /\ pc' = pc
          BY <4>2 DEF RecordHeader, RecordWrite
        <5>. QED
          BY <4>1, <5>1
      <4>. QED
        BY <2>4, <4>2 DEF WriteHeader, Write, Flush
    <3>2. \A l \in log : l.line # "completed"
      BY <3>1
    <3>. QED
      BY <1>6, <3>1, <3>2 DEF OtherSteps
  <2>. QED
    BY <1>6, <2>1, <2>2, <2>3, <2>4 DEF OtherSteps
<1>. QED
  BY <1>2, <1>3, <1>4, <1>5, <1>6

\* Every step of the process and of the request keeps the invariant.
LEMMA ContextStep == ContextInv /\ [NextAll]_allVars => ContextInv'
<1>. SUFFICES ASSUME ContextInv, [NextAll]_allVars
              PROVE  ContextInv'
     OBVIOUS
<1>1. RequestInv'
  BY StepRefines, StepInv DEF ContextInv
<1>2. CASE NextAll
  BY <1>1, <1>2, MainKeeps, RequestKeeps DEF NextAll, ContextInv
<1>3. CASE UNCHANGED allVars
  BY <1>1, <1>3
     DEF allVars, contexts, ContextInv, ContextsBuilt, LinesBuilt, ProcessApp,
         ProcessLogger, ServeCtx, ServeLogger, AppCtx, AppLogger
<1>. QED
  BY <1>2, <1>3

\* The contexts and the lines are those built above, in every behaviour.
LEMMA ContextInvHolds == SpecAll => []ContextInv
BY ContextInit, ContextStep, PTL DEF SpecAll

\* A logger pushed onto a context keeps nothing that may change.
THEOREM LoggersCurrentHolds == SpecAll => []LoggersCurrent
<1>1. ContextInv => LoggersCurrent
  <2>. SUFFICES ASSUME ContextInv,
                       NEW c \in {app, ctx, inner}, c["logger"] # Nil,
                       NEW k \in Keys \ {"logger", "versionKey"},
                       c["logger"][1][k] # Nil, Value(c, k) # Nil
                PROVE  c["logger"][1][k] = Value(c, k)
    BY DEF LoggersCurrent
  <2>1. c \in {Empty, VersionApp, ProcessApp, ServeCtx, AppCtx}
    BY DEF ContextInv, ContextsBuilt
  <2>2. c # Empty
    BY DEF Empty, Keys
  <2>3. CASE c = VersionApp
    BY <2>3 DEF VersionApp, VersionLogger, Value, Keys, Live
  <2>4. CASE c = ProcessApp
    <3>1. configured \cap {"logger", "http.response.status", "http.response.written"} = {}
      BY ContextAssumption DEF ContextInv, ContextsBuilt
    <3>2. c["logger"][1] = ProcessLogger
      BY <2>4 DEF ProcessApp, Keys
    <3>. QED
      BY <2>4, <3>1, <3>2 DEF ProcessApp, ProcessLogger, VersionApp, VersionLogger, Value
  <2>5. CASE c = ServeCtx
    BY <2>5 DEF ServeCtx, ServeLogger, Value, Keys, Live
  <2>6. CASE c = AppCtx
    <3>1. c["logger"][1] = AppLogger
      BY <2>6 DEF AppCtx, Keys
    <3>. QED
      BY <2>6, <3>1, ContextAssumption
         DEF AppCtx, AppLogger, ServeCtx, ServeLogger, Value, Keys, Live
  <2>. QED
    BY <2>1, <2>2, <2>3, <2>4, <2>5, <2>6
<1>. QED
  BY <1>1, ContextInvHolds, PTL

\* The lines of a request are its own.
THEOREM LinesAttributedHolds == SpecAll => []LinesAttributed
<1>1. ContextInv => LinesAttributed
  BY DEF ContextInv, LinesBuilt, LinesAttributed, ServeLogger, RequestKeys, Keys
<1>. QED
  BY <1>1, ContextInvHolds, PTL

\* The lines of the process show which process, which version and what the
\* operator configured.
THEOREM ProcessLinesMarkedHolds == SpecAll => []ProcessLinesMarked
<1>1. ContextInv => ProcessLinesMarked
  <2>. SUFFICES ASSUME ContextInv, NEW f \in configured \cup {"instance.id", "version"}
                PROVE  ProcessLogger[f] = CASE f \in configured  -> <<"configured">>
                                            [] f \notin configured /\ f = "version"
                                                                -> <<"version">>
                                            [] OTHER            -> <<"instance">>
    BY DEF ContextInv, LinesBuilt, ProcessLinesMarked
  <2>1. f \in Keys
    BY DEF ContextInv, ContextsBuilt, Keys
  <2>. QED
    BY <2>1 DEF ProcessLogger, VersionLogger
<1>. QED
  BY <1>1, ContextInvHolds, PTL
=============================================================================
