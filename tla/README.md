# A formal model of thatique

TLA+ modules for the server of this repository: what its goroutines, connections,
sockets and requests may do in every order, checked by TLC on small instances, with
proofs by TLAPS for every size. File and line numbers are those of this repository.

    tlc -config <run>.cfg MC<module>.tla      # one run
    tlapm <module>_proofs.tla                 # one module of proofs

## The system

thatique is a Go program with one long-running command, `shop serve`. Its own code is
about 2,600 lines; `vendor/` is third-party, of which the two pools it relies on most (redigo's
Pool, mgo's sockets) are modelled where they are used.

| Component | State | Operations | What is hard about it | What makes it correct | Module |
|---|---|---|---|---|---|
| Serve command (`shop/shop.go`, `NewApp` of `shop/handlers/app.go`) | main goroutine, serving goroutine, channels `serveErr` and `quit`, listener, connections, drain deadline | start-up, ListenAndServe, SIGTERM, drain, exit | three goroutines and the clients in any order, failure of each step, a deadline | success means drained, up to what net/http can miss; nothing is let in during the drain; it always ends | `ServeLifecycle` |
| MongoDB sessions (`shop/data/mongodb.go`) | a goroutine, a channel and a session per call; mgo's socket pool | Dial, WithContext | cancellation against completion, sockets at the pool limit | f never outlives its call or its session | `MongoSession`; with the server `ServeMongo` |
| Redis pool (`shop/redis/redis.go`) | idle list, count, connections with AUTH and SELECT done | DialWithConf, NewRedisPool, Ping | several commands per dial, each may fail; broken idle connections | no connection is leaked, shared, miscounted, half set up or used after it broke idle | `RedisPool` |
| Listener (`shop/listener/listener.go`) | the file at the path, the processes that use it | NewListener, Close, crash | check and use of the path are separate; leftovers of killed processes; files that others put there | restarts work, a file that is looked at is not removed | `UnixListener` |
| UUIDs (`uuid/uuid.go`) | bytes read, retries, time slept | Generate, Parse, String | interrupted reads, bounded backoff | every byte is random | `UuidGenerate` |
| Request handling (`panicHandler`, `App.ServeHTTP`, `dispatcher`, `context/http.go`) | the response as three writers know it, what net/http sends or drops, what was logged | ServeHTTP, WriteHeader, Write, Flush, return, panic | panics through layers; what is logged against what was sent | the logs and the context tell the truth | `RequestHandler` |
| Configuration (`configuration/`) | the parsed tree | Parse, environment overrides | order and specificity of overrides, case of map keys | the most specific variable wins, and touches nothing else | `ConfigOverride` |
| Error codes (`shop/api/errcode/`) | three maps and a counter | Register, lookups, (un)marshalling, ServeJSON | numbers that differ between programs; slices sorted in place | an error means the same at both ends of the wire | `ErrorCodes` |
| Context values and logging (`context/`, `configureLogging`) | the contexts of the process and of a request, the loggers pushed onto them | Value, WithVersion, WithValues, WithRequest, WithResponseWriter, WithVars, GetLogger | loggers keep what was true when they were made, response values change; an instance id generated on demand | every line can be told to be its request's, or its process's, and shows nothing stale | `RequestContext` |
| Authentication (`shop/auth/auth.go`) | session values, user in the context | Login, LoginOnce, Logout, Middleware | does not compile | | not modelled |
| Users, session key command, version | | password hashing, printing | external cryptography and plain I/O | | not modelled |

How they interact: ServeCmd parses the configuration, and NewShop sets up logging and
calls NewApp, which opens the redis pool (with one Ping) and dials MongoDB. NewListener
then gives ListenAndServe its socket. Requests come through net/http, the access log,
panicHandler and bugsnag to App; each gets a UUID; handlers may use `WithContext`, the
pool and the error codes. `ServeLifecycle` has the start-up of the other components as
one step each, which may fail, and the handlers as one state each; the other modules
look inside. Two modules compose: `ServeMongo` puts the calls of `MongoSession` into the
handlers of `ServeLifecycle`, and `RequestContext` the contexts and loggers around the
steps of `RequestHandler`.

## The modules

Each component has a module with its state, Init, one action per operation or step, and
its properties, and an `MC` module with the sets TLC uses. The proofs are in `_proofs`
modules: those of `ServeLifecycle` are in `ServeMongo_proofs`, those of `RequestContext` in
`RequestHandler_proofs`, those of every other component in one of its own. What
follows the word "Mutants" in a module are plausible wrong versions of a definition that
no specification uses; each breaks a property when it takes the definition's place.

### ServeLifecycle, GracefulServer

`main` is the program counter of `ServeCmd.Run`, `NewShop`, `NewApp` and
`ListenAndServe`, or how the process ended; `serve` that of the goroutine that calls
`shop.server.Serve`. The channel `quit` is a count of at most 1, `serveErr` a rendezvous
between `serve = "sending"` and `main = "select"`.

`req[r]` follows a request. The first of a connection comes with it: through the backlog,
Accept (`accepted`: in Serve's hand), registration (`new`), the handler (`active`) and the
answer (`done`). shop.go:83 builds its http.Server without options, so keep-alives are on
and every timeout is off: an answered connection may become one of the `idle` ones, on
which a further request is `read` and made active in two steps; and a silent client may
stay at `new` for ever. An end without an answer is `refused` (in the backlog), `closed`
(taken, no handler ran), `cut` (the handler ran when the process ended), or `orphan` and
then `dropped` (the handler ran on a connection the drain had closed and did not wait for).

What net/http does between these, as of Go 1.12, is external. Serve accepts a connection
and registers it in two steps, and refuses to start after Shutdown. Shutdown closes the
listener (`closing`) and polls: a poll closes every connection marked as idle, also one whose
goroutine has just read a request, and one that stayed new for 5 seconds, and waits while
others are left. The clock is left out: any new connection may be one of these.

GracefulServer is the promise without goroutines: a server told to stop takes nothing
more, may give up requests it has not begun to work on, ends with success when what it
began is answered, and with failure only when the grace period is over. Success may lose
one request that was begun, because of the two steps of Serve: a connection accepted but
not yet registered when Shutdown counts. GracefulExit bounds the handlers cut off on
connections in use by one. The requests given up are not bounded: the handler of each
request read on an idle connection as the first poll closes it runs on, as an orphan, and
its client gets no answer whether or not the process ends under it.

### MongoSession, SyncCall

A call of WithContext is `pc[c]`, the goroutine with f is `fn[c]`, the buffered channel
`chan[c]`. Of mgo (`vendor/github.com/globalsign/mgo`): a copied session takes a socket at
its first operation, waits when all are taken, and gives it back in Close. (mgo may briefly
open more sockets than its limit; the model does not.) SyncCall is what the caller may rely
on: the work is done during the call, success means it was done, and ctx.Err() is returned
only if the context was done. It does *not* say that a cancelled call had no effect, and the
code does not either: `ret = "ctxErr"` with `c \in committed` is reachable. `alive` is that
the process runs; `ProcessEnds` is the main goroutine leaving Run, which ends every call
where it is.

### ServeMongo

Extends ServeLifecycle and instantiates MongoSession with the requests as callers and
`alive` as "the process runs". It is what WithContext is written for: at this commit no
handler calls it. A handler between `Copy` and the end of `Close` does not return
(`HandlerEnds`), a panic of f is the Crash of the server (`WorkPanics`), and net/http
cancels a request's context when its client leaves or the drain has closed its connection,
but not because the server drains (`ClientLeaves` is the only source of cancellation).
Orphans go on with their calls like any other handler. The composition takes no step that a
component could not take alone: it is proved to refine each.

### RedisPool

`conf` is the configuration, any of a given set. A client is in Ping, in the get of
redigo's Pool (`vendor/github.com/gomodule/redigo/redis/pool.go`)
(prune, borrow, test, dial) or put, or in DialWithConf (dial, AUTH, SELECT). redigo's
mutex is released around every call that talks to the server, which is where the model
cuts get and put into steps; any command may find its connection broken. The clock is
left out: an idle connection may be found stale at any time. `lapsed` is history: the
connections that broke while they were idle, which TestOnBorrow must find.

### UnixListener

`path` is what the file system has at the path: nothing, the socket of a process, a file
that is no socket, or a symbolic link to a socket elsewhere, which os.Stat takes for a
socket and os.Remove removes. os.Stat, os.Remove and bind are three steps, and so are the
unlink and the close of Go's listener. Somebody else may put a file or a link at the path at
any time (`PlaceFile`). `permitted` is whether the directory lets the process do any of
this. Two history variables: `crossed` says who ran at the same time as another process,
or while somebody else used the path; `unaware` who had looked at the path, or listened
there, when a file of somebody else came. Such a process removes the file, and only such a
one (OtherFileKept). A link whose target does not exist is left out.

### UuidGenerate

One goroutine; `random` is the set of positions that hold random bytes, so that the
properties can say that a resumed read neither skips nor reads again.

### RequestHandler

`pc` walks from ServeHTTP to the handler of the route and back, with `panicking` set
when it unwinds. The response is kept three times, as in the program: by net/http
(`sent`, `size`), by the access log (`logStatus`, `logSize`) and by
instrumentedResponseWriter (`status`, `written`), whose calls forward first and record
under the lock afterwards: `forwarded` is the call in between. The handler is any that
keeps to the contract of http.ResponseWriter: at most one WriteHeader, and none after Write
or Flush (a later one net/http ignores, and irw would record); the one handler there is
today (`homeHandlerFunc`) is one Write and a return. `flushed` is whether net/http has put
something on the wire: after a panic it drops the rest and closes the connection (`Abort`),
so the client gets a response that breaks off, or none. `infoLogged` is whether the level
of the logger (shop.go:167) lets the completed line, an Infof, be written.

### RequestContext

A context in Go is a linked chain, and a lookup walks it from the top. What can be
observed of it is its answers, so a context is the function from keys to answers, and
each `With...` of the code overrides some (`Push`). The two keys whose answer is computed
at the lookup, the status and size of the response, are looked up in RequestHandler's
`status` and `written` (`Value`). A logger is a snapshot, as in logrus: `GetLogger` copies
the answers of the keys it is given on top of those of the logger the context has.
`app`, `ctx` and `inner` are the contexts of the process, of ServeHTTP and of the handler
of the route; `log` has the lines written, each with its fields. `main` walks through
ServeCmd, configureLogging, NewApp and the stop of the server, next to the request.

### ConfigOverride

A configuration is a tree of structs, maps and scalars, as package reflect sees it; a
scalar is abstracted to who wrote it. The overwrite functions are translated one by
one. They yield sets of results, since Go visits the keys of a map in any order.
The value of a variable is abstracted to what YAML makes of it for the field: a value,
an empty document, or an error; a value given for a whole section sets every scalar in
it.

overwriteFields calls itself through overwriteStruct and overwriteMap, with one part of the
name less each time. The module writes each level down: `OverwriteFields` for a whole
name calls `Overwrite4` for the rest, and so on, which is enough for names of
`MaxParts` = 5 parts (a map within a map within a map of the file). `Typed` is the type
Configuration, with six of its fields: two maps and four scalars, at the root and in sections.
What the code applies is `queue`, the variables left; `Applied` are those before.

### ErrorCodes

The registry of several programs, each numbering its codes in its own order, and the
envelope between them: Marshal in one, Unmarshal in another. `RegisterPanics` is the
panic that ends a program at initialisation. GetErrorCodeGroup returns the registry's
own slice sorted in place; SlicesOf says what every slice holds before and after. Codes
are only registered while packages initialise, so the readers, which take no lock, do
not race with Register.

## The runs

| Run | Instance | Distinct states | What it shows |
|---|---|---|---|
| `Serve` | 4 requests, each on a connection of its own or on one kept alive; a timeout (0 is covered by the proofs) | 204,273 | GracefulExit, GraceRespected: what an exit may cut off. DrainShrinks: the drain lets nothing in. ImplementsGracefulServer. TermObeyed, NoZombie: a signal or a lost listener ends the process |
| `Mongo` | 3 calls, 2 sockets | 273,546 | SessionOutlivesF and NothingLeftBehind in every race of cancellation and result. ImplementsSyncCall. EveryCallReturns: no call waits for ever for a socket |
| `ServeMongo` | 2 requests, 1 socket | 441,927 | AnswerIsFinal: nothing works for a request that was answered. WorkCutOff: which ends of the process cut work off, and how much. EveryCallEnds: no handler waits in WithContext for ever, before or during a drain. StopsByItself: a stop needs its deadline only for connections that a client, or a handler outside of WithContext, holds open |
| `RedisSafety` | 3 clients; all options given (MaxActive 2, MaxIdle 1), all left out | 23,609 | NoLeakNoSharing, HandedOutSetUp, CountExact, LimitRespected, with a connection that may break at every step, idle or in use |
| `RedisMaxActive` | 2 clients, MaxActive 1 | violation | BlocksAtLimit fails: see the findings |
| `UnixSafety` | 3 processes, and a file or link that comes at any time | 2,136 | ListenersReachable and RestartWorks for a process that nobody crosses, whatever crashed before it; OtherFileKept: who looks at a file leaves it |
| `UuidGenerate` | 16 bytes, 9 retries, as in the code | 2,690 | Version4: every byte is random. BackoffTotal: less than 450ms of sleep before the last retry, and exactly 450ms with it. Terminates |
| `RequestSafety` | 3 statuses, bodies up to 3; 3 field names, configured or not; 3 origins; both kinds of log level | 487,008 | StatusTrue, RecordsSettle, LinesTrue: three accounts of one response agree, a panic excepted; EveryEndLogged. LoggersCurrent, LinesAttributed, ProcessLinesMarked: what the lines show of request, response and process |
| `RequestHeaders` | 3 statuses, bodies up to 3 | violation | see the findings |
| `ConfigOverride` | up to 3 of 11 variables, 29 files | 824,744 | MostSpecificWins (for every parameter but the version), OtherEntriesKept, EntryWritten for every combination |
| `ConfigMapCase` | the same, 1 variable | violation | see the findings |
| `ErrorCodes` | 2 programs, 6 descriptors, 2 messages | 30,976 | WireFaithful, WireStable after every order of registration; GroupsPartition, CodesKept, StatusServed |

Why the bounds are enough. Serve: the worst case of the drain needs one connection in
Serve's hand, one active and one kept alive, idle, with a further request on it: four
requests. Mongo: one call more than sockets, so that one waits; two sockets, so that one may
be confused with another. ServeMongo: two requests and one socket, the smallest instance in
which one handler waits for another; with one request in Serve's hand and one active it has
the connection a drain can miss. RedisSafety: more clients than MaxActive, more connections
than MaxIdle. UnixSafety: two processes can take the path from each other, or lose it to a
file, while a third is alone later. UuidGenerate uses the constants of the code, and for
bytes those at the bounds of the fields. RequestSafety: 200, a status that allows no body,
and one that is no success; sizes that differ between the last write and the sum; field
names that are new, that hide the version and that hide the instance id; a request that
names no proxy, a valid one, or an invalid one with a valid X-Real-Ip. ConfigOverride: a
scalar, its section and one sibling at once; files with an entry in the same case, another
case, both, without a value, and as a map of its own. The names in MCConfigOverride are in
byte order, which is checked, where it matters, by LexicalAssumption, as CapitalsAssumption
and FilesAssumption check the cases of the keys and the type of the files. ErrorCodes:
versions of one error that differ in message and status, and a message two errors share.

Deadlock is not checked where the system may stop: processes end (Serve, Redis after a
failed Ping, ErrorCodes after a panic) and one-shot calls are over (Mongo, uuid,
request, parser). UnixSafety checks it, since a supervisor may always start a process.
Symmetry is used in runs without liveness only (Redis, Unix), and in Redis not for the
client that runs NewRedisPool.

## Fairness

Serve: the scheduler runs a goroutine that can step, and timers fire (WF). Nothing is
assumed of the steps of start-up, because redis or MongoDB may accept a connection and
never answer (timeouts left out are 0, which means none), nor of clients, handlers,
signals and crashes; TermObeyed holds with handlers that never return. The drain's
select between its poll timer and its deadline picks a ready case at random, so the
deadline is not passed over for ever (SF for GiveUpDraining).
Mongo: both goroutines of a call run; f ends once it has a socket, because mgo.Dial sets
a timeout for every operation. Nobody has to cancel, and each caller calls once.
ServeMongo: the goroutines of a server that stops and of the calls run, and f ends once it
has its socket. The deadline of the drain need not fire, only the ticker of Shutdown. Nothing
is assumed of clients, nor of what a handler does outside of WithContext: without timeouts in
shop.go:83 a silent or slow client holds its connection, and so the drain, until the
deadline. What StopsByItself needs of them is its antecedent: that no connection is held
open for ever.
Uuid: the goroutine runs, and the random source answers, though it may fail each time.

## What is proved

For every value of the constants, from the named assumptions of each module:

- `ServeMongo_proofs`, of ServeLifecycle: GracefulExit, GraceRespected, DrainShrinks, and
  that every step is one of GracefulServer or none, for any number of requests and
  connections kept alive. The invariant ServeInv needs, beyond these, that Serve holds at
  most one connection (OneInHand), that nothing is served before Serve starts and no grace
  runs before the select (NoServiceBeforeServe, NothingServedEarly), that a Serve that
  accepts during the drain has a closed listener (ShutdownCloses), that the first poll
  leaves no idle connection (NoneIdle), and that one tracked connection at most is left when
  the poll found the drain over (OneLeft); CutOnlyByExit ties cuts to the end of the
  process, and orphans to the polls.
- `MongoSession_proofs`: SessionOutlivesF, NothingLeftBehind, exclusive sockets, and that
  WithContext implements SyncCall. CallInv adds where both goroutines and the
  channel are at each point of a call; without "the channel is full exactly when f is
  over" the wait after a cancellation would not be safe.
- `ServeMongo_proofs`, of the composition: it refines ServeLifecycle and MongoSession, so
  what is proved of these holds in it; CallsBelong ties them together (a call is under way
  only for a request whose handler runs, or that was cut off or dropped), from which
  AnswerIsFinal and WorkCutOff follow.
- `RedisPool_proofs`: NoLeakNoSharing, HandedOutSetUp, CountExact and LimitRespected, for
  any number of clients and any configuration. PoolInv says which connection each client
  holds at each step and in what state (InHand), that idle list and hands are disjoint and
  without repetition, and that the count is that of the idle connections and of the
  clients that hold or are dialling one; without the exact count the limit does not
  follow, without disjointness the count is not kept.
- `UnixListener_proofs`: RestartWorks, ListenersReachable and OtherFileKept. AloneInv says
  what a run nobody crosses knows of the path after each system call, FileUnseen that
  nobody who saw the file at the path is about to remove it.
- `RequestHandler_proofs`: StatusTrue, RecordsSettle, LinesTrue, EveryEndLogged; that
  RequestContext refines RequestHandler; LoggersCurrent, LinesAttributed and
  ProcessLinesMarked, for any set of field names, route variables and origins.
  AccountsAgree relates the three accounts, CallInProgress the call between forward and
  record, WayBack what each stage of the return has done.
- `ErrorCodes_proofs`: the registry stays consistent (MapsAgree, with NextCodeFree, without
  which a new code could replace an old one), codes keep their meaning, and WireFaithful,
  WireStable and StatusServed, for every catalog, message and detail; the descriptors are
  assumed to have messages. GroupsPartition, for every strict order of values: a sorted
  slice is drawn from the elements of the old one and strict, hence injective, hence a
  permutation (FS_Injection of the library).
- `UuidGenerate_proofs`: Version4 and BackoffTotal, from the accounts of bytes and sleeps in
  UuidInv, for any size of at least 9 bytes and any number of retries.
- `ConfigOverride_proofs`: MostSpecificWins, OtherEntriesKept, EntryWritten, and that a
  variable for the version replaces it (VersionOverridden), for every environment and every
  file of the type Configuration, from three assumptions: the names have at most 5 parts and
  are given in byte order, in which a name comes after its prefixes (LexicalAssumption);
  their parts are in capitals, so that ToUpper undoes ToLower (CapitalsAssumption); and the
  files have the type (FilesAssumption). The code takes names in small letters too, which no
  field matches and which may mean an entry of a map that another name means; they are not
  covered. VariableEffect says what one variable does to each field, whatever the order in
  which Go visits the keys of a map: it replaces what its name covers, changes one entry of
  a map its name leads into, and leaves the rest. ConfigInv is what the loop over p.env
  keeps: the properties for the variables applied so far, and QueueSorted, without which a
  less specific variable could still come and replace what a more specific one wrote.
  KeysKnown says that every key is one of the file or in the form overwriteMap creates, and
  that no entry loses its value: an entry created again, over what was written to it, is the
  only way a longer name could undo a shorter.

Every invariant and every action property the runs check is proved. The inductive
invariants contain the type invariants; ServeInv, which also says something by itself, is
checked by a run too.

Only model-checked: the liveness properties (the prover has no ENABLED), which are
TermObeyed, NoZombie, EveryCallReturns, EveryCallEnds, StopsByItself and Terminates.
What they rest on besides fairness is proved, for every size:

- EndInSight, for NoZombie and TermObeyed: with the listener closed, the error of Serve is
  offered to the select or the drain goes on, and a server told to stop has a deadline;
- WaitsEnd, for EveryCallReturns: whoever holds a socket goes on without another call;
- HandlersGoOn, for EveryCallEnds and StopsByItself: the sockets a handler waits for are held
  by handlers in progress that go on, so nobody is stuck in WithContext;
- StepsRunOut, for Terminates: every step of Generate lowers StepsLeft.

What is missing to liveness is that the steps named by the fairness are then enabled,
which TLC shows on the instances of the runs.

## Findings

Where the code does not do what its documentation says:

- `RedisMaxActive`: at the limit the pool refuses a connection at once
  (`shop/redis/redis.go:43` leaves Wait false); `configuration.go:139-140` says it blocks.
- `RequestHeaders`: answers the router gives by itself (404 and redirects) lack the
  configured headers (`handlers/app.go:129`); `configuration.go:69` promises them for
  HTTP responses.
- `ConfigMapCase`: a variable for a map entry is stored in lower case beside the
  entry of the file (`parser.go:280`); `parser.go:113` says it replaces it. For
  `http.headers` the dispatcher then sends both values.

Smaller ones, without a run of their own. Shown by a theorem or in a property:
`THATIQ_VERSION` changes the version (VersionOverridden; `parser.go:110-111` says "other
than version"), after it was checked and with no effect; the sleeps of Generate add up to
exactly 450ms when every retry is used (BackoffTotal; `uuid.go:42` says less than 450ms).
Seen while modelling: the comment at `parser.go:96-97` has more specific variables applied
first, the code (rightly) applies them last, which MostSpecificWins needs; panicHandler
speaks of configured log hooks (`shop.go:125-127`), and configureLogging installs none. A
response that a panic ends, of which the client may get nothing, can be logged as "response
completed" with its status (`handlers/app.go:105` is deferred), where `http.go:161-162` says
to call GetResponseLogger only after the response has been written: LinesTrue,
EveryEndLogged and LinesAttributed make no claim of that line after a panic. The lines of
requests show neither the version, nor the instance, nor the configured fields: ServeHTTP
starts from the context of net/http (`handlers/app.go:99`), not from that of the App;
WithVersion's comment (`version.go:9-11`) and `log.fields` promise them for log messages,
which ProcessLinesMarked shows for those of the process only. The line of a recovered panic
shows no request id, since panicHandler uses the standard logger. uuid.Parse scans with
`%08x` into byte slices, which accepts short sections: some texts of 36 characters that are
no UUIDs are parsed. A variable longer than a scalar, or that leads into a map nested in the
file, is ignored without a warning. A more specific variable for an entry the file leaves
without a value, in another case, creates the entry again and drops what a shorter variable
wrote: the exception in EntryWritten.

## Not modelled

- Authentication (`shop/auth`): the package does not compile. It uses `fmt.Error` and
  `sessions.Storage`, which do not exist, returns nil for a struct and refers to a
  package `auth` it does not import; gorilla/sessions is not vendored; and nothing imports it.
  There is no behaviour to be faithful to.
- UUID Parse and String: pure functions between text and bytes. Nothing calls Parse.
- Of the contexts: GetLoggerWithField(s), GetRequest, GetResponseWriter, RemoteIP and Since,
  accessors that keep no state and mostly have no caller; the duration of a request; method,
  host, URI, referer, user agent and content type, which are looked up like the
  remote address.
- The TCP listener (keep-alive options only), users (bcrypt and one insert), the session
  key command and the version (printing), formats of log lines, YAML itself, and what
  handlers do with their data.
- Lines written through the standard logger rather than one of a context (`shop.go:47`, `51`,
  `195`, `216`, the warnings of the parser), and parseIP's warnings: they show no id by
  construction.
- Two calls of GetErrorCodeGroup at once, which would sort the shared slice under each
  other: nothing outside the package calls it at this commit.
- Of net/http: pipelined and malformed requests, hijacked connections. Of the file
  system: links without a target.

## Plan

The components with state and concurrency are modelled. What is left, in this order:

1. When handlers of their own arrive: their calls in ServeMongo (several calls of
   WithContext per request, a call that hands its session on), and their answers through
   ErrorCodes in RequestHandler.
2. The redis pool in the composition with the drain, once a handler uses it.
3. Authentication, when the package compiles.
