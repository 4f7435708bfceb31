----------------------------- MODULE ErrorCodes -----------------------------
(***************************************************************************)
(* The registry of error codes and the JSON envelope that carries errors   *)
(* from the server to its clients (shop/api/errcode).                      *)
(*                                                                         *)
(* Every process numbers the codes in the order in which its packages      *)
(* register them, so the numbers of two programs, or of two versions of    *)
(* one, differ; on the wire an error is named by the Value of its          *)
(* descriptor.  What one process marshals here any other may unmarshal.    *)
(***************************************************************************)
EXTENDS Integers, Sequences

CONSTANTS
  Procs,     \* the programs that link the package
  Values,    \* the identifiers of errors, such as "DENIED"
  Unknown,   \* "UNKNOWN", which package errcode registers first
  Messages,  \* the messages of descriptors and errors, "" not among them
  Statuses,  \* HTTPStatusCode, 0 when a descriptor has none
  Groups,    \* the groups of errors
  Catalog,   \* what the packages may pass to Register: group and descriptor
  Less(_, _),\* the order of the values
  Details,   \* what the detail of an error is as JSON
  NoDetail   \* a detail that is nil

ASSUME UnknownAssumption == Unknown \in Values
ASSUME MessageAssumption == "" \notin Messages
ASSUME DetailAssumption  == NoDetail \notin Details
ASSUME CatalogAssumption ==
  Catalog \subseteq [group : Groups, value : Values, message : Messages, status : Statuses]
ASSUME LessAssumption == \A v \in Values : ~ Less(v, v)

\* The zero value of ErrorCode is the code of no descriptor.
FirstCode == 1000
Codes     == {0} \cup {c \in Nat : c >= FirstCode}

VARIABLES
  byCode,   \* errorCodeToDescriptors of each process
  byId,     \* idToDescriptors
  byGroup,  \* groupToDescriptors
  nextCode,
  alive     \* the processes that no panic ended

vars == <<byCode, byId, byGroup, nextCode, alive>>

Descriptors == [code : Codes, value : Values, message : Messages, status : Statuses]

\* The descriptor Register stores: the one it is passed, with a code.
Coded(code, entry) ==
  [code |-> code, value |-> entry.value, message |-> entry.message, status |-> entry.status]

\* Package errcode has registered ErrorCodeUnknown before any other code runs.
Init ==
  \E entry \in {e \in Catalog : e.value = Unknown} :
    LET d == Coded(FirstCode, entry)
    IN /\ byCode   = [p \in Procs |-> [c \in {FirstCode} |-> d]]
       /\ byId     = [p \in Procs |-> [v \in {Unknown} |-> d]]
       /\ byGroup  = [p \in Procs |-> [g \in Groups |-> IF g = entry.group THEN <<d>> ELSE <<>>]]
       /\ nextCode = [p \in Procs |-> FirstCode + 1]
       /\ alive    = Procs

-----------------------------------------------------------------------------
(* Lookups and the envelope. *)

\* ErrorCode.Descriptor: a code nobody registered is unknown.
Descriptor(p, code) ==
  IF code \in DOMAIN byCode[p] THEN byCode[p][code] ELSE byCode[p][FirstCode]

\* ErrorCode.UnmarshalText and ParseErrorCode.
ParseErrorCode(p, value) ==
  IF value \in DOMAIN byId[p] THEN byId[p][value].code ELSE byCode[p][FirstCode].code

\* The three things an error in Errors may be: a bare ErrorCode, an Error, and
\* an error of another type.
ErrorCode(code)              == [type |-> "ErrorCode", code |-> code, message |-> "", detail |-> NoDetail]
Error(code, message, detail) == [type |-> "Error", code |-> code, message |-> message, detail |-> detail]

Errors(codes) ==
  [type : {"ErrorCode"}, code : codes, message : {""}, detail : {NoDetail}]
  \cup [type : {"Error"}, code : codes, message : Messages \cup {""}, detail : Details \cup {NoDetail}]
  \cup [type : {"other"}, code : {0}, message : {""}, detail : Details]

(* Mutants: a message that is not filled in, a detail that is dropped, and a *)
(* status taken before the lookup falls back to 500.  No specification uses  *)
(* them.                                                                     *)
MarshalLeavesMessage(p, err) ==
  LET d == Descriptor(p, err.code) IN
  [id |-> d.value, message |-> err.message, detail |-> err.detail]

UnmarshalDropsDetail(p, wire) ==
  LET code == ParseErrorCode(p, wire.id) IN
  IF wire.message = "" \/ wire.message = Descriptor(p, code).message
    THEN ErrorCode(code)
    ELSE Error(code, wire.message, wire.detail)

StatusUnchecked(p, errs) ==
  IF errs # <<>> /\ Head(errs).type # "other" THEN Descriptor(p, Head(errs).code).status ELSE 500

\* One element of Errors.MarshalJSON: an error of another type is unknown with
\* the error as its detail, and an empty message is that of the code.
Marshal(p, err) ==
  LET code == IF err.type = "other" THEN FirstCode ELSE err.code
      d    == Descriptor(p, code)
  IN [id      |-> d.value,
      message |-> IF err.message = "" THEN d.message ELSE err.message,
      detail  |-> err.detail]

\* One element of Errors.UnmarshalJSON: what the code says anyway is dropped.
Unmarshal(p, wire) ==
  LET code == ParseErrorCode(p, wire.id) IN
  IF wire.detail = NoDetail /\ (wire.message = "" \/ wire.message = Descriptor(p, code).message)
    THEN ErrorCode(code)
    ELSE Error(code, wire.message, wire.detail)

\* The status ServeJSON answers Errors with: that of the first error.
ServeStatus(p, errs) ==
  LET sc == IF errs # <<>> /\ Head(errs).type # "other"
              THEN Descriptor(p, Head(errs).code).status
              ELSE 0
  IN IF sc = 0 THEN 500 ELSE sc

-----------------------------------------------------------------------------
(* Mutants of Register: the value is not checked, or the number not counted. *)

Add(p, g, d, next) ==
  /\ byGroup'  = [byGroup EXCEPT ![p][g] = Append(@, d)]
  /\ byCode'   = [byCode EXCEPT ![p] = [c \in DOMAIN @ \cup {nextCode[p]} |->
                                          IF c = nextCode[p] THEN d ELSE @[c]]]
  /\ byId'     = [byId EXCEPT ![p] = [v \in DOMAIN @ \cup {d.value} |->
                                        IF v = d.value THEN d ELSE @[v]]]
  /\ nextCode' = [nextCode EXCEPT ![p] = next]
  /\ UNCHANGED alive

RegisterUnchecked(p, entry) ==
  /\ p \in alive
  /\ Add(p, entry.group, Coded(nextCode[p], entry), nextCode[p] + 1)

RegisterUncounted(p, entry) ==
  /\ p \in alive
  /\ Add(p, entry.group, Coded(nextCode[p], entry), nextCode[p])

-----------------------------------------------------------------------------
\* Register, under its lock.
Register(p, entry) ==
  /\ p \in alive
  /\ entry.value \notin DOMAIN byId[p]
  /\ nextCode[p] \notin DOMAIN byCode[p]
  /\ LET d == Coded(nextCode[p], entry) IN
     /\ byGroup'  = [byGroup EXCEPT ![p][entry.group] = Append(@, d)]
     /\ byCode'   = [byCode EXCEPT ![p] = [c \in DOMAIN @ \cup {nextCode[p]} |->
                                             IF c = nextCode[p] THEN d ELSE @[c]]]
     /\ byId'     = [byId EXCEPT ![p] = [v \in DOMAIN @ \cup {entry.value} |->
                                           IF v = entry.value THEN d ELSE @[v]]]
  /\ nextCode' = [nextCode EXCEPT ![p] = @ + 1]
  /\ UNCHANGED alive

\* A value, or a code, that is registered already is a panic: nothing has been
\* changed, and the package's initialisation, and the process, ends.
RegisterPanics(p, entry) ==
  /\ p \in alive
  /\ entry.value \in DOMAIN byId[p] \/ nextCode[p] \in DOMAIN byCode[p]
  /\ alive' = alive \ {p}
  /\ UNCHANGED <<byCode, byId, byGroup, nextCode>>

\* GetErrorCodeGroup sorts the slice of the registry itself.
GetErrorCodeGroup(p, g) ==
  /\ p \in alive
  /\ \E sorted \in [1..Len(byGroup[p][g]) -> {byGroup[p][g][i] : i \in 1..Len(byGroup[p][g])}] :
       /\ \A i, j \in DOMAIN sorted : i < j => Less(sorted[i].value, sorted[j].value)
       /\ byGroup' = [byGroup EXCEPT ![p][g] = sorted]
  /\ UNCHANGED <<byCode, byId, nextCode, alive>>

Next ==
  \E p \in Procs :
    \/ \E entry \in Catalog : Register(p, entry) \/ RegisterPanics(p, entry)
    \/ \E g \in Groups : GetErrorCodeGroup(p, g)

Spec == Init /\ [][Next]_vars

-----------------------------------------------------------------------------
(* Properties. *)

\* The two maps of a process are views of one set of descriptors: each code and
\* each value leads to its own descriptor.
MapsOf(p) ==
  /\ \A c \in DOMAIN byCode[p] :
       /\ byCode[p][c].code = c
       /\ byCode[p][c].value \in DOMAIN byId[p]
       /\ byId[p][byCode[p][c].value] = byCode[p][c]
  /\ \A v \in DOMAIN byId[p] :
       /\ byId[p][v].value = v
       /\ byId[p][v].code \in DOMAIN byCode[p]
       /\ byCode[p][byId[p][v].code] = byId[p][v]

MapsAgree == \A p \in Procs : MapsOf(p)

\* The slices of the groups hold every descriptor once, sorted or not.
GroupsPartition ==
  \A p \in Procs : \A v \in DOMAIN byId[p] :
    \E g \in Groups : \E i \in 1..Len(byGroup[p][g]) :
      /\ byGroup[p][g][i] = byId[p][v]
      /\ \A h \in Groups : \A j \in 1..Len(byGroup[p][h]) :
           byGroup[p][h][j].value = v => h = g /\ j = i

\* A code keeps its meaning for as long as the process runs.
CodesKept ==
  [][\A p \in Procs : \A c \in DOMAIN byCode[p] :
       c \in DOMAIN byCode'[p] /\ byCode'[p][c] = byCode[p][c]]_vars

\* The codes a process may hold: those it registered and the zero value.
CodesOf(p) == DOMAIN byCode[p] \cup {0}

\* The identifier and the message an error has in process p.
ValueOf(p, err)   == Descriptor(p, IF err.type = "other" THEN FirstCode ELSE err.code).value
MessageOf(p, err) ==
  IF err.message = "" THEN Descriptor(p, IF err.type = "other" THEN FirstCode ELSE err.code).message
                      ELSE err.message

\* "The errors are serialized via strings and the integer format may change":
\* an error that process p sends means the same to process q, whatever the
\* order in which the two registered their codes; an error q does not know is
\* unknown there and keeps its message and its detail.
WireFaithful ==
  \A p, q \in Procs : \A err \in Errors(CodesOf(p)) :
    LET got == Unmarshal(q, Marshal(p, err)) IN
    /\ ValueOf(q, got) = IF ValueOf(p, err) \in DOMAIN byId[q] THEN ValueOf(p, err) ELSE Unknown
    /\ MessageOf(q, got) = MessageOf(p, err)
    /\ got.detail = err.detail

\* An error that q passes on looks as it came in, if q knows it.
WireStable ==
  \A p, q \in Procs : \A err \in Errors(CodesOf(p)) :
    LET wire == Marshal(p, err) IN
    wire.id \in DOMAIN byId[q] => Marshal(q, Unmarshal(q, wire)) = wire

\* ServeJSON answers with a status that http.ResponseWriter accepts, and with
\* that of the error code it was given.
StatusServed ==
  \A p \in Procs : \A err \in Errors(CodesOf(p)) :
    LET status == ServeStatus(p, <<err>>) IN
    /\ status # 0
    /\ err.type # "other" /\ Descriptor(p, err.code).status # 0
         => status = byId[p][Marshal(p, err).id].status

-----------------------------------------------------------------------------
(* The inductive invariant. *)

TypeOK ==
  /\ byCode = [p \in Procs |-> [c \in DOMAIN byCode[p] |-> byCode[p][c]]]
  /\ byId = [p \in Procs |-> [v \in DOMAIN byId[p] |-> byId[p][v]]]
  /\ nextCode = [p \in Procs |-> nextCode[p]]
  /\ \A p \in Procs :
       /\ DOMAIN byCode[p] \subseteq Codes
       /\ \A c \in DOMAIN byCode[p] : byCode[p][c] \in Descriptors
       /\ DOMAIN byId[p] \subseteq Values
       /\ \A v \in DOMAIN byId[p] : byId[p][v] \in Descriptors
       /\ nextCode[p] \in Codes
  /\ alive \subseteq Procs

\* The next code is beyond every code in use, and Unknown is the first one.
NextCodeFree ==
  \A p \in Procs :
    /\ \A c \in DOMAIN byCode[p] : FirstCode <= c /\ c < nextCode[p]
    /\ FirstCode \in DOMAIN byCode[p]
    /\ byCode[p][FirstCode].value = Unknown

RegistryInv ==
  /\ TypeOK
  /\ MapsAgree
  /\ NextCodeFree

\* The slices hold what the maps hold: descriptors of the registry, no value
\* twice, and none missing.
SlicesOf(p) ==
  /\ \A g \in Groups : byGroup[p][g] \in Seq(Descriptors)
  /\ \A g \in Groups : \A i \in 1..Len(byGroup[p][g]) :
       LET d == byGroup[p][g][i] IN
       /\ d.value \in DOMAIN byId[p] /\ d = byId[p][d.value]
       /\ \A h \in Groups : \A j \in 1..Len(byGroup[p][h]) :
            byGroup[p][h][j].value = d.value => h = g /\ j = i
  /\ \A v \in DOMAIN byId[p] :
       \E g \in Groups : \E i \in 1..Len(byGroup[p][g]) : byGroup[p][g][i].value = v

GroupsInv ==
  /\ byGroup = [p \in Procs |-> [g \in Groups |-> byGroup[p][g]]]
  /\ \A p \in Procs : SlicesOf(p)
=============================================================================
