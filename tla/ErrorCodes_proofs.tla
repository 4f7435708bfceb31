-------------------------- MODULE ErrorCodes_proofs --------------------------
(***************************************************************************)
(* The registry of every process stays consistent, and errors mean the     *)
(* same at both ends of the wire, for every catalog of descriptors.        *)
(***************************************************************************)
EXTENDS ErrorCodes, FiniteSetTheorems, SequenceTheorems, TLAPS

\* The registry that package errcode leaves behind is consistent.
LEMMA InitInv == Init => RegistryInv
<1>. SUFFICES ASSUME Init PROVE RegistryInv
     OBVIOUS
<1>1. PICK entry \in Catalog :
        LET d == Coded(FirstCode, entry)
        IN /\ entry.value = Unknown
           /\ byCode = [p \in Procs |-> [c \in {FirstCode} |-> d]]
           /\ byId = [p \in Procs |-> [v \in {Unknown} |-> d]]
           /\ nextCode = [p \in Procs |-> FirstCode + 1]
           /\ alive = Procs
      BY DEF Init
<1>. DEFINE d == Coded(FirstCode, entry)
<1>2. d \in Descriptors /\ d.code = FirstCode /\ d.value = Unknown
      BY <1>1, CatalogAssumption DEF Coded, Descriptors, Codes, FirstCode
<1>3. ASSUME NEW p \in Procs
      PROVE  /\ DOMAIN byCode[p] = {FirstCode} /\ byCode[p][FirstCode] = d
             /\ DOMAIN byId[p] = {Unknown} /\ byId[p][Unknown] = d
             /\ nextCode[p] = FirstCode + 1
      BY <1>1
<1>. HIDE DEF d
<1>4. TypeOK
  <2>1. /\ byCode = [p \in Procs |-> [c \in DOMAIN byCode[p] |-> byCode[p][c]]]
        /\ byId = [p \in Procs |-> [v \in DOMAIN byId[p] |-> byId[p][v]]]
        /\ nextCode = [p \in Procs |-> nextCode[p]]
        BY <1>1
  <2>2. FirstCode \in Codes /\ FirstCode + 1 \in Codes
        BY DEF Codes, FirstCode
  <2>. QED
    BY <1>1, <1>2, <1>3, <2>1, <2>2, UnknownAssumption DEF TypeOK
<1>5. ASSUME NEW p \in Procs PROVE MapsOf(p)
      BY <1>2, <1>3 DEF MapsOf
<1>7. MapsAgree
      BY <1>5 DEF MapsAgree
<1>6. NextCodeFree
  <2>1. FirstCode <= FirstCode /\ FirstCode < FirstCode + 1
        BY DEF FirstCode
  <2>. QED
    BY <1>2, <1>3, <2>1 DEF NextCodeFree
<1>. QED
  BY <1>4, <1>6, <1>7 DEF RegistryInv

\* Register adds one descriptor to both maps of its process, and changes nothing
\* else.
LEMMA RegisterEffect ==
  ASSUME RegistryInv, NEW p \in Procs, NEW entry \in Catalog, Register(p, entry)
  PROVE  LET d == Coded(nextCode[p], entry) IN
         /\ d \in Descriptors /\ d.code = nextCode[p] /\ d.value = entry.value
         /\ entry.value \in Values \ DOMAIN byId[p]
         /\ DOMAIN byCode'[p] = DOMAIN byCode[p] \cup {nextCode[p]}
         /\ byCode'[p][nextCode[p]] = d
         /\ \A c \in DOMAIN byCode[p] : byCode'[p][c] = byCode[p][c]
         /\ DOMAIN byId'[p] = DOMAIN byId[p] \cup {entry.value}
         /\ byId'[p][entry.value] = d
         /\ \A v \in DOMAIN byId[p] : byId'[p][v] = byId[p][v]
         /\ nextCode'[p] = nextCode[p] + 1
         /\ \A q \in Procs \ {p} :
              byCode'[q] = byCode[q] /\ byId'[q] = byId[q] /\ nextCode'[q] = nextCode[q]
<1>. DEFINE d == Coded(nextCode[p], entry)
            newCode == [c \in DOMAIN byCode[p] \cup {nextCode[p]} |->
                          IF c = nextCode[p] THEN d ELSE byCode[p][c]]
            newId == [w \in DOMAIN byId[p] \cup {entry.value} |->
                        IF w = entry.value THEN d ELSE byId[p][w]]
<1>1. d \in Descriptors /\ d.code = nextCode[p] /\ d.value = entry.value
      BY CatalogAssumption DEF RegistryInv, TypeOK, Coded, Descriptors
<1>2. entry.value \in Values \ DOMAIN byId[p] /\ nextCode[p] \notin DOMAIN byCode[p]
      BY CatalogAssumption DEF Register
<1>3. byCode' = [byCode EXCEPT ![p] = newCode] /\ byId' = [byId EXCEPT ![p] = newId]
      BY DEF Register
<1>4. DOMAIN byCode = Procs /\ DOMAIN byId = Procs /\ DOMAIN nextCode = Procs
      BY DEF RegistryInv, TypeOK
<1>5. byCode'[p] = newCode /\ byId'[p] = newId
      BY <1>3, <1>4
<1>6. \A q \in Procs \ {p} : byCode'[q] = byCode[q] /\ byId'[q] = byId[q]
      BY <1>3, <1>4
<1>7. nextCode'[p] = nextCode[p] + 1 /\ \A q \in Procs \ {p} : nextCode'[q] = nextCode[q]
      BY <1>4 DEF Register
<1>. HIDE DEF d
<1>8. /\ DOMAIN newCode = DOMAIN byCode[p] \cup {nextCode[p]} /\ newCode[nextCode[p]] = d
      /\ \A c \in DOMAIN byCode[p] : newCode[c] = byCode[p][c]
      BY <1>2
<1>9. /\ DOMAIN newId = DOMAIN byId[p] \cup {entry.value} /\ newId[entry.value] = d
      /\ \A v \in DOMAIN byId[p] : newId[v] = byId[p][v]
      BY <1>2
<1>. QED
  BY <1>1, <1>2, <1>5, <1>6, <1>7, <1>8, <1>9 DEF d

\* Only Register touches the maps and the next code.
LEMMA OthersKeepMaps ==
  ASSUME [Next]_vars
  PROVE  \/ \E p \in Procs, entry \in Catalog : Register(p, entry)
         \/ UNCHANGED <<byCode, byId, nextCode>> /\ alive' \subseteq alive
<1>1. ASSUME NEW p \in Procs, NEW entry \in Catalog, RegisterPanics(p, entry)
      PROVE  UNCHANGED <<byCode, byId, nextCode>> /\ alive' \subseteq alive
      BY <1>1 DEF RegisterPanics
<1>2. ASSUME NEW p \in Procs, NEW g \in Groups, GetErrorCodeGroup(p, g)
      PROVE  UNCHANGED <<byCode, byId, nextCode>> /\ alive' \subseteq alive
      BY <1>2 DEF GetErrorCodeGroup
<1>3. CASE UNCHANGED vars
      BY <1>3 DEF vars
<1>. QED
  BY <1>1, <1>2, <1>3 DEF Next

\* Every step keeps the registry of every process consistent.
LEMMA StepInv == RegistryInv /\ [Next]_vars => RegistryInv'
<1>. SUFFICES ASSUME RegistryInv, [Next]_vars
              PROVE  RegistryInv'
     OBVIOUS
<1>1. CASE UNCHANGED <<byCode, byId, nextCode>> /\ alive' \subseteq alive
      BY <1>1 DEF RegistryInv, TypeOK, MapsAgree, MapsOf, NextCodeFree
<1>2. ASSUME NEW p \in Procs, NEW entry \in Catalog, Register(p, entry)
      PROVE  RegistryInv'
  <2>. DEFINE d == Coded(nextCode[p], entry)
  <2>1. /\ d \in Descriptors /\ d.code = nextCode[p] /\ d.value = entry.value
        /\ entry.value \in Values \ DOMAIN byId[p]
        /\ DOMAIN byCode'[p] = DOMAIN byCode[p] \cup {nextCode[p]}
        /\ byCode'[p][nextCode[p]] = d
        /\ \A c \in DOMAIN byCode[p] : byCode'[p][c] = byCode[p][c]
        /\ DOMAIN byId'[p] = DOMAIN byId[p] \cup {entry.value}
        /\ byId'[p][entry.value] = d
        /\ \A v \in DOMAIN byId[p] : byId'[p][v] = byId[p][v]
        /\ nextCode'[p] = nextCode[p] + 1
        /\ \A q \in Procs \ {p} :
             byCode'[q] = byCode[q] /\ byId'[q] = byId[q] /\ nextCode'[q] = nextCode[q]
        BY <1>2, RegisterEffect
  <2>. HIDE DEF d
  <2>2. /\ byCode' = [q \in Procs |-> [c \in DOMAIN byCode'[q] |-> byCode'[q][c]]]
        /\ byId' = [q \in Procs |-> [v \in DOMAIN byId'[q] |-> byId'[q][v]]]
        /\ nextCode' = [q \in Procs |-> nextCode'[q]]
        BY <1>2 DEF Register, RegistryInv, TypeOK
  <2>3. nextCode[p] \in Nat /\ nextCode[p] > FirstCode
        BY DEF RegistryInv, NextCodeFree, TypeOK, Codes, FirstCode
  <2>4. TypeOK'
    <3>1. nextCode[p] \in Codes /\ nextCode[p] + 1 \in Codes /\ alive' \subseteq Procs
          BY <1>2, <2>3 DEF Register, RegistryInv, TypeOK, Codes, FirstCode
    <3>2. ASSUME NEW q \in Procs
          PROVE  /\ DOMAIN byCode'[q] \subseteq Codes
                 /\ \A c \in DOMAIN byCode'[q] : byCode'[q][c] \in Descriptors
                 /\ DOMAIN byId'[q] \subseteq Values
                 /\ \A v \in DOMAIN byId'[q] : byId'[q][v] \in Descriptors
                 /\ nextCode'[q] \in Codes
      <4>1. CASE q = p
            BY <2>1, <3>1, <4>1 DEF RegistryInv, TypeOK
      <4>2. CASE q # p
            BY <2>1, <4>2 DEF RegistryInv, TypeOK
      <4>. QED
        BY <4>1, <4>2
    <3>. QED
      BY <2>2, <3>1, <3>2 DEF TypeOK
  <2>5. MapsAgree'
    <3>1. MapsOf(p)'
          BY <2>1, <2>3 DEF RegistryInv, MapsAgree, MapsOf, NextCodeFree
    <3>2. ASSUME NEW q \in Procs \ {p} PROVE MapsOf(q)'
          BY <2>1 DEF RegistryInv, MapsAgree, MapsOf
    <3>. QED
      BY <3>1, <3>2 DEF MapsAgree
  <2>6. NextCodeFree'
        BY <2>1, <2>3 DEF RegistryInv, NextCodeFree, TypeOK, Codes, FirstCode
  <2>. QED
    BY <2>4, <2>5, <2>6 DEF RegistryInv
<1>. QED
  BY <1>1, <1>2, OthersKeepMaps

\* The inductive invariant: both maps agree, and the next code is free.
THEOREM RegistryInvHolds == Spec => []RegistryInv
BY InitInv, StepInv, PTL DEF Spec

\* A code keeps its meaning for as long as the process runs.
THEOREM CodesKeptHolds == Spec => CodesKept
<1>1. RegistryInv /\ [Next]_vars =>
        [\A p \in Procs : \A c \in DOMAIN byCode[p] :
           c \in DOMAIN byCode'[p] /\ byCode'[p][c] = byCode[p][c]]_vars
  <2>. SUFFICES ASSUME RegistryInv, [Next]_vars, NEW q \in Procs, NEW c \in DOMAIN byCode[q]
                PROVE  c \in DOMAIN byCode'[q] /\ byCode'[q][c] = byCode[q][c]
       OBVIOUS
  <2>1. ASSUME NEW p \in Procs, NEW entry \in Catalog, Register(p, entry)
        PROVE  c \in DOMAIN byCode'[q] /\ byCode'[q][c] = byCode[q][c]
        BY <2>1, RegisterEffect
  <2>. QED
    BY <2>1, OthersKeepMaps
<1>. QED
  BY <1>1, RegistryInvHolds, PTL DEF Spec, CodesKept

\* What Descriptor and ParseErrorCode return in a consistent registry.
LEMMA Lookups ==
  ASSUME RegistryInv, NEW p \in Procs
  PROVE  /\ \A c \in CodesOf(p) :
              Descriptor(p, c) \in Descriptors /\ Descriptor(p, c).value \in DOMAIN byId[p]
         /\ \A v \in DOMAIN byId[p] : Descriptor(p, ParseErrorCode(p, v)) = byId[p][v]
         /\ \A v : v \notin DOMAIN byId[p] =>
              Descriptor(p, ParseErrorCode(p, v)) = byCode[p][FirstCode]
         /\ byCode[p][FirstCode] \in Descriptors
         /\ byCode[p][FirstCode].value = Unknown
BY DEF RegistryInv, TypeOK, MapsAgree, MapsOf, NextCodeFree, CodesOf, Descriptor, ParseErrorCode

\* The message of an error is never empty on the wire.
LEMMA WireMessage ==
  ASSUME RegistryInv, NEW p \in Procs, NEW err \in Errors(CodesOf(p))
  PROVE  LET wire == Marshal(p, err) IN
         /\ wire.id = ValueOf(p, err)
         /\ wire.message = MessageOf(p, err) /\ wire.message # ""
         /\ wire.detail = err.detail
<1>1. FirstCode \in CodesOf(p)
      BY DEF RegistryInv, NextCodeFree, CodesOf
<1>2. (IF err.type = "other" THEN FirstCode ELSE err.code) \in CodesOf(p)
  <2>1. CASE err.type = "other"
        BY <1>1, <2>1
  <2>2. CASE err.type # "other"
    <3>1. err.code \in CodesOf(p)
          BY <2>2 DEF Errors
    <3>. QED
      BY <2>2, <3>1
  <2>. QED
    BY <2>1, <2>2
<1>3. Descriptor(p, IF err.type = "other" THEN FirstCode ELSE err.code).message \in Messages
      BY <1>2, Lookups DEF Descriptors
<1>. QED
  BY <1>3, MessageAssumption DEF Marshal, ValueOf, MessageOf

\* An error means the same at both ends of the wire.
THEOREM WireFaithfulHolds == Spec => []WireFaithful
<1>1. RegistryInv => WireFaithful
  <2>. SUFFICES ASSUME RegistryInv, NEW p \in Procs, NEW q \in Procs,
                       NEW err \in Errors(CodesOf(p))
                PROVE  LET got == Unmarshal(q, Marshal(p, err)) IN
                       /\ ValueOf(q, got) = IF ValueOf(p, err) \in DOMAIN byId[q]
                                              THEN ValueOf(p, err) ELSE Unknown
                       /\ MessageOf(q, got) = MessageOf(p, err)
                       /\ got.detail = err.detail
       BY DEF WireFaithful
  <2>. DEFINE wire == Marshal(p, err)
              code == ParseErrorCode(q, wire.id)
              got  == Unmarshal(q, wire)
  <2>1. /\ wire.id = ValueOf(p, err)
        /\ wire.message = MessageOf(p, err) /\ wire.message # ""
        /\ wire.detail = err.detail
        BY WireMessage
  <2>2. Descriptor(q, code).value = IF wire.id \in DOMAIN byId[q] THEN wire.id ELSE Unknown
        BY Lookups DEF RegistryInv, MapsAgree, MapsOf
  <2>. HIDE DEF wire, code, got
  <2>3. CASE wire.detail = NoDetail /\ wire.message = Descriptor(q, code).message
    <3>1. got = ErrorCode(code)
          BY <2>1, <2>3 DEF Unmarshal, code, got
    <3>2. got.type # "other" /\ got.code = code /\ got.message = "" /\ got.detail = NoDetail
          BY <3>1 DEF ErrorCode
    <3>3. ValueOf(q, got) = Descriptor(q, code).value
          BY <3>2 DEF ValueOf
    <3>4. MessageOf(q, got) = Descriptor(q, code).message
          BY <3>2 DEF MessageOf
    <3>. QED
      BY <2>1, <2>2, <2>3, <3>2, <3>3, <3>4 DEF got, wire
  <2>4. CASE ~ (wire.detail = NoDetail /\ wire.message = Descriptor(q, code).message)
    <3>1. got = Error(code, wire.message, wire.detail)
          BY <2>1, <2>4 DEF Unmarshal, code, got
    <3>2. /\ got.type # "other" /\ got.code = code
          /\ got.message = wire.message /\ got.detail = wire.detail
          BY <3>1 DEF Error
    <3>3. ValueOf(q, got) = Descriptor(q, code).value
          BY <3>2 DEF ValueOf
    <3>4. MessageOf(q, got) = wire.message
          BY <2>1, <3>2 DEF MessageOf
    <3>. QED
      BY <2>1, <2>2, <3>2, <3>3, <3>4 DEF got, wire
  <2>. QED
    BY <2>3, <2>4 DEF got, wire
<1>. QED
  BY <1>1, RegistryInvHolds, PTL

\* An error that a program passes on looks as it came in.
THEOREM WireStableHolds == Spec => []WireStable
<1>1. RegistryInv => WireStable
  <2>. SUFFICES ASSUME RegistryInv, NEW p \in Procs, NEW q \in Procs,
                       NEW err \in Errors(CodesOf(p)),
                       Marshal(p, err).id \in DOMAIN byId[q]
                PROVE  Marshal(q, Unmarshal(q, Marshal(p, err))) = Marshal(p, err)
       BY DEF WireStable
  <2>. DEFINE wire == Marshal(p, err)
              code == ParseErrorCode(q, wire.id)
              d    == Descriptor(q, code)
              got  == Unmarshal(q, wire)
  <2>1. wire.message # ""
        BY WireMessage
  <2>2. wire = [id |-> wire.id, message |-> wire.message, detail |-> wire.detail]
        BY DEF Marshal
  <2>3. d.value = wire.id
        BY Lookups DEF RegistryInv, MapsAgree, MapsOf
  <2>. HIDE DEF wire, code, d, got
  <2>4. CASE wire.detail = NoDetail /\ wire.message = d.message
    <3>1. got = ErrorCode(code)
          BY <2>1, <2>4 DEF Unmarshal, code, d, got
    <3>2. Marshal(q, got) = [id |-> d.value, message |-> d.message, detail |-> NoDetail]
          BY <3>1 DEF Marshal, ErrorCode, d
    <3>. QED
      BY <2>2, <2>3, <2>4, <3>2 DEF got, wire
  <2>5. CASE ~ (wire.detail = NoDetail /\ wire.message = d.message)
    <3>1. got = Error(code, wire.message, wire.detail)
          BY <2>1, <2>5 DEF Unmarshal, code, d, got
    <3>2. Marshal(q, got) = [id |-> d.value, message |-> wire.message, detail |-> wire.detail]
          BY <2>1, <3>1 DEF Marshal, Error, d
    <3>. QED
      BY <2>2, <2>3, <3>2 DEF got, wire
  <2>. QED
    BY <2>4, <2>5
<1>. QED
  BY <1>1, RegistryInvHolds, PTL

\* ServeJSON answers with a status that http.ResponseWriter accepts.
THEOREM StatusServedHolds == Spec => []StatusServed
<1>1. RegistryInv => StatusServed
  <2>. SUFFICES ASSUME RegistryInv, NEW p \in Procs, NEW err \in Errors(CodesOf(p))
                PROVE  /\ ServeStatus(p, <<err>>) # 0
                       /\ err.type # "other" /\ Descriptor(p, err.code).status # 0
                            => ServeStatus(p, <<err>>) = byId[p][Marshal(p, err).id].status
       BY DEF StatusServed
  <2>1. <<err>> # <<>> /\ Head(<<err>>) = err
        OBVIOUS
  <2>2. ServeStatus(p, <<err>>) # 0
        BY <2>1 DEF ServeStatus
  <2>3. ASSUME err.type # "other", Descriptor(p, err.code).status # 0
        PROVE  ServeStatus(p, <<err>>) = byId[p][Marshal(p, err).id].status
    <3>. DEFINE d == Descriptor(p, err.code)
    <3>1. ServeStatus(p, <<err>>) = d.status
          BY <2>1, <2>3 DEF ServeStatus
    <3>2. Marshal(p, err).id = d.value
          BY <2>3 DEF Marshal
    <3>3. byId[p][d.value] = d
          BY DEF RegistryInv, MapsAgree, MapsOf, NextCodeFree, Descriptor
    <3>. QED
      BY <3>1, <3>2, <3>3
  <2>. QED
    BY <2>2, <2>3
<1>. QED
  BY <1>1, RegistryInvHolds, PTL

-----------------------------------------------------------------------------
(* The slices of the groups. *)

\* A list in strict order drawn from the elements of a list of the same length
\* that has no value twice holds all of them, each once.
LEMMA SortedIsPermutation ==
  ASSUME NEW s \in Seq(Descriptors),
         \A i, j \in 1..Len(s) : s[i].value = s[j].value => i = j,
         NEW t \in [1..Len(s) -> {s[i] : i \in 1..Len(s)}],
         \A i, j \in DOMAIN t : i < j => Less(t[i].value, t[j].value)
  PROVE  /\ t \in Seq(Descriptors) /\ Len(t) = Len(s)
         /\ \A i, j \in 1..Len(t) : t[i].value = t[j].value => i = j
         /\ \A i \in 1..Len(t) : \E j \in 1..Len(s) : t[i] = s[j]
         /\ \A j \in 1..Len(s) : \E i \in 1..Len(t) : t[i] = s[j]
<1>. DEFINE n == Len(s)
            S == {s[i] : i \in 1..n}
<1>1. n \in Nat /\ s \in [1..n -> Descriptors] /\ S \subseteq Descriptors
      OBVIOUS
<1>2. t \in [1..n -> Descriptors] /\ t \in Seq(Descriptors) /\ Len(t) = n
      BY <1>1
<1>3. ASSUME NEW i \in 1..n, NEW j \in 1..n, t[i].value = t[j].value
      PROVE  i = j
  <2>1. t[i].value \in Values
        BY <1>2 DEF Descriptors
  <2>2. ~ Less(t[i].value, t[j].value) /\ ~ Less(t[j].value, t[i].value)
        BY <1>3, <2>1, LessAssumption
  <2>3. ~ (i < j) /\ ~ (j < i)
        BY <1>2, <2>2
  <2>. QED
    BY <1>1, <2>3
<1>4. s \in Surjection(1..n, S) /\ s \in Injection(1..n, S)
      BY <1>1 DEF Surjection, Injection, IsInjective
<1>5. IsFiniteSet(1..n) /\ Cardinality(1..n) = n
      BY <1>1, FS_Interval
<1>6. IsFiniteSet(S) /\ Cardinality(S) = Cardinality(1..n)
      BY <1>4, <1>5, FS_Surjection
<1>7. t \in Injection(1..n, S)
      BY <1>3 DEF Injection, IsInjective
<1>8. t \in Surjection(1..n, S)
      BY <1>6, <1>7, FS_Injection
<1>9. \A j \in 1..n : \E i \in 1..n : t[i] = s[j]
      BY <1>8 DEF Surjection
<1>10. \A i \in 1..n : \E j \in 1..n : t[i] = s[j]
       OBVIOUS
<1>. HIDE DEF S
<1>. QED
  BY <1>2, <1>3, <1>9, <1>10

\* What touches neither the slices nor the map of a process keeps them.
LEMMA SlicesKept ==
  ASSUME NEW q \in Procs, SlicesOf(q), byGroup'[q] = byGroup[q], byId'[q] = byId[q]
  PROVE  SlicesOf(q)'
<1>1. \A g \in Groups : byGroup'[q][g] \in Seq(Descriptors)
      BY DEF SlicesOf
<1>2. ASSUME NEW g \in Groups, NEW i \in 1..Len(byGroup'[q][g])
      PROVE  LET d == byGroup'[q][g][i] IN
             /\ d.value \in DOMAIN byId'[q] /\ d = byId'[q][d.value]
             /\ \A h \in Groups : \A j \in 1..Len(byGroup'[q][h]) :
                  byGroup'[q][h][j].value = d.value => h = g /\ j = i
      BY DEF SlicesOf
<1>3. \A v \in DOMAIN byId'[q] :
        \E g \in Groups : \E i \in 1..Len(byGroup'[q][g]) : byGroup'[q][g][i].value = v
      BY DEF SlicesOf
<1>. QED
  BY <1>1, <1>2, <1>3 DEF SlicesOf

\* The first slice holds the first descriptor, and the others nothing.
LEMMA InitGroups == Init => GroupsInv
<1>. SUFFICES ASSUME Init PROVE GroupsInv
     OBVIOUS
<1>1. PICK entry \in Catalog :
        LET d == Coded(FirstCode, entry)
        IN /\ entry.value = Unknown
           /\ byId = [p \in Procs |-> [v \in {Unknown} |-> d]]
           /\ byGroup = [p \in Procs |-> [g \in Groups |-> IF g = entry.group THEN <<d>> ELSE <<>>]]
      BY DEF Init
<1>. DEFINE d == Coded(FirstCode, entry)
<1>2. d \in Descriptors /\ d.value = Unknown /\ entry.group \in Groups
      BY <1>1, CatalogAssumption DEF Coded, Descriptors, Codes, FirstCode
<1>. HIDE DEF d
<1>3. ASSUME NEW p \in Procs PROVE SlicesOf(p)
  <2>1. /\ DOMAIN byId[p] = {Unknown} /\ byId[p][Unknown] = d
        /\ \A g \in Groups : byGroup[p][g] = IF g = entry.group THEN <<d>> ELSE <<>>
        BY <1>1 DEF d
  <2>2. /\ \A g \in Groups : byGroup[p][g] \in Seq(Descriptors)
        /\ Len(byGroup[p][entry.group]) = 1 /\ byGroup[p][entry.group][1] = d
        /\ \A g \in Groups : g # entry.group => Len(byGroup[p][g]) = 0
    <3>1. <<d>> \in Seq(Descriptors) /\ Len(<<d>>) = 1 /\ <<d>>[1] = d
          BY <1>2
    <3>2. <<>> \in Seq(Descriptors) /\ Len(<<>>) = 0
          OBVIOUS
    <3>. QED
      BY <1>2, <2>1, <3>1, <3>2
  <2>3. ASSUME NEW g \in Groups, NEW i \in 1..Len(byGroup[p][g])
        PROVE  g = entry.group /\ i = 1 /\ byGroup[p][g][i] = d
    <3>1. CASE g = entry.group
      <4>1. Len(byGroup[p][g]) = 1 /\ byGroup[p][g][1] = d
            BY <2>2, <3>1
      <4>2. i = 1
            BY <4>1
      <4>. QED
        BY <3>1, <4>1, <4>2
    <3>2. CASE g # entry.group
      <4>1. Len(byGroup[p][g]) = 0
            BY <2>2, <3>2
      <4>. QED
        BY <4>1
    <3>. QED
      BY <3>1, <3>2
  <2>4. \E g \in Groups : \E i \in 1..Len(byGroup[p][g]) : byGroup[p][g][i].value = Unknown
    <3>1. 1 \in 1..Len(byGroup[p][entry.group]) /\ byGroup[p][entry.group][1].value = Unknown
          BY <1>2, <2>2
    <3>. QED
      BY <1>2, <3>1
  <2>. QED
    BY <1>2, <2>1, <2>2, <2>3, <2>4 DEF SlicesOf
<1>4. byGroup = [p \in Procs |-> [g \in Groups |-> byGroup[p][g]]]
      BY <1>1
<1>. QED
  BY <1>3, <1>4 DEF GroupsInv

\* Register appends its descriptor to one slice; its value was in none.
LEMMA RegisterGroups ==
  ASSUME RegistryInv, GroupsInv, NEW p \in Procs, NEW entry \in Catalog, Register(p, entry)
  PROVE  GroupsInv'
<1>. DEFINE d == Coded(nextCode[p], entry)
            g == entry.group
            s == byGroup[p][g]
            n == Len(s)
<1>1. /\ d \in Descriptors /\ d.value = entry.value /\ entry.value \notin DOMAIN byId[p]
      /\ DOMAIN byId'[p] = DOMAIN byId[p] \cup {entry.value}
      /\ byId'[p][entry.value] = d
      /\ \A v \in DOMAIN byId[p] : byId'[p][v] = byId[p][v]
      /\ \A q \in Procs \ {p} : byId'[q] = byId[q]
      BY RegisterEffect
<1>2. g \in Groups
      BY CatalogAssumption
<1>3. byGroup' = [byGroup EXCEPT ![p][g] = Append(s, d)]
      BY DEF Register
<1>4. /\ byGroup' = [q \in Procs |-> [h \in Groups |-> byGroup'[q][h]]]
      /\ byGroup'[p][g] = Append(s, d)
      /\ \A h \in Groups \ {g} : byGroup'[p][h] = byGroup[p][h]
      /\ \A q \in Procs \ {p} : byGroup'[q] = byGroup[q]
      BY <1>2, <1>3 DEF GroupsInv
<1>5. SlicesOf(p)
      BY DEF GroupsInv
<1>6. s \in Seq(Descriptors)
      BY <1>2, <1>5 DEF SlicesOf
<1>. HIDE DEF d
<1>7. /\ n \in Nat /\ Append(s, d) \in Seq(Descriptors) /\ Len(Append(s, d)) = n + 1
      /\ Append(s, d)[n + 1] = d
      /\ \A i \in 1..n : Append(s, d)[i] = s[i]
      BY <1>1, <1>6
<1>8. SlicesOf(p)'
  <2>. DEFINE New(h, i) == h = g /\ i = n + 1
  <2>1. \A h \in Groups : byGroup'[p][h] \in Seq(Descriptors)
        BY <1>4, <1>5, <1>7 DEF SlicesOf
  \* A place of a slice is the new one or was there before.
  <2>2. ASSUME NEW h \in Groups, NEW i \in 1..Len(byGroup'[p][h])
        PROVE  \/ New(h, i) /\ byGroup'[p][h][i] = d
               \/ /\ ~ New(h, i) /\ i \in 1..Len(byGroup[p][h])
                  /\ byGroup'[p][h][i] = byGroup[p][h][i]
                  /\ byGroup[p][h][i].value \in DOMAIN byId[p]
                  /\ byGroup[p][h][i] = byId[p][byGroup[p][h][i].value]
    <3>1. CASE h = g
      <4>1. i \in 1..(n + 1) /\ byGroup'[p][h][i] = Append(s, d)[i]
            BY <1>4, <1>7, <3>1
      <4>2. CASE i = n + 1
            BY <1>7, <3>1, <4>1, <4>2
      <4>3. CASE i # n + 1
        <5>1. i \in 1..n
          <6>1. n \in Nat /\ i \in 1..(n + 1)
                BY <1>7, <4>1
          <6>. HIDE DEF n
          <6>. QED
            BY <4>3, <6>1
        <5>. QED
          BY <1>5, <1>7, <3>1, <4>1, <4>3, <5>1 DEF SlicesOf
      <4>. QED
        BY <4>2, <4>3
    <3>2. CASE h # g
          BY <1>4, <1>5, <3>2 DEF SlicesOf
    <3>. QED
      BY <3>1, <3>2
  <2>3. ASSUME NEW h \in Groups, NEW i \in 1..Len(byGroup'[p][h])
        PROVE  /\ byGroup'[p][h][i].value \in DOMAIN byId'[p]
               /\ byGroup'[p][h][i] = byId'[p][byGroup'[p][h][i].value]
        BY <1>1, <2>2
  <2>4. ASSUME NEW h \in Groups, NEW i \in 1..Len(byGroup'[p][h]),
               NEW k \in Groups, NEW j \in 1..Len(byGroup'[p][k]),
               byGroup'[p][k][j].value = byGroup'[p][h][i].value
        PROVE  k = h /\ j = i
    <3>1. CASE New(h, i) /\ New(k, j)
          BY <3>1
    <3>2. CASE ~ New(h, i) /\ ~ New(k, j)
      <4>1. /\ i \in 1..Len(byGroup[p][h]) /\ byGroup'[p][h][i] = byGroup[p][h][i]
            /\ j \in 1..Len(byGroup[p][k]) /\ byGroup'[p][k][j] = byGroup[p][k][j]
            BY <2>2, <3>2
      <4>. QED
        BY <1>5, <2>4, <4>1 DEF SlicesOf
    <3>3. CASE New(h, i) /\ ~ New(k, j)
      <4>1. byGroup'[p][h][i] = d
            BY <2>2, <3>3
      <4>2. byGroup'[p][k][j].value \in DOMAIN byId[p]
            BY <2>2, <3>3
      <4>. QED
        BY <1>1, <2>4, <4>1, <4>2
    <3>4. CASE ~ New(h, i) /\ New(k, j)
      <4>1. byGroup'[p][k][j] = d
            BY <2>2, <3>4
      <4>2. byGroup'[p][h][i].value \in DOMAIN byId[p]
            BY <2>2, <3>4
      <4>. QED
        BY <1>1, <2>4, <4>1, <4>2
    <3>. QED
      BY <3>1, <3>2, <3>3, <3>4
  <2>5. ASSUME NEW v \in DOMAIN byId'[p]
        PROVE  \E h \in Groups : \E i \in 1..Len(byGroup'[p][h]) : byGroup'[p][h][i].value = v
    <3>1. CASE v = entry.value
      <4>1. n + 1 \in 1..Len(byGroup'[p][g]) /\ byGroup'[p][g][n + 1] = d
            BY <1>4, <1>7
      <4>. QED
        BY <1>1, <1>2, <3>1, <4>1
    <3>2. CASE v # entry.value
      <4>1. PICK h \in Groups : \E i \in 1..Len(byGroup[p][h]) : byGroup[p][h][i].value = v
            BY <1>1, <1>5, <3>2 DEF SlicesOf
      <4>2. PICK i \in 1..Len(byGroup[p][h]) : byGroup[p][h][i].value = v
            BY <4>1
      <4>3. i \in 1..Len(byGroup'[p][h]) /\ byGroup'[p][h][i] = byGroup[p][h][i]
        <5>1. CASE h = g
              BY <1>4, <1>7, <4>2, <5>1
        <5>2. CASE h # g
              BY <1>4, <4>2, <5>2
        <5>. QED
          BY <5>1, <5>2
      <4>. QED
        BY <4>2, <4>3
    <3>. QED
      BY <3>1, <3>2
  <2>. QED
    BY <2>1, <2>3, <2>4, <2>5 DEF SlicesOf
<1>9. ASSUME NEW q \in Procs \ {p} PROVE SlicesOf(q)'
      BY <1>1, <1>4, SlicesKept DEF GroupsInv
<1>. QED
  BY <1>4, <1>8, <1>9 DEF GroupsInv

\* Sorting a slice in place keeps what it holds.
LEMMA SortGroups ==
  ASSUME GroupsInv, NEW p \in Procs, NEW g \in Groups, GetErrorCodeGroup(p, g)
  PROVE  GroupsInv'
<1>. DEFINE s == byGroup[p][g]
<1>1. PICK t \in [1..Len(s) -> {s[i] : i \in 1..Len(s)}] :
        /\ \A i, j \in DOMAIN t : i < j => Less(t[i].value, t[j].value)
        /\ byGroup' = [byGroup EXCEPT ![p][g] = t]
      BY DEF GetErrorCodeGroup
<1>2. byId' = byId
      BY DEF GetErrorCodeGroup
<1>3. /\ byGroup' = [q \in Procs |-> [h \in Groups |-> byGroup'[q][h]]]
      /\ byGroup'[p][g] = t
      /\ \A h \in Groups \ {g} : byGroup'[p][h] = byGroup[p][h]
      /\ \A q \in Procs \ {p} : byGroup'[q] = byGroup[q]
      BY <1>1 DEF GroupsInv
<1>4. SlicesOf(p)
      BY DEF GroupsInv
<1>5. s \in Seq(Descriptors) /\ \A i, j \in 1..Len(s) : s[i].value = s[j].value => i = j
      BY <1>4 DEF SlicesOf
<1>6. /\ t \in Seq(Descriptors) /\ Len(t) = Len(s)
      /\ \A i, j \in 1..Len(t) : t[i].value = t[j].value => i = j
      /\ \A i \in 1..Len(t) : \E j \in 1..Len(s) : t[i] = s[j]
      /\ \A j \in 1..Len(s) : \E i \in 1..Len(t) : t[i] = s[j]
      BY <1>1, <1>5, SortedIsPermutation
\* What a slice holds after the step it held before, and the other way round.
<1>7. ASSUME NEW h \in Groups, NEW i \in 1..Len(byGroup'[p][h])
      PROVE  \E j \in 1..Len(byGroup[p][h]) : byGroup'[p][h][i] = byGroup[p][h][j]
  <2>1. CASE h = g
        BY <1>3, <1>6, <2>1
  <2>2. CASE h # g
        BY <1>3, <2>2
  <2>. QED
    BY <2>1, <2>2
<1>8. ASSUME NEW h \in Groups, NEW j \in 1..Len(byGroup[p][h])
      PROVE  \E i \in 1..Len(byGroup'[p][h]) : byGroup'[p][h][i] = byGroup[p][h][j]
  <2>1. CASE h = g
        BY <1>3, <1>6, <2>1
  <2>2. CASE h # g
        BY <1>3, <2>2
  <2>. QED
    BY <2>1, <2>2
<1>9. SlicesOf(p)'
  <2>1. \A h \in Groups : byGroup'[p][h] \in Seq(Descriptors)
        BY <1>3, <1>4, <1>6 DEF SlicesOf
  <2>2. ASSUME NEW h \in Groups, NEW i \in 1..Len(byGroup'[p][h])
        PROVE  /\ byGroup'[p][h][i].value \in DOMAIN byId'[p]
               /\ byGroup'[p][h][i] = byId'[p][byGroup'[p][h][i].value]
    <3>1. PICK j \in 1..Len(byGroup[p][h]) : byGroup'[p][h][i] = byGroup[p][h][j]
          BY <1>7
    <3>2. byGroup[p][h][j].value \in DOMAIN byId[p]
          BY <1>4 DEF SlicesOf
    <3>3. byGroup[p][h][j] = byId[p][byGroup[p][h][j].value]
          BY <1>4 DEF SlicesOf
    <3>. QED
      BY <1>2, <3>1, <3>2, <3>3
  <2>3. ASSUME NEW h \in Groups, NEW i \in 1..Len(byGroup'[p][h]),
               NEW k \in Groups, NEW j \in 1..Len(byGroup'[p][k]),
               byGroup'[p][k][j].value = byGroup'[p][h][i].value
        PROVE  k = h /\ j = i
    <3>1. k = h
      <4>1. PICK a \in 1..Len(byGroup[p][h]) : byGroup'[p][h][i] = byGroup[p][h][a]
            BY <1>7
      <4>2. PICK b \in 1..Len(byGroup[p][k]) : byGroup'[p][k][j] = byGroup[p][k][b]
            BY <1>7
      <4>. QED
        BY <1>4, <2>3, <4>1, <4>2 DEF SlicesOf
    <3>2. j = i
      <4>1. CASE h = g
            BY <1>3, <1>6, <2>3, <3>1, <4>1
      <4>2. CASE h # g
            BY <1>3, <1>4, <2>3, <3>1, <4>2 DEF SlicesOf
      <4>. QED
        BY <4>1, <4>2
    <3>. QED
      BY <3>1, <3>2
  <2>4. ASSUME NEW v \in DOMAIN byId'[p]
        PROVE  \E h \in Groups : \E i \in 1..Len(byGroup'[p][h]) : byGroup'[p][h][i].value = v
    <3>1. PICK h \in Groups : \E j \in 1..Len(byGroup[p][h]) : byGroup[p][h][j].value = v
          BY <1>2, <1>4 DEF SlicesOf
    <3>2. PICK j \in 1..Len(byGroup[p][h]) : byGroup[p][h][j].value = v
          BY <3>1
    <3>. QED
      BY <1>8, <3>2
  <2>. QED
    BY <2>1, <2>2, <2>3, <2>4 DEF SlicesOf
<1>10. ASSUME NEW q \in Procs \ {p} PROVE SlicesOf(q)'
       BY <1>2, <1>3, SlicesKept DEF GroupsInv
<1>. QED
  BY <1>3, <1>9, <1>10 DEF GroupsInv

\* Every descriptor is in the slice of one group, once, however often the slices
\* were sorted.
THEOREM GroupsPartitionHolds == Spec => []GroupsPartition
<1>1. RegistryInv /\ GroupsInv /\ [Next]_vars => GroupsInv'
  <2>. SUFFICES ASSUME RegistryInv, GroupsInv, [Next]_vars PROVE GroupsInv'
       OBVIOUS
  <2>1. ASSUME NEW p \in Procs, NEW entry \in Catalog, Register(p, entry)
        PROVE  GroupsInv'
        BY <2>1, RegisterGroups
  <2>2. ASSUME NEW p \in Procs, NEW entry \in Catalog, RegisterPanics(p, entry)
        PROVE  GroupsInv'
        BY <2>2, SlicesKept DEF RegisterPanics, GroupsInv
  <2>3. ASSUME NEW p \in Procs, NEW g \in Groups, GetErrorCodeGroup(p, g)
        PROVE  GroupsInv'
        BY <2>3, SortGroups
  <2>4. CASE UNCHANGED vars
        BY <2>4, SlicesKept DEF vars, GroupsInv
  <2>. QED
    BY <2>1, <2>2, <2>3, <2>4 DEF Next
<1>2. GroupsInv => GroupsPartition
  <2>. SUFFICES ASSUME GroupsInv, NEW p \in Procs, NEW v \in DOMAIN byId[p]
                PROVE  \E g \in Groups : \E i \in 1..Len(byGroup[p][g]) :
                         /\ byGroup[p][g][i] = byId[p][v]
                         /\ \A h \in Groups : \A j \in 1..Len(byGroup[p][h]) :
                              byGroup[p][h][j].value = v => h = g /\ j = i
       BY DEF GroupsPartition
  <2>1. SlicesOf(p)
        BY DEF GroupsInv
  <2>2. PICK g \in Groups : \E i \in 1..Len(byGroup[p][g]) : byGroup[p][g][i].value = v
        BY <2>1 DEF SlicesOf
  <2>3. PICK i \in 1..Len(byGroup[p][g]) : byGroup[p][g][i].value = v
        BY <2>2
  <2>4. byGroup[p][g][i] = byId[p][v]
        BY <2>1, <2>3 DEF SlicesOf
  <2>5. \A h \in Groups : \A j \in 1..Len(byGroup[p][h]) :
          byGroup[p][h][j].value = v => h = g /\ j = i
        BY <2>1, <2>3 DEF SlicesOf
  <2>. QED
    BY <2>4, <2>5
<1>. QED
  BY <1>1, <1>2, InitGroups, RegistryInvHolds, PTL DEF Spec
=============================================================================
