--------------------------- MODULE ConfigOverride ---------------------------
(***************************************************************************)
(* How the configuration file and the THATIQ_ variables of the environment *)
(* become one configuration (configuration/parser.go, Parse of             *)
(* configuration/configuration.go).                                        *)
(*                                                                         *)
(* A configuration is the tree that package reflect walks: structs with    *)
(* named fields, maps with keys in any case, and scalars.  A scalar is     *)
(* abstracted to who wrote it: FromFile, the name of a variable, or Zero.  *)
(* A variable named THATIQ_LOG_LEVEL has the name <<"LOG", "LEVEL">> here. *)
(***************************************************************************)
EXTENDS Sequences, SequencesExt, FiniteSets, Naturals, TLC

CONSTANTS
  Files,        \* the trees a configuration file may unmarshal into
  Lexical,      \* the names of the variables, each once, in byte order
  MaxVariables, \* how many of them the environment may set together
  Upper,        \* the upper case of each key of a map
  Lower         \* the lower case of each part of a name

Names == Range(Lexical)

\* The longest name, in parts: Overwrite1 to OverwriteFields below.
MaxParts == 5

\* '_' follows the capital letters, but the end of the shorter name comes first.
ASSUME LexicalAssumption ==
  /\ Lexical \in Seq(Seq(STRING))
  /\ \A i, j \in DOMAIN Lexical : Lexical[i] = Lexical[j] => i = j
  /\ \A i, j \in DOMAIN Lexical : IsStrictPrefix(Lexical[i], Lexical[j]) => i < j
  /\ \A name \in Names : Len(name) \in 1..MaxParts

\* Names are in capitals, as those of the fields they are compared with.
ASSUME CapitalsAssumption ==
  \A name \in Names : \A i \in DOMAIN name : Upper[Lower[name[i]]] = name[i]

Zero     == <<>>
FromFile == <<"the file">>

Leaf(writer) == [kind |-> "leaf", val |-> writer]
Struct(f)    == [kind |-> "struct", at |-> f]
\* Map with string keys: elem says whether its values are of type interface{}.
Map(elem, f) == [kind |-> "map", elem |-> elem, at |-> f]
Nil          == [kind |-> "nil"]    \* an interface without a value
YamlMap      == [kind |-> "yaml"]   \* a map[interface{}]interface{} of the file
Error        == [kind |-> "error"]

\* The fields of Configuration that are modelled, by their paths.
Scalars    == {<<"VERSION">>, <<"LOG", "LEVEL">>, <<"REDIS", "ADDR">>, <<"REDIS", "DB">>}
MapsOfFile == {<<"LOG", "FIELDS">>, <<"HTTP", "HEADERS">>}
Paths      == Scalars \cup MapsOfFile

\* What is at the end of a path.
At(tree, path) ==
  IF Len(path) = 1 THEN tree.at[path[1]] ELSE tree.at[path[1]].at[path[2]]

\* A tree of the type Configuration.
Typed(tree) ==
  /\ tree = Struct(tree.at)
  /\ DOMAIN tree.at = {path[1] : path \in Paths}
  /\ \A section \in {path[1] : path \in {p \in Paths : Len(p) = 2}} :
       /\ tree.at[section] = Struct(tree.at[section].at)
       /\ DOMAIN tree.at[section].at = {path[2] : path \in {p \in Paths : p[1] = section}}
  /\ \A path \in Scalars : At(tree, path) = Leaf(At(tree, path).val)
  /\ \A path \in MapsOfFile : At(tree, path) = Map(At(tree, path).elem, At(tree, path).at)

ASSUME FilesAssumption == \A tree \in Files : Typed(tree)

\* What yaml.Unmarshal finds in the value of a variable: something of the
\* field's type, an empty document, or something of another type.
Payloads == {"value", "empty", "bad"}

VARIABLES
  file,   \* what the file holds
  env,    \* what the environment holds: names with payloads, in no order
  queue,  \* p.env, the variables to apply, in order
  conf,   \* parseAs, the tree that is overwritten
  pc      \* where Parse is

vars == <<file, env, queue, conf, pc>>

Init ==
  /\ file \in Files
  /\ \E set \in {s \in SUBSET Names : Cardinality(s) <= MaxVariables} :
       env \in [set -> Payloads]
  /\ queue = <<>>
  /\ conf = Nil
  /\ pc = "new"

-----------------------------------------------------------------------------
(* overwriteFields and the functions it calls.  Each yields the set of its   *)
(* possible results, because Go iterates over the keys of a map in any order. *)

\* A tree of the same type with the same writer everywhere.
FillField(tree, writer) ==
  IF tree.kind = "map" THEN Map(tree.elem, <<>>) ELSE Leaf(writer)

Fill(tree, writer) ==
  IF tree.kind = "struct"
    THEN Struct([f \in DOMAIN tree.at |-> FillField(tree.at[f], writer)])
    ELSE FillField(tree, writer)

\* An empty document leaves the zero value.
Written(name) == IF env[name] = "empty" THEN Zero ELSE name

\* yaml.Unmarshal of the value of variable name into a new value of tree's type.
Unmarshal(tree, name) ==
  IF env[name] = "bad"
    THEN Error
    ELSE IF env[name] = "empty" /\ tree.kind = "nil" THEN Nil ELSE Fill(tree, Written(name))

\* The new value of an entry of a map, before it is overwritten.
NewElem(map) == IF map.elem = "interface" THEN Nil ELSE Leaf(Zero)

Put(f, key, value) ==
  [k \in DOMAIN f \cup {key} |-> IF k = key THEN value ELSE f[k]]

(* Mutants: an entry under the name as the environment spells it, and one  *)
(* that replaces the whole map.                                            *)
SetEntryAsSpelled(map, part, tree) ==
  IF tree = Error THEN Error ELSE Map(map.elem, Put(map.at, part, tree))

SetEntryAlone(map, part, tree) ==
  IF tree = Error THEN Error ELSE Map(map.elem, Lower[part] :> tree)

(* End of the mutants. *)

SetField(struct, field, tree) ==
  IF tree = Error THEN Error ELSE Struct([struct.at EXCEPT ![field] = tree])

\* What an entry holds is overwritten in place, under the key it has.
SetKey(map, key, tree) ==
  IF tree = Error THEN Error ELSE Map(map.elem, [map.at EXCEPT ![key] = tree])

SetEntry(map, part, tree) ==
  IF tree = Error THEN Error ELSE Map(map.elem, Put(map.at, Lower[part], tree))

\* A field nobody declared is ignored with a warning.  Deeper is overwriteFields
\* for the rest of the path, here and below.
OverwriteStruct(Deeper(_, _, _), struct, path, name) ==
  IF path[1] \notin DOMAIN struct.at
    THEN {struct}
    ELSE LET field == struct.at[path[1]] IN
         {SetField(struct, path[1], tree) :
            tree \in IF Len(path) = 1 THEN {Unmarshal(field, name)}
                                      ELSE Deeper(field, Tail(path), name)}

\* (Re)create this key, of what the rest of the path makes of a new value.
CreateEntry(map, path, name, rest) ==
  {SetEntry(map, path[1], tree) :
     tree \in IF Len(path) = 1 THEN {Unmarshal(NewElem(map), name)} ELSE rest}

\* Only a longer path looks for an existing key, and one without a value is
\* created again.
OverwriteMap(Deeper(_, _, _), map, path, name) ==
  LET matching == {k \in DOMAIN map.at : Len(path) > 1 /\ Upper[k] = path[1]}
      created  == CreateEntry(map, path, name, Deeper(NewElem(map), Tail(path), name))
  IN IF matching = {}
       THEN created
       ELSE UNION {IF map.at[k] = Nil
                     THEN created
                     ELSE {SetKey(map, k, tree) : tree \in Deeper(map.at[k], Tail(path), name)} :
                   k \in matching}

\* An interface without a value becomes a map.  Scalars, and maps whose keys are
\* not strings, are left alone.
OverwriteBy(Deeper(_, _, _), tree, path, name) ==
  LET map == IF tree = Nil THEN Map("interface", <<>>) ELSE tree IN
  IF tree.kind = "struct"
    THEN OverwriteStruct(Deeper, tree, path, name)
    ELSE IF tree.kind \in {"map", "nil"} THEN OverwriteMap(Deeper, map, path, name)
                                         ELSE {tree}

\* overwriteFields calls itself once for each part of a name.
Overwrite0(tree, path, name)      == {}  \* not called: path is empty
Overwrite1(tree, path, name)      == OverwriteBy(Overwrite0, tree, path, name)
Overwrite2(tree, path, name)      == OverwriteBy(Overwrite1, tree, path, name)
Overwrite3(tree, path, name)      == OverwriteBy(Overwrite2, tree, path, name)
Overwrite4(tree, path, name)      == OverwriteBy(Overwrite3, tree, path, name)
OverwriteFields(tree, path, name) == OverwriteBy(Overwrite4, tree, path, name)

-----------------------------------------------------------------------------
(* A mutant: variables in the order of os.Environ.                         *)
NewParserUnsorted ==
  /\ pc = "new"
  /\ queue' \in SetToSeqs(DOMAIN env)
  /\ pc' = "version"
  /\ UNCHANGED <<file, env, conf>>

-----------------------------------------------------------------------------
(* The steps of Parse. *)

Less(m, n) == \E i, j \in DOMAIN Lexical : i < j /\ Lexical[i] = m /\ Lexical[j] = n

Sorted(names) == \A i, j \in DOMAIN names : i < j => Less(names[i], names[j])

\* os.Environ lists the variables in any order; NewParser sorts them by name.
NewParser ==
  /\ pc = "new"
  /\ queue' \in {s \in SetToSeqs(DOMAIN env) : Sorted(s)}
  /\ pc' = "version"
  /\ UNCHANGED <<file, env, conf>>

\* Only version 0.1 is in the mapping; any other is an error.
CheckVersion ==
  /\ pc = "version"
  /\ IF file.at["VERSION"] = Leaf(FromFile)
       THEN pc' = "overwrite" /\ conf' = file
       ELSE pc' = "error" /\ UNCHANGED conf
  /\ UNCHANGED <<file, env, queue>>

\* One iteration of the loop over p.env.
Overwrite ==
  /\ pc = "overwrite"
  /\ queue # <<>>
  /\ queue' = Tail(queue)
  /\ \E tree \in OverwriteFields(conf, Head(queue), Head(queue)) :
       IF tree = Error
         THEN pc' = "error" /\ UNCHANGED conf
         ELSE conf' = tree /\ UNCHANGED pc
  /\ UNCHANGED <<file, env>>

\* ConversionFunc: a level that nobody wrote becomes "info".
Convert ==
  /\ pc = "overwrite"
  /\ queue = <<>>
  /\ conf' = IF At(conf, <<"LOG", "LEVEL">>) = Leaf(Zero)
               THEN SetField(conf, "LOG", SetField(conf.at["LOG"], "LEVEL", Leaf(<<"info">>)))
               ELSE conf
  /\ pc' = "done"
  /\ UNCHANGED <<file, env, queue>>

Next == NewParser \/ CheckVersion \/ Overwrite \/ Convert

Spec == Init /\ [][Next]_vars

-----------------------------------------------------------------------------
(* Properties. *)

TypeOK ==
  /\ file \in Files
  /\ DOMAIN env \subseteq Names
  /\ env \in [DOMAIN env -> Payloads]
  /\ queue \in Seq(DOMAIN env)
  /\ pc \in {"new", "version", "overwrite", "done", "error"}
  /\ pc \in {"overwrite", "done"} => Typed(conf)

Done == pc = "done"

\* The variables applied so far.
Applied == DOMAIN env \ Range(queue)

\* Those of some variables that name the path or something around it.
Covering(names, path) == {name \in names : IsPrefix(name, path)}

MostSpecific(names) == CHOOSE n \in names : \A m \in names : IsPrefix(m, n)

\* What a scalar has after some variables: the value of the most specific one
\* that covers it, and that of the file when there is none.
Expected(names, path) ==
  LET writers == Covering(names, path)
  IN IF writers = {} THEN At(file, path).val ELSE Written(MostSpecific(writers))

\* What a scalar has in the end, a level that nobody wrote being "info".
Merged(path) ==
  LET expected == Expected(DOMAIN env, path)
  IN At(conf, path).val =
       IF path = <<"LOG", "LEVEL">> /\ expected = Zero THEN <<"info">> ELSE expected

\* The parameters that may be overridden, "other than version" (parser.go:110-111).
Parameters == Scalars \ {<<"VERSION">>}

\* Every parameter has the value of the most specific variable that covers it, and
\* the value of the file when there is none, whatever the order of os.Environ; a
\* variable whose value has the wrong type leaves no configuration at all.  The
\* more specific of two variables has to be applied after the other for this, as
\* sort.Sort does; the comment at parser.go:96-97 says before.
MostSpecificWins == Done => \A path \in Parameters : Merged(path)

\* What none of some variables names in a map is as in the file, unless one covers
\* the map.
EntriesKept(names) ==
  \A path \in MapsOfFile : Covering(names, path) = {} =>
    LET before == At(file, path).at
        after  == At(conf, path).at
        Named(k) == \E name \in names : IsPrefix(path \o <<Upper[k]>>, name)
    IN /\ DOMAIN before \subseteq DOMAIN after
       /\ \A k \in DOMAIN after : ~ Named(k) => k \in DOMAIN before /\ after[k] = before[k]

\* A variable for one entry of a map disturbs no other entry: what no variable
\* names keeps the value of the file, and nothing else appears.
OtherEntriesKept == Done => EntriesKept(DOMAIN env)

\* Other entries of the file that a name for an entry of the map at path means.
Twins(path, name) ==
  {k \in DOMAIN At(file, path).at : Upper[k] = name[Len(name)]} \ {Lower[name[Len(name)]]}

\* The variables among some that give an entry of the map at path its value,
\* where the file has no twin without a value.
EntriesOf(names, path) ==
  {name \in names :
     /\ env[name] = "value"
     /\ Len(name) = Len(path) + 1
     /\ IsPrefix(path, name)
     /\ \A k \in Twins(path, name) : At(file, path).at[k] # Nil}

EntriesWritten(names) ==
  \A path \in MapsOfFile : \A name \in EntriesOf(names, path) :
    LET key == Lower[name[Len(name)]]
    IN key \in DOMAIN At(conf, path).at /\ At(conf, path).at[key] = Leaf(name)

\* A variable for one entry gives the entry of that name, in lower case, its
\* value, and a more specific variable cannot take it back, unless the file has
\* an entry without a value that differs from it in case only.
EntryWritten == Done => EntriesWritten(DOMAIN env)

\* "v.Abc.Xyz may be replaced by the value of PREFIX_ABC_XYZ" (parser.go): no
\* entry the variable names still has the value of the file.
EntryReplaced ==
  Done => \A path \in MapsOfFile : \A name \in DOMAIN env :
    env[name] = "value" /\ Len(name) = Len(path) + 1 /\ IsPrefix(path, name)
      => \A k \in DOMAIN At(conf, path).at :
           Upper[k] = name[Len(name)] => At(conf, path).at[k] = Leaf(name)

-----------------------------------------------------------------------------
(* The inductive invariant. *)

\* What was applied comes before what was not, which is sorted.
QueueSorted ==
  /\ Sorted(queue)
  /\ \A m \in Applied, n \in Range(queue) : Less(m, n)

\* An entry has the key of a name, or is one of the file, with a value if it had
\* one there.
KeysKnown ==
  \A path \in MapsOfFile :
    LET before == At(file, path).at
        after  == At(conf, path).at
    IN \A k \in DOMAIN after :
         \/ k = Lower[Upper[k]]
         \/ k \in DOMAIN before /\ (before[k] # Nil => after[k] # Nil)

\* The code merges every scalar: it does not except the version, as the comment
\* at parser.go:110-111 would have it, so THATIQ_VERSION replaces that of the file.
AllMerged == Done => \A path \in Scalars : Merged(path)

ConfigInv ==
  /\ TypeOK
  /\ pc = "version" => Applied = {}
  /\ pc \in {"version", "overwrite"} => QueueSorted
  /\ pc = "overwrite" =>
       /\ \A path \in Scalars : At(conf, path).val = Expected(Applied, path)
       /\ EntriesKept(Applied)
       /\ KeysKnown
       /\ EntriesWritten(Applied)
  /\ AllMerged /\ OtherEntriesKept /\ EntryWritten
=============================================================================
