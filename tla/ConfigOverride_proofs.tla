------------------------ MODULE ConfigOverride_proofs ------------------------
(***************************************************************************)
(* Proofs about ConfigOverride, for every set of variables and files.      *)
(***************************************************************************)
EXTENDS ConfigOverride, FiniteSetTheorems, SequenceTheorems, TLAPS

-----------------------------------------------------------------------------
(* Trees. *)

\* For the lengths of paths.
LEMMA Longer == \A n \in Nat : (n > 1 => n # 1) /\ (n # 0 /\ n # 1 => n > 1)
OBVIOUS

\* What a struct, a map, a scalar and an absent value are told apart by.
LEMMA StructFacts ==
  \A f : Struct(f).kind = "struct" /\ Struct(f).at = f /\ Struct(f) # Error /\ Struct(f) # Nil
BY DEF Struct, Error, Nil

\* The same of a map.
LEMMA MapFacts ==
  \A e, f : /\ Map(e, f).kind = "map" /\ Map(e, f).elem = e /\ Map(e, f).at = f
            /\ Map(e, f) # Error /\ Map(e, f) # Nil
BY DEF Map, Error, Nil

\* The same of a scalar.
LEMMA LeafFacts ==
  \A w : Leaf(w).kind = "leaf" /\ Leaf(w).val = w /\ Leaf(w) # Error /\ Leaf(w) # Nil
BY DEF Leaf, Error, Nil

\* An interface without a value is no error.
LEMMA NilFacts == Nil.kind = "nil" /\ Error.kind = "error" /\ Nil # Error
BY DEF Nil, Error

\* A variable whose name goes on below a scalar changes nothing.
LEMMA LeafStays ==
  ASSUME NEW w, NEW path, NEW name
  PROVE  /\ Overwrite2(Leaf(w), path, name) = {Leaf(w)}
         /\ Overwrite3(Leaf(w), path, name) = {Leaf(w)}
         /\ Overwrite4(Leaf(w), path, name) = {Leaf(w)}
BY LeafFacts DEF Overwrite2, Overwrite3, Overwrite4, OverwriteBy

\* What is overwritten has a value.
LEMMA OverwrittenNotNil ==
  ASSUME NEW tree, NEW path, NEW name, NEW result \in Overwrite2(tree, path, name)
  PROVE  result # Nil
<1>1. CASE tree.kind = "struct"
  BY <1>1, StructFacts, NilFacts DEF Overwrite2, OverwriteBy, OverwriteStruct, SetField
<1>2. CASE tree.kind \in {"map", "nil"}
  <2> DEFINE map == IF tree = Nil THEN Map("interface", <<>>) ELSE tree
             rest == Overwrite1(NewElem(map), Tail(path), name)
  <2> HIDE DEF map
  <2> DEFINE matching == {k \in DOMAIN map.at : Len(path) > 1 /\ Upper[k] = path[1]}
  <2>1. /\ matching = {} => result \in CreateEntry(map, path, name, rest)
        /\ matching # {} => \E k \in matching :
             IF map.at[k] = Nil
               THEN result \in CreateEntry(map, path, name, rest)
               ELSE result \in {SetKey(map, k, t) : t \in Overwrite1(map.at[k], Tail(path), name)}
    BY <1>2 DEF Overwrite2, OverwriteBy, OverwriteMap, map
  <2>2. \A r \in CreateEntry(map, path, name, rest) : r # Nil
    BY MapFacts, NilFacts DEF CreateEntry, SetEntry
  <2>3. \A k, t : SetKey(map, k, t) # Nil
    BY MapFacts, NilFacts DEF SetKey
  <2> HIDE DEF matching, rest
  <2>q. QED BY <2>1, <2>2, <2>3
<1>3. CASE tree.kind \notin {"struct", "map", "nil"}
  BY <1>3, NilFacts DEF Overwrite2, OverwriteBy
<1>q. QED BY <1>1, <1>2, <1>3

\* overwriteMap for the entry that path[1] names, in a map of the configuration:
\* what becomes of the entries of a map, from f to g.
EntryChanged(f, g, path, name) ==
  LET key == Lower[path[1]] IN
  /\ DOMAIN f \subseteq DOMAIN g
  /\ DOMAIN g \subseteq DOMAIN f \cup {key}
  /\ \A k \in DOMAIN f : Upper[k] # path[1] => g[k] = f[k]
  /\ \A k \in DOMAIN f : k # key /\ f[k] # Nil => g[k] # Nil
  /\ Len(path) = 1 /\ env[name] = "value" => key \in DOMAIN g /\ g[key] = Leaf(name)
  /\ \A w : /\ Len(path) > 1
            /\ key \in DOMAIN f /\ f[key] = Leaf(w)
            /\ \A k \in DOMAIN f : Upper[k] = path[1] => f[k] # Nil
            => g[key] = Leaf(w)

\* An entry that is created is set under the name in lower case.
LEMMA CreateEffect ==
  ASSUME NEW map, map = Map(map.elem, map.at),
         NEW path, Len(path) \in Nat \ {0}, NEW name, NEW rest,
         Upper[Lower[path[1]]] = path[1],
         Len(path) > 1 => \/ \A k \in DOMAIN map.at : Upper[k] # path[1]
                          \/ \E k \in DOMAIN map.at : Upper[k] = path[1] /\ map.at[k] = Nil,
         NEW result \in CreateEntry(map, path, name, rest), result # Error
  PROVE  \E g : result = Map(map.elem, g) /\ EntryChanged(map.at, g, path, name)
<1>1. PICK tree \in IF Len(path) = 1 THEN {Unmarshal(NewElem(map), name)} ELSE rest :
        result = SetEntry(map, path[1], tree)
  BY DEF CreateEntry
<1>2. Len(path) = 1 /\ env[name] = "value" => tree = Leaf(name)
  <2>1. NewElem(map).kind \in {"nil", "leaf"}
    BY NilFacts, LeafFacts DEF NewElem
  <2>q. QED BY <1>1, <2>1 DEF Unmarshal, Fill, FillField, Written
<1> DEFINE key == Lower[path[1]]
           g   == Put(map.at, key, tree)
<1>3. result = Map(map.elem, g)
  BY <1>1, MapFacts DEF SetEntry
<1>4. /\ DOMAIN g = DOMAIN map.at \cup {key}
      /\ g[key] = tree
      /\ \A k \in DOMAIN map.at \ {key} : g[k] = map.at[k]
  BY DEF Put
<1> HIDE DEF g
<1>5. EntryChanged(map.at, g, path, name)
  BY <1>2, <1>4, LeafFacts DEF EntryChanged
<1>q. QED BY <1>3, <1>5

\* An entry that is overwritten in place.
LEMMA UpdateEffect ==
  ASSUME NEW map, map = Map(map.elem, map.at),
         NEW path, Len(path) \in Nat \ {0}, Len(path) > 1, NEW name,
         NEW k \in DOMAIN map.at, Upper[k] = path[1], map.at[k] # Nil,
         NEW tree \in Overwrite2(map.at[k], Tail(path), name),
         tree # Error
  PROVE  \E g : SetKey(map, k, tree) = Map(map.elem, g) /\ EntryChanged(map.at, g, path, name)
<1> DEFINE g == [map.at EXCEPT ![k] = tree]
<1>1. SetKey(map, k, tree) = Map(map.elem, g)
  BY MapFacts DEF SetKey
<1>2. tree # Nil
  BY OverwrittenNotNil
<1>3. \A w : map.at[k] = Leaf(w) => tree = Leaf(w)
  BY LeafStays
<1>4. /\ DOMAIN g = DOMAIN map.at
      /\ g[k] = tree
      /\ \A j \in DOMAIN map.at \ {k} : g[j] = map.at[j]
  OBVIOUS
<1> HIDE DEF g
<1>5. EntryChanged(map.at, g, path, name)
  <2> DEFINE key == Lower[path[1]]
  <2>1. \A j \in DOMAIN map.at : Upper[j] # path[1] => g[j] = map.at[j]
    BY <1>4
  <2>2. \A j \in DOMAIN map.at : j # key /\ map.at[j] # Nil => g[j] # Nil
    BY <1>2, <1>4
  <2>3. \A w : key \in DOMAIN map.at /\ map.at[key] = Leaf(w) => g[key] = Leaf(w)
    BY <1>3, <1>4
  <2>4. DOMAIN g = DOMAIN map.at
    BY <1>4
  <2>q. QED BY <2>1, <2>2, <2>3, <2>4, Longer DEF EntryChanged
<1>q. QED BY <1>1, <1>5

\* overwriteMap in a map of the configuration.
LEMMA MapEffect ==
  ASSUME NEW map, map = Map(map.elem, map.at), NEW path, Len(path) \in Nat \ {0}, NEW name,
         Upper[Lower[path[1]]] = path[1],
         NEW result \in Overwrite3(map, path, name), result # Error
  PROVE  \E g : result = Map(map.elem, g) /\ EntryChanged(map.at, g, path, name)
<1> DEFINE rest == Overwrite2(NewElem(map), Tail(path), name)
<1>1. \/ /\ result \in CreateEntry(map, path, name, rest)
         /\ Len(path) > 1 => \/ \A k \in DOMAIN map.at : Upper[k] # path[1]
                             \/ \E k \in DOMAIN map.at : Upper[k] = path[1] /\ map.at[k] = Nil
      \/ \E k \in DOMAIN map.at :
           /\ Len(path) > 1 /\ Upper[k] = path[1] /\ map.at[k] # Nil
           /\ result \in {SetKey(map, k, t) : t \in Overwrite2(map.at[k], Tail(path), name)}
  <2>1. map.kind = "map" /\ map # Nil
    BY MapFacts
  <2>q. QED BY <2>1 DEF Overwrite3, OverwriteBy, OverwriteMap
<1>2. CASE /\ result \in CreateEntry(map, path, name, rest)
           /\ Len(path) > 1 => \/ \A k \in DOMAIN map.at : Upper[k] # path[1]
                               \/ \E k \in DOMAIN map.at : Upper[k] = path[1] /\ map.at[k] = Nil
  <2> HIDE DEF rest
  <2>q. QED BY <1>2, CreateEffect
<1>3. ASSUME NEW k \in DOMAIN map.at, Len(path) > 1, Upper[k] = path[1], map.at[k] # Nil,
             NEW tree \in Overwrite2(map.at[k], Tail(path), name),
             result = SetKey(map, k, tree)
      PROVE  \E g : result = Map(map.elem, g) /\ EntryChanged(map.at, g, path, name)
  <2>1. tree # Error
    BY <1>3 DEF SetKey
  <2>2. \E g : SetKey(map, k, tree) = Map(map.elem, g) /\ EntryChanged(map.at, g, path, name)
    BY <1>3, <2>1, UpdateEffect
  <2>q. QED BY <1>3, <2>2
<1>q. QED BY <1>1, <1>2, <1>3

-----------------------------------------------------------------------------
(* Paths and prefixes. *)

IsName(name) ==
  /\ name \in Seq(STRING)
  /\ Len(name) \in 1..MaxParts
  /\ \A i \in DOMAIN name : Upper[Lower[name[i]]] = name[i]

\* A path is a field of the root or of a section, and a section is no field itself.
LEMMA PathShape ==
  /\ \A path \in Paths : Len(path) \in {1, 2}
  /\ \A path \in MapsOfFile : Len(path) = 2
  /\ \A p, q \in Paths : Len(p) = 1 /\ Len(q) = 2 => p[1] # q[1]
  /\ Scalars \cap MapsOfFile = {}
<1> USE DEF Paths, Scalars, MapsOfFile
<1>1. \A path \in Paths : Len(path) \in {1, 2}
  OBVIOUS
<1>2. \A path \in MapsOfFile : Len(path) = 2
  OBVIOUS
<1>3. \A p, q \in Paths : Len(p) = 1 /\ Len(q) = 2 => p[1] # q[1]
  OBVIOUS
<1>4. \A path \in MapsOfFile : path[2] \in {"FIELDS", "HEADERS"}
  OBVIOUS
<1>5. \A path \in Scalars : Len(path) = 2 => path[2] \notin {"FIELDS", "HEADERS"}
  OBVIOUS
<1>q. QED BY <1>1, <1>2, <1>3, <1>4, <1>5

\* The name of a variable that covers a path, and of one for what is inside.
Covers(name, path) ==
  /\ Len(name) \in 1..Len(path)
  /\ name[1] = path[1]
  /\ Len(name) = 2 => name[2] = path[2]

Within(name, path) ==
  /\ Len(path) = 2 /\ Len(name) > 2
  /\ name[1] = path[1] /\ name[2] = path[2]

\* The variables of the environment are names as the lemmas below take them.
LEMMA NamesAreNames == \A name \in Names : IsName(name)
<1> SUFFICES ASSUME NEW name \in Names PROVE IsName(name)
  OBVIOUS
<1>1. name \in Seq(STRING)
  BY LexicalAssumption DEF Names, Range
<1>q. QED BY <1>1, LexicalAssumption, CapitalsAssumption DEF IsName

\* A prefix, part by part.
LEMMA PrefixParts ==
  ASSUME NEW s, Len(s) \in Nat, NEW t, Len(t) \in Nat
  PROVE  IsPrefix(s, t) <=> Len(s) <= Len(t) /\ \A i \in 1..Len(s) : s[i] = t[i]
BY DEF IsPrefix

\* Two names that are prefixes of each other are one.
LEMMA PrefixAntisymmetric ==
  ASSUME NEW s \in Seq(STRING), NEW t \in Seq(STRING), IsPrefix(s, t), IsPrefix(t, s)
  PROVE  s = t
BY PrefixParts

\* Of two prefixes of one path, one is a prefix of the other.
LEMMA PrefixesCompare ==
  ASSUME NEW s \in Seq(STRING), NEW t \in Seq(STRING), NEW p, Len(p) \in Nat,
         IsPrefix(s, p), IsPrefix(t, p), ~ IsPrefix(s, t)
  PROVE  IsPrefix(t, s)
BY PrefixParts

\* A variable covers a path when its name is a prefix of it.
LEMMA CoversPrefix ==
  ASSUME NEW name, IsName(name), NEW path \in Paths
  PROVE  IsPrefix(name, path) <=> Covers(name, path)
<1>1. Len(path) \in {1, 2} /\ name \in Seq(STRING) /\ Len(name) \in Nat \ {0}
  BY PathShape DEF IsName
<1>2. IsPrefix(name, path) <=> Len(name) <= Len(path) /\ \A i \in 1..Len(name) : name[i] = path[i]
  BY <1>1, PrefixParts
<1>3. PICK n \in Nat \ {0}, m \in {1, 2} : n = Len(name) /\ m = Len(path)
  BY <1>1
<1>4. n <= m /\ (\A i \in 1..n : name[i] = path[i])
        <=> n \in 1..m /\ name[1] = path[1] /\ (n = 2 => name[2] = path[2])
  OBVIOUS
<1>q. QED BY <1>2, <1>3, <1>4 DEF Covers

-----------------------------------------------------------------------------
(* What one variable does to a configuration. *)

IsField(x) == x = Leaf(x.val) \/ x = Map(x.elem, x.at)

\* A field at a path, before and after a variable.
Changed(x, y, path, name) ==
  /\ Covers(name, path) => y = FillField(x, Written(name))
  /\ ~ Covers(name, path) /\ ~ Within(name, path) => y = x
  /\ Within(name, path) =>
       \/ x = Leaf(x.val) /\ y = x
       \/ /\ x = Map(x.elem, x.at)
          /\ \E g : y = Map(x.elem, g) /\ EntryChanged(x.at, g, Tail(Tail(name)), name)

\* path[1:] of a name with more than one part.
LEMMA TailFacts ==
  ASSUME NEW name, IsName(name), Len(name) > 1
  PROVE  /\ Tail(name) \in Seq(STRING)
         /\ Tail(name)[1] = name[2]
         /\ Len(Tail(name)) \in Nat \ {0}
         /\ Len(Tail(name)) = 1 <=> Len(name) = 2
         /\ Len(name) > 2 => /\ Len(Tail(Tail(name))) = Len(name) - 2
                             /\ Len(Tail(Tail(name))) \in Nat \ {0}
                             /\ Tail(Tail(name))[1] = name[3]
BY DEF IsName, MaxParts

\* overwriteStruct at the end of a name: the field gets the value.
LEMMA FieldUnmarshalled ==
  ASSUME NEW x, IsField(x), NEW name, env[name] \in Payloads, Unmarshal(x, name) # Error
  PROVE  Unmarshal(x, name) = FillField(x, Written(name))
BY LeafFacts, MapFacts DEF IsField, Unmarshal, Fill

\* overwriteFields for a name that goes on below a field: a scalar stays, and a map
\* is changed as overwriteMap does.
LEMMA FieldOverwritten ==
  ASSUME NEW x, IsField(x), NEW name, IsName(name), Len(name) > 2,
         NEW y \in Overwrite3(x, Tail(Tail(name)), name), y # Error
  PROVE  \/ x = Leaf(x.val) /\ y = x
         \/ /\ x = Map(x.elem, x.at)
            /\ \E g : y = Map(x.elem, g) /\ EntryChanged(x.at, g, Tail(Tail(name)), name)
<1> DEFINE rest == Tail(Tail(name))
<1>1. Len(rest) \in Nat \ {0} /\ Upper[Lower[rest[1]]] = rest[1]
  BY TailFacts DEF IsName
<1>2. CASE x = Leaf(x.val)
  BY <1>2, LeafStays
<1>3. CASE x = Map(x.elem, x.at)
  BY <1>1, <1>3, MapEffect
<1>q. QED BY <1>2, <1>3 DEF IsField

\* One section of a configuration.
IsSection(sec) ==
  sec = Struct(sec.at) /\ \A f \in DOMAIN sec.at : IsField(sec.at[f])

\* A variable for a whole section changes each of its fields.
LEMMA SectionUnmarshalled ==
  ASSUME NEW sec, IsSection(sec), NEW name, env[name] \in Payloads,
         NEW t, t = Unmarshal(sec, name), t # Error
  PROVE  /\ t = Struct(t.at) /\ DOMAIN t.at = DOMAIN sec.at
         /\ \A f \in DOMAIN sec.at : t.at[f] = FillField(sec.at[f], Written(name))
<1> DEFINE g == [f \in DOMAIN sec.at |-> FillField(sec.at[f], Written(name))]
<1>1. sec.kind = "struct"
  BY StructFacts DEF IsSection
<1>2. t = Struct(g)
  BY <1>1 DEF Unmarshal, Fill
<1>q. QED BY <1>2, StructFacts

\* One for a field of a section, or for something below it, changes no other field.
LEMMA SectionOverwritten ==
  ASSUME NEW sec, IsSection(sec), NEW name, IsName(name), Len(name) > 1,
         env[name] \in Payloads,
         NEW t \in Overwrite4(sec, Tail(name), name), t # Error
  PROVE  /\ t = Struct(t.at) /\ DOMAIN t.at = DOMAIN sec.at
         /\ \A f \in DOMAIN sec.at :
              /\ f # name[2] => t.at[f] = sec.at[f]
              /\ f = name[2] /\ Len(name) = 2 => t.at[f] = FillField(sec.at[f], Written(name))
              /\ f = name[2] /\ Len(name) > 2 =>
                   t.at[f] \in Overwrite3(sec.at[f], Tail(Tail(name)), name) \ {Error}
<1>1. sec.kind = "struct" /\ sec # Nil
  BY StructFacts DEF IsSection
<1>2. CASE name[2] \notin DOMAIN sec.at
  <2>1. t = sec
    BY <1>1, <1>2, TailFacts DEF Overwrite4, OverwriteBy, OverwriteStruct
  <2>q. QED BY <1>2, <2>1 DEF IsSection
<1>3. CASE name[2] \in DOMAIN sec.at
  <2> DEFINE x == sec.at[name[2]]
  <2>1. PICK y \in IF Len(name) = 2 THEN {Unmarshal(x, name)}
                                    ELSE Overwrite3(x, Tail(Tail(name)), name) :
          t = SetField(sec, name[2], y)
    BY <1>1, <1>3, TailFacts DEF Overwrite4, OverwriteBy, OverwriteStruct
  <2>2. y # Error /\ t = Struct([sec.at EXCEPT ![name[2]] = y])
    BY <2>1 DEF SetField
  <2>3. Len(name) = 2 => y = FillField(x, Written(name))
    BY <1>3, <2>1, <2>2, FieldUnmarshalled DEF IsSection
  <2>q. QED BY <2>1, <2>2, <2>3, StructFacts, Longer
<1>q. QED BY <1>2, <1>3

\* What the type Configuration says of each path.
LEMMA TypedFacts ==
  ASSUME NEW tree, Typed(tree)
  PROVE  /\ tree = Struct(tree.at)
         /\ DOMAIN tree.at = {path[1] : path \in Paths}
         /\ \A path \in Paths : IsField(At(tree, path))
         /\ \A path \in Paths : Len(path) = 2 =>
              /\ IsSection(tree.at[path[1]])
              /\ path[2] \in DOMAIN tree.at[path[1]].at
         /\ \A path \in MapsOfFile : At(tree, path) = Map(At(tree, path).elem, At(tree, path).at)
         /\ \A path \in Scalars : At(tree, path) = Leaf(At(tree, path).val)
<1>1. \A path \in Paths : IsField(At(tree, path))
  BY DEF Typed, Paths, IsField
<1>2. ASSUME NEW path \in Paths, Len(path) = 2
      PROVE  /\ IsSection(tree.at[path[1]])
             /\ path[2] \in DOMAIN tree.at[path[1]].at
  <2> DEFINE sec == tree.at[path[1]]
  <2>1. sec = Struct(sec.at) /\ DOMAIN sec.at = {p[2] : p \in {q \in Paths : q[1] = path[1]}}
    BY <1>2 DEF Typed
  <2>2. ASSUME NEW p \in Paths, p[1] = path[1]
        PROVE  IsField(sec.at[p[2]])
    <3>1. Len(p) = 2
      BY <1>2, <2>2, PathShape
    <3>q. QED BY <1>1, <2>2, <3>1 DEF At
  <2>q. QED BY <2>1, <2>2 DEF IsSection
<1>q. QED BY <1>1, <1>2 DEF Typed

\* The type is kept when each field is changed as a variable may change it.
LEMMA TypedFrom ==
  ASSUME NEW tree, Typed(tree), NEW result, NEW name,
         result = Struct(result.at), DOMAIN result.at = DOMAIN tree.at,
         \A path \in Paths : Len(path) = 2 =>
           /\ result.at[path[1]] = Struct(result.at[path[1]].at)
           /\ DOMAIN result.at[path[1]].at = DOMAIN tree.at[path[1]].at,
         \A path \in Paths : Changed(At(tree, path), At(result, path), path, name)
  PROVE  Typed(result)
<1>1. ASSUME NEW path \in Scalars
      PROVE  At(result, path) = Leaf(At(result, path).val)
  <2>1. path \in Paths /\ At(tree, path) = Leaf(At(tree, path).val)
    BY TypedFacts DEF Paths
  <2>q. QED BY <2>1, LeafFacts, MapFacts DEF Changed, FillField
<1>2. ASSUME NEW path \in MapsOfFile
      PROVE  At(result, path) = Map(At(result, path).elem, At(result, path).at)
  <2>1. path \in Paths /\ At(tree, path) = Map(At(tree, path).elem, At(tree, path).at)
    BY TypedFacts DEF Paths
  <2>q. QED BY <2>1, LeafFacts, MapFacts DEF Changed, FillField
<1>q. QED BY <1>1, <1>2 DEF Typed

\* A variable for a field of the root: a scalar, or all of a section.
LEMMA RootUnmarshalled ==
  ASSUME NEW tree, Typed(tree), NEW name, IsName(name), env[name] \in Payloads,
         Len(name) = 1, name[1] \in DOMAIN tree.at,
         NEW t, t = Unmarshal(tree.at[name[1]], name), t # Error
  PROVE  \A path \in Paths : name[1] = path[1] =>
           /\ Len(path) = 1 => t = FillField(tree.at[path[1]], Written(name))
           /\ Len(path) = 2 =>
                /\ t = Struct(t.at) /\ DOMAIN t.at = DOMAIN tree.at[path[1]].at
                /\ t.at[path[2]] = FillField(tree.at[path[1]].at[path[2]], Written(name))
<1> SUFFICES ASSUME NEW path \in Paths, name[1] = path[1]
             PROVE  /\ Len(path) = 1 => t = FillField(tree.at[path[1]], Written(name))
                    /\ Len(path) = 2 =>
                         /\ t = Struct(t.at) /\ DOMAIN t.at = DOMAIN tree.at[path[1]].at
                         /\ t.at[path[2]] = FillField(tree.at[path[1]].at[path[2]], Written(name))
  OBVIOUS
<1>1. CASE Len(path) = 1
  <2>1. IsField(tree.at[path[1]])
    BY <1>1, TypedFacts DEF At
  <2>q. QED BY <1>1, <2>1, FieldUnmarshalled
<1>2. CASE Len(path) = 2
  <2>1. IsSection(tree.at[path[1]]) /\ path[2] \in DOMAIN tree.at[path[1]].at
    BY <1>2, TypedFacts
  <2>q. QED BY <1>2, <2>1, SectionUnmarshalled
<1>q. QED BY <1>1, <1>2

\* One for something below a field of the root.
LEMMA RootOverwritten ==
  ASSUME NEW tree, Typed(tree), NEW name, IsName(name), env[name] \in Payloads,
         Len(name) > 1, name[1] \in DOMAIN tree.at,
         NEW t \in Overwrite4(tree.at[name[1]], Tail(name), name), t # Error
  PROVE  \A path \in Paths : name[1] = path[1] =>
           /\ Len(path) = 1 => t = tree.at[path[1]]
           /\ Len(path) = 2 =>
                /\ t = Struct(t.at) /\ DOMAIN t.at = DOMAIN tree.at[path[1]].at
                /\ Changed(tree.at[path[1]].at[path[2]], t.at[path[2]], path, name)
<1> SUFFICES ASSUME NEW path \in Paths, name[1] = path[1]
             PROVE  /\ Len(path) = 1 => t = tree.at[path[1]]
                    /\ Len(path) = 2 =>
                         /\ t = Struct(t.at) /\ DOMAIN t.at = DOMAIN tree.at[path[1]].at
                         /\ Changed(tree.at[path[1]].at[path[2]], t.at[path[2]], path, name)
  OBVIOUS
<1>1. CASE Len(path) = 1
  <2>1. tree.at[path[1]] = Leaf(tree.at[path[1]].val)
    BY <1>1, TypedFacts, PathShape DEF At, Paths
  <2>q. QED BY <1>1, <2>1, LeafStays
<1>2. CASE Len(path) = 2
  <2> DEFINE sec == tree.at[path[1]]
             x == sec.at[path[2]]
             y == t.at[path[2]]
  <2>1. IsSection(sec) /\ path[2] \in DOMAIN sec.at /\ IsField(x)
    BY <1>2, TypedFacts DEF IsSection
  <2>2. /\ t = Struct(t.at) /\ DOMAIN t.at = DOMAIN sec.at
        /\ path[2] # name[2] => y = x
        /\ path[2] = name[2] /\ Len(name) = 2 => y = FillField(x, Written(name))
        /\ path[2] = name[2] /\ Len(name) > 2 =>
             y \in Overwrite3(x, Tail(Tail(name)), name) \ {Error}
    BY <2>1, SectionOverwritten
  <2>3. CASE path[2] # name[2]
    <3>1. ~ Covers(name, path) /\ ~ Within(name, path)
      <4>1. PICK n \in Nat : n = Len(name) /\ n > 1
        BY DEF IsName
      <4>2. n \in 1..2 => n = 2
        BY <4>1
      <4>3. Len(name) \in 1..Len(path) => Len(name) = 2
        BY <1>2, <4>1, <4>2
      <4>q. QED BY <2>3, <4>3 DEF Covers, Within
    <3>q. QED BY <1>2, <2>2, <2>3, <3>1 DEF Changed
  <2>4. CASE path[2] = name[2] /\ Len(name) = 2
    BY <1>2, <2>2, <2>4 DEF Changed, Covers, Within, IsName
  <2>5. CASE path[2] = name[2] /\ Len(name) > 2
    BY <1>2, <2>1, <2>2, <2>5, FieldOverwritten DEF Changed, Covers, Within, IsName
  <2>6. Len(name) = 2 \/ Len(name) > 2
    BY DEF IsName, MaxParts
  <2>q. QED BY <1>2, <2>2, <2>3, <2>4, <2>5, <2>6
<1>q. QED BY <1>1, <1>2

\* overwriteFields at the root: the field of each path is changed as the name says,
\* and the type is kept.
LEMMA VariableEffect ==
  ASSUME NEW tree, Typed(tree), NEW name, IsName(name), env[name] \in Payloads,
         NEW result \in OverwriteFields(tree, name, name), result # Error
  PROVE  /\ Typed(result)
         /\ \A path \in Paths : Changed(At(tree, path), At(result, path), path, name)
<1>1. tree.kind = "struct" /\ tree # Nil /\ tree = Struct(tree.at)
  BY StructFacts DEF Typed
<1>2. \A path \in Paths : name[1] # path[1] => ~ Covers(name, path) /\ ~ Within(name, path)
  BY DEF Covers, Within
<1>3. CASE name[1] \notin DOMAIN tree.at
  <2>1. result = tree
    BY <1>1, <1>3 DEF OverwriteFields, OverwriteBy, OverwriteStruct
  <2>2. \A path \in Paths : name[1] # path[1]
    BY <1>3, TypedFacts
  <2>q. QED BY <1>2, <2>1, <2>2 DEF Changed
<1>4. CASE name[1] \in DOMAIN tree.at
  <2>1. PICK t \in IF Len(name) = 1 THEN {Unmarshal(tree.at[name[1]], name)}
                                    ELSE Overwrite4(tree.at[name[1]], Tail(name), name) :
          result = SetField(tree, name[1], t)
    BY <1>1, <1>4 DEF OverwriteFields, OverwriteBy, OverwriteStruct
  <2>2. t # Error /\ result = Struct([tree.at EXCEPT ![name[1]] = t])
    BY <2>1 DEF SetField
  <2>3. /\ result = Struct(result.at)
        /\ DOMAIN result.at = DOMAIN tree.at
        /\ result.at[name[1]] = t
        /\ \A f \in DOMAIN tree.at : f # name[1] => result.at[f] = tree.at[f]
    BY <1>4, <2>2, StructFacts
  <2>4. \A path \in Paths : name[1] = path[1] =>
          /\ Len(path) = 1 => Changed(tree.at[path[1]], t, path, name)
          /\ Len(path) = 2 =>
               /\ t = Struct(t.at) /\ DOMAIN t.at = DOMAIN tree.at[path[1]].at
               /\ Changed(tree.at[path[1]].at[path[2]], t.at[path[2]], path, name)
    <3>1. CASE Len(name) = 1
      BY <1>4, <2>1, <2>2, <3>1, RootUnmarshalled DEF Changed, Covers, Within
    <3>2. CASE Len(name) > 1
      <4>1. Len(name) # 1
        BY <3>2, Longer DEF IsName
      <4>2. t \in Overwrite4(tree.at[name[1]], Tail(name), name)
        BY <2>1, <4>1
      <4>3. \A path \in Paths : Len(path) = 1 => ~ Covers(name, path) /\ ~ Within(name, path)
        BY <4>1 DEF Covers, Within
      <4>q. QED BY <1>4, <2>2, <3>2, <4>2, <4>3, RootOverwritten DEF Changed
    <3>3. Len(name) \in Nat \ {0}
      BY DEF IsName, MaxParts
    <3>q. QED BY <3>1, <3>2, <3>3, Longer
  <2>5. \A path \in Paths : Len(path) = 2 =>
          /\ result.at[path[1]] = Struct(result.at[path[1]].at)
          /\ DOMAIN result.at[path[1]].at = DOMAIN tree.at[path[1]].at
    BY <2>3, <2>4, TypedFacts DEF IsSection
  <2>6. ASSUME NEW path \in Paths
        PROVE  Changed(At(tree, path), At(result, path), path, name)
    <3>1. Len(path) = 1 \/ Len(path) = 2
      BY PathShape
    <3>2. path[1] \in DOMAIN tree.at
      BY TypedFacts
    <3>3. CASE name[1] = path[1]
      BY <2>3, <2>4, <3>1, <3>3 DEF At
    <3>4. CASE name[1] # path[1]
      BY <1>2, <2>3, <3>1, <3>2, <3>4 DEF At, Changed
    <3>q. QED BY <3>3, <3>4
  <2>q. QED BY <2>3, <2>5, <2>6, TypedFrom
<1>q. QED BY <1>3, <1>4

-----------------------------------------------------------------------------
(* The queue. *)

\* The environment is finite.
LEMMA NamesFinite == IsFiniteSet(Names)
<1>1. Lexical \in Surjection(1..Len(Lexical), Names)
  <2>1. Lexical \in [1..Len(Lexical) -> Seq(STRING)]
    BY LexicalAssumption
  <2>2. Names = {Lexical[i] : i \in 1..Len(Lexical)}
    BY <2>1 DEF Names, Range
  <2>q. QED BY <2>1, <2>2 DEF Surjection
<1>2. IsFiniteSet(1..Len(Lexical))
  BY LexicalAssumption, FS_Interval
<1>q. QED BY <1>1, <1>2, FS_Surjection

\* What sorts a set of names has each of them.
LEMMA SortedIsWhole ==
  ASSUME NEW S \in SUBSET Names, NEW s \in SetToSeqs(S)
  PROVE  s \in Seq(S) /\ Range(s) = S
<1> DEFINE n == Cardinality(S)
<1>1. IsFiniteSet(S) /\ n \in Nat
  BY NamesFinite, FS_Subset, FS_CardinalityType
<1>2. s \in [1..n -> S] /\ \A i, j \in 1..n : i # j => s[i] # s[j]
  BY DEF SetToSeqs
<1>3. s \in Injection(1..n, S)
  BY <1>2 DEF Injection, IsInjective
<1>4. Cardinality(1..n) = n
  BY <1>1, FS_Interval
<1>5. s \in Surjection(1..n, S)
  BY <1>1, <1>3, <1>4, FS_Injection
<1>6. s \in Seq(S)
  BY <1>1, <1>2, IsASeq
<1>7. Range(s) = S
  BY <1>2, <1>5 DEF Range, Surjection
<1>q. QED BY <1>6, <1>7

\* The order of p.env is strict, and puts a name behind its prefixes.
LEMMA LessFacts ==
  ASSUME NEW m, NEW n, Less(m, n)
  PROVE  m # n /\ ~ Less(n, m) /\ ~ IsStrictPrefix(n, m)
<1>1. PICK i, j \in DOMAIN Lexical : i < j /\ Lexical[i] = m /\ Lexical[j] = n
  BY DEF Less
<1>2. \A k \in DOMAIN Lexical : (Lexical[k] = m => k = i) /\ (Lexical[k] = n => k = j)
  BY <1>1, LexicalAssumption
<1>3. DOMAIN Lexical \subseteq Nat
  BY LexicalAssumption
<1>4. ~ (j < i) /\ i # j
  BY <1>1, <1>3
<1>5. ~ IsStrictPrefix(n, m)
  BY <1>1, <1>4, LexicalAssumption
<1>6. m # n /\ ~ Less(n, m)
  BY <1>1, <1>2, <1>4 DEF Less
<1>q. QED BY <1>5, <1>6

\* One iteration of the loop takes the least name that is left.
LEMMA QueueStep ==
  ASSUME queue \in Seq(DOMAIN env), QueueSorted, queue # <<>>,
         queue' = Tail(queue), env' = env
  PROVE  /\ queue' \in Seq(DOMAIN env)
         /\ QueueSorted'
         /\ Applied' = Applied \cup {Head(queue)}
         /\ Head(queue) \in DOMAIN env
         /\ \A m \in Applied : Less(m, Head(queue))
<1> DEFINE h == Head(queue)
<1>1. /\ queue' \in Seq(DOMAIN env) /\ h \in DOMAIN env
      /\ Len(queue) \in Nat \ {0}
      /\ DOMAIN queue = 1..Len(queue) /\ DOMAIN queue' = 1..(Len(queue) - 1)
      /\ \A i \in DOMAIN queue' : i + 1 \in DOMAIN queue /\ queue'[i] = queue[i + 1]
      /\ h = queue[1] /\ 1 \in DOMAIN queue
  OBVIOUS
<1>2. \A i \in DOMAIN queue : i = 1 \/ (i - 1 \in DOMAIN queue' /\ queue[i] = queue'[i - 1])
  BY <1>1
<1>3. Range(queue) = Range(queue') \cup {h}
  <2>1. \A n \in Range(queue) : n \in Range(queue') \cup {h}
    <3>1. \A n \in Range(queue) : \E i \in DOMAIN queue : n = queue[i]
      BY DEF Range
    <3>2. \A i \in DOMAIN queue : queue[i] \in Range(queue') \cup {h}
      BY <1>1, <1>2 DEF Range
    <3>q. QED BY <3>1, <3>2
  <2>2. \A n \in Range(queue') \cup {h} : n \in Range(queue)
    BY <1>1 DEF Range
  <2>q. QED BY <2>1, <2>2
<1>4. \A i, j \in DOMAIN queue : i < j => Less(queue[i], queue[j])
  BY DEF QueueSorted, Sorted
<1>5. \A n \in Range(queue') : Less(h, n)
  BY <1>1, <1>4 DEF Range
<1>6. h \notin Range(queue')
  BY <1>5, LessFacts
<1>7. Applied' = Applied \cup {h}
  BY <1>1, <1>3, <1>6 DEF Applied
<1>8. \A m \in Applied : \A n \in Range(queue) : Less(m, n)
  BY DEF QueueSorted
<1>9. QueueSorted'
  <2>1. Sorted(queue')
    BY <1>1, <1>4 DEF Sorted
  <2>q. QED BY <1>3, <1>5, <1>7, <1>8, <2>1 DEF QueueSorted, Sorted, Less
<1>q. QED BY <1>1, <1>3, <1>7, <1>8, <1>9

-----------------------------------------------------------------------------
(* What one iteration keeps of what was settled before. *)

\* A variable that is no prefix of those before it decides what it covers.
LEMMA ExpectedStep ==
  ASSUME NEW names \in SUBSET Names, NEW h \in Names,
         \A m \in names : ~ IsStrictPrefix(h, m),
         NEW path \in Paths
  PROVE  Expected(names \cup {h}, path) =
           IF Covers(h, path) THEN Written(h) ELSE Expected(names, path)
<1> DEFINE more == Covering(names \cup {h}, path)
           Longest(n) == \A m \in more : IsPrefix(m, n)
<1>1. \A n \in Names : n \in Seq(STRING)
  BY NamesAreNames DEF IsName
<1>2. IsPrefix(h, path) <=> Covers(h, path)
  BY NamesAreNames, CoversPrefix
<1>3. CASE ~ IsPrefix(h, path)
  <2>1. more = Covering(names, path)
    BY <1>3 DEF Covering
  <2>q. QED BY <1>2, <1>3, <2>1 DEF Expected
<1>4. CASE IsPrefix(h, path)
  <2>1. h \in more
    BY <1>4 DEF Covering
  <2>2. ASSUME NEW m \in more PROVE IsPrefix(m, h)
    <3>1. CASE m = h
      BY <1>1, <3>1, PrefixParts
    <3>2. CASE m # h
      <4>1. m \in names /\ IsPrefix(m, path)
        BY <2>2, <3>2 DEF Covering
      <4>2. ~ IsPrefix(h, m)
        BY <3>2, <4>1 DEF IsStrictPrefix
      <4>3. Len(path) \in Nat
        BY PathShape
      <4>q. QED BY <1>1, <1>4, <4>1, <4>2, <4>3, PrefixesCompare
    <3>q. QED BY <3>1, <3>2
  <2>3. \A n \in more : Longest(n) => n = h
    BY <1>1, <2>1, <2>2, PrefixAntisymmetric DEF Covering
  <2>4. MostSpecific(more) = h
    BY <2>1, <2>2, <2>3 DEF MostSpecific
  <2>q. QED BY <1>2, <1>4, <2>1, <2>4 DEF Expected
<1>q. QED BY <1>3, <1>4

\* A name that begins with the path of an entry.
LEMMA EntryPrefix ==
  ASSUME NEW path \in MapsOfFile, NEW name, IsName(name), NEW u
  PROVE  IsPrefix(path \o <<u>>, name) <=> Within(name, path) /\ name[3] = u
<1> DEFINE s == path \o <<u>>
<1>1. Len(s) = 3 /\ s[1] = path[1] /\ s[2] = path[2] /\ s[3] = u
  <2>1. \E p, q : path = <<p, q>>
    BY DEF MapsOfFile
  <2>2. \A p, q : /\ Len(<<p, q>> \o <<u>>) = 3
                  /\ (<<p, q>> \o <<u>>)[1] = p
                  /\ (<<p, q>> \o <<u>>)[2] = q
                  /\ (<<p, q>> \o <<u>>)[3] = u
    OBVIOUS
  <2>q. QED BY <2>1, <2>2
<1> HIDE DEF s
<1>2. PICK n \in Nat : n = Len(name)
  BY DEF IsName, MaxParts
<1>3. IsPrefix(s, name) <=> 3 <= n /\ \A i \in 1..3 : s[i] = name[i]
  <2>1. Len(s) \in Nat /\ Len(name) \in Nat
    BY <1>1, <1>2
  <2>2. IsPrefix(s, name) <=> Len(s) <= Len(name) /\ \A i \in 1..Len(s) : s[i] = name[i]
    BY <2>1, PrefixParts
  <2>q. QED BY <1>1, <1>2, <2>2
<1>4. IsPrefix(s, name) <=> n > 2 /\ path[1] = name[1] /\ path[2] = name[2] /\ u = name[3]
  BY <1>1, <1>3
<1>5. Len(path) = 2
  BY PathShape
<1>q. QED BY <1>2, <1>4, <1>5 DEF Within, s

\* One iteration of the loop, with the variable h.
Iteration(h) ==
  /\ Typed(conf) /\ file' = file /\ env' = env
  /\ DOMAIN env \subseteq Names
  /\ h \in DOMAIN env
  /\ Applied' = Applied \cup {h}
  /\ \A m \in Applied : Less(m, h)
  /\ \A path \in Paths : Changed(At(conf, path), At(conf', path), path, h)

\* The three ways a variable may treat a map of the configuration.
LEMMA MapChanged ==
  ASSUME NEW h, Iteration(h), NEW path \in MapsOfFile
  PROVE  /\ Covers(h, path) => At(conf', path).at = <<>>
         /\ ~ Covers(h, path) /\ ~ Within(h, path) => At(conf', path) = At(conf, path)
         /\ Within(h, path) =>
              EntryChanged(At(conf, path).at, At(conf', path).at, Tail(Tail(h)), h)
<1> DEFINE x == At(conf, path)
           y == At(conf', path)
<1>1. x = Map(x.elem, x.at) /\ Changed(x, y, path, h)
  BY TypedFacts DEF Iteration, Paths
<1>q. QED BY <1>1, MapFacts, LeafFacts DEF Changed, FillField

\* What the order says of the variable of an iteration, and its name.
LEMMA NameFacts ==
  ASSUME NEW h, Iteration(h)
  PROVE  /\ \A m \in Applied : m \in Names /\ m # h /\ ~ IsStrictPrefix(h, m)
         /\ IsName(h)
         /\ \A path \in Paths : Within(h, path) =>
              /\ Tail(Tail(h))[1] = h[3] /\ Upper[Lower[h[3]]] = h[3]
              /\ Len(Tail(Tail(h))) = Len(h) - 2
              /\ Len(Tail(Tail(h))) \in Nat \ {0}
<1>1. IsName(h)
  BY NamesAreNames DEF Iteration
<1>2. \A m \in Applied : m \in Names /\ m # h /\ ~ IsStrictPrefix(h, m)
  BY LessFacts DEF Iteration, Applied
<1>3. ASSUME NEW path \in Paths, Within(h, path)
      PROVE  /\ Tail(Tail(h))[1] = h[3] /\ Upper[Lower[h[3]]] = h[3]
             /\ Len(Tail(Tail(h))) = Len(h) - 2
             /\ Len(Tail(Tail(h))) \in Nat \ {0}
  <2>1. PICK n \in Nat : n = Len(h) /\ n > 2
    BY <1>1, <1>3 DEF IsName, MaxParts, Within
  <2>2. Len(h) > 1 /\ 3 \in DOMAIN h
    BY <1>1, <2>1 DEF IsName
  <2>q. QED BY <1>1, <1>3, <2>2, TailFacts DEF IsName, Within
<1>q. QED BY <1>1, <1>2, <1>3

\* A variable for an entry, or for what is inside of one.
LEMMA EntryStep ==
  ASSUME NEW h, Iteration(h), NEW path \in MapsOfFile, Within(h, path)
  PROVE  LET m0  == At(conf, path).at
             m1  == At(conf', path).at
             key == Lower[h[3]]
         IN /\ Upper[key] = h[3]
            /\ DOMAIN m0 \subseteq DOMAIN m1 /\ DOMAIN m1 \subseteq DOMAIN m0 \cup {key}
            /\ \A k \in DOMAIN m0 : Upper[k] # h[3] => m1[k] = m0[k]
            /\ \A k \in DOMAIN m0 : k # key /\ m0[k] # Nil => m1[k] # Nil
            /\ Len(h) = 3 /\ env[h] = "value" => key \in DOMAIN m1 /\ m1[key] = Leaf(h)
            /\ \A w : /\ Len(h) # 3
                      /\ key \in DOMAIN m0 /\ m0[key] = Leaf(w)
                      /\ \A k \in DOMAIN m0 : Upper[k] = h[3] => m0[k] # Nil
                      => m1[key] = Leaf(w)
<1> DEFINE m0   == At(conf, path).at
           m1   == At(conf', path).at
           rest == Tail(Tail(h))
<1>1. path \in Paths
  BY DEF Paths
<1>2. /\ rest[1] = h[3] /\ Upper[Lower[h[3]]] = h[3]
      /\ Len(rest) = Len(h) - 2 /\ Len(rest) \in Nat \ {0}
  BY <1>1, NameFacts
<1>3. EntryChanged(m0, m1, rest, h)
  BY MapChanged
<1>4. (Len(h) = 3 => Len(rest) = 1) /\ (Len(h) # 3 => Len(rest) > 1)
  <2>1. PICK n \in Nat, r \in Nat \ {0} : n = Len(h) /\ r = Len(rest) /\ r = n - 2
    <3>1. PICK n \in Nat : n = Len(h)
      BY NameFacts DEF IsName, MaxParts
    <3>2. PICK r \in Nat \ {0} : r = Len(rest)
      BY <1>2
    <3>q. QED BY <1>2, <3>1, <3>2
  <2>2. (n = 3 => r = 1) /\ (n # 3 => r > 1)
    BY <2>1
  <2>q. QED BY <2>1, <2>2
<1> HIDE DEF m0, m1, rest
<1>5. LET key == Lower[h[3]]
      IN /\ Upper[key] = h[3]
         /\ DOMAIN m0 \subseteq DOMAIN m1 /\ DOMAIN m1 \subseteq DOMAIN m0 \cup {key}
         /\ \A k \in DOMAIN m0 : Upper[k] # h[3] => m1[k] = m0[k]
         /\ \A k \in DOMAIN m0 : k # key /\ m0[k] # Nil => m1[k] # Nil
         /\ Len(h) = 3 /\ env[h] = "value" => key \in DOMAIN m1 /\ m1[key] = Leaf(h)
         /\ \A w : /\ Len(h) # 3
                   /\ key \in DOMAIN m0 /\ m0[key] = Leaf(w)
                   /\ \A k \in DOMAIN m0 : Upper[k] = h[3] => m0[k] # Nil
                   => m1[key] = Leaf(w)
  BY <1>2, <1>3, <1>4 DEF EntryChanged
<1>q. QED BY <1>5 DEF m0, m1

\* An iteration leaves the entries it does not name.
LEMMA EntriesKeptStep ==
  ASSUME NEW h, Iteration(h), EntriesKept(Applied)
  PROVE  EntriesKept(Applied)'
<1> SUFFICES ASSUME NEW path \in MapsOfFile, Covering(Applied', path) = {}
             PROVE  LET before == At(file, path).at
                        after  == At(conf', path).at
                        Named(k) == \E name \in Applied' : IsPrefix(path \o <<Upper[k]>>, name)
                    IN /\ DOMAIN before \subseteq DOMAIN after
                       /\ \A k \in DOMAIN after :
                            ~ Named(k) => k \in DOMAIN before /\ after[k] = before[k]
  BY DEF EntriesKept, Covering, At, Iteration
<1> DEFINE before == At(file, path).at
           m0 == At(conf, path).at
           m1 == At(conf', path).at
<1>1. path \in Paths /\ Applied' = Applied \cup {h}
  BY DEF Paths, Iteration
<1>2. ~ Covers(h, path) /\ Covering(Applied, path) = {}
  BY <1>1, NameFacts, CoversPrefix DEF Covering
<1>3. /\ DOMAIN before \subseteq DOMAIN m0
      /\ \A k \in DOMAIN m0 : ~ (\E name \in Applied : IsPrefix(path \o <<Upper[k]>>, name))
                              => k \in DOMAIN before /\ m0[k] = before[k]
  BY <1>2 DEF EntriesKept
<1>4. CASE ~ Within(h, path)
  <2>1. m1 = m0
    BY <1>2, <1>4, MapChanged
  <2>q. QED BY <1>1, <1>3, <2>1
<1>5. CASE Within(h, path)
  <2> DEFINE key == Lower[h[3]]
  <2>1. /\ DOMAIN m0 \subseteq DOMAIN m1 /\ DOMAIN m1 \subseteq DOMAIN m0 \cup {key}
        /\ \A k \in DOMAIN m0 : Upper[k] # h[3] => m1[k] = m0[k]
        /\ Upper[key] = h[3]
    BY <1>5, EntryStep
  <2>2. \A k : ~ IsPrefix(path \o <<Upper[k]>>, h) => Upper[k] # h[3]
    BY <1>5, NameFacts, EntryPrefix
  <2>3. \A k \in DOMAIN m1 : ~ IsPrefix(path \o <<Upper[k]>>, h) => k \in DOMAIN m0 /\ m1[k] = m0[k]
    BY <2>1, <2>2
  <2>q. QED BY <1>1, <1>3, <2>1, <2>3
<1>q. QED BY <1>4, <1>5

\* An iteration sets no key but that of its name.
LEMMA KeysKnownStep ==
  ASSUME NEW h, Iteration(h), KeysKnown
  PROVE  KeysKnown'
<1> SUFFICES ASSUME NEW path \in MapsOfFile, NEW k \in DOMAIN At(conf', path).at,
                    k # Lower[Upper[k]]
             PROVE  /\ k \in DOMAIN At(file, path).at
                    /\ At(file, path).at[k] # Nil => At(conf', path).at[k] # Nil
  BY DEF KeysKnown, At, Iteration
<1> DEFINE before == At(file, path).at
           m0 == At(conf, path).at
           m1 == At(conf', path).at
<1>1. \A j \in DOMAIN m0 : \/ j = Lower[Upper[j]]
                           \/ j \in DOMAIN before /\ (before[j] # Nil => m0[j] # Nil)
  BY DEF KeysKnown
<1>2. CASE Covers(h, path)
  <2>1. m1 = <<>>
    BY <1>2, MapChanged
  <2>q. QED BY <2>1
<1>3. CASE ~ Covers(h, path) /\ ~ Within(h, path)
  BY <1>1, <1>3, MapChanged
<1>4. CASE Within(h, path)
  <2> DEFINE key == Lower[h[3]]
  <2>1. /\ DOMAIN m1 \subseteq DOMAIN m0 \cup {key}
        /\ \A j \in DOMAIN m0 : j # key /\ m0[j] # Nil => m1[j] # Nil
        /\ Upper[key] = h[3]
    BY <1>4, EntryStep
  <2>q. QED BY <1>1, <2>1
<1>q. QED BY <1>2, <1>3, <1>4

\* An iteration takes no entry back that a variable has set: one for the same entry
\* is longer, and finds a scalar there.
LEMMA EntriesWrittenStep ==
  ASSUME NEW h, Iteration(h), KeysKnown, EntriesWritten(Applied)
  PROVE  EntriesWritten(Applied)'
<1> SUFFICES ASSUME NEW path \in MapsOfFile, NEW name \in EntriesOf(Applied', path)
             PROVE  LET key == Lower[name[Len(name)]]
                    IN /\ key \in DOMAIN At(conf', path).at
                       /\ At(conf', path).at[key] = Leaf(name)
  BY DEF EntriesWritten, EntriesOf, Twins, At, Iteration
<1> DEFINE before == At(file, path).at
           m0 == At(conf, path).at
           m1 == At(conf', path).at
           key == Lower[name[3]]
<1>1. path \in Paths /\ Len(path) = 2 /\ Applied' = Applied \cup {h}
  BY PathShape DEF Paths, Iteration
<1>2. /\ name \in Applied \cup {h} /\ IsName(name)
      /\ env[name] = "value" /\ Len(name) = 3 /\ Within(name, path)
      /\ Upper[key] = name[3]
      /\ \A k \in DOMAIN before : Upper[k] = name[3] /\ k # key => before[k] # Nil
  <2>1. /\ name \in Applied \cup {h} /\ env[name] = "value" /\ Len(name) = 3
        /\ IsPrefix(path, name)
        /\ \A k \in Twins(path, name) : before[k] # Nil
    BY <1>1 DEF EntriesOf
  <2>2. IsName(name)
    BY <2>1, NameFacts, NamesAreNames
  <2>3. path[1] = name[1] /\ path[2] = name[2]
    <3>1. Len(path) \in Nat /\ Len(name) \in Nat
      BY <1>1, <2>1
    <3>2. \A i \in 1..Len(path) : path[i] = name[i]
      BY <2>1, <3>1, PrefixParts
    <3>q. QED BY <1>1, <3>2
  <2>4. 3 \in DOMAIN name
    BY <2>1, <2>2 DEF IsName
  <2>q. QED BY <1>1, <2>1, <2>2, <2>3, <2>4 DEF Within, IsName, Twins
<1>3. CASE name = h
  <2>1. key \in DOMAIN m1 /\ m1[key] = Leaf(h)
    BY <1>2, <1>3, EntryStep
  <2>q. QED BY <1>2, <1>3, <2>1
<1>4. CASE name \in Applied
  <2>1. key \in DOMAIN m0 /\ m0[key] = Leaf(name)
    <3>1. name \in EntriesOf(Applied, path)
      BY <1>4 DEF EntriesOf
    <3>q. QED BY <1>2, <3>1 DEF EntriesWritten
  <2>2. ~ Covers(h, path)
    <3>1. ASSUME Covers(h, path) PROVE IsStrictPrefix(h, name)
      <4>1. PICK n \in 1..2 : n = Len(h)
        BY <1>1, <3>1 DEF Covers
      <4>2. \A i \in 1..n : h[i] = name[i]
        BY <1>2, <3>1, <4>1 DEF Covers, Within
      <4>3. IsPrefix(h, name)
        <5>1. /\ Len(h) \in Nat /\ Len(name) \in Nat /\ Len(h) <= Len(name)
              /\ \A i \in 1..Len(h) : h[i] = name[i]
          BY <1>2, <4>1, <4>2
        <5>q. QED BY <5>1, PrefixParts
      <4>4. Len(h) # Len(name)
        BY <1>2, <4>1
      <4>q. QED BY <4>3, <4>4 DEF IsStrictPrefix
    <3>q. QED BY <1>4, <3>1, NameFacts
  <2>3. CASE ~ Within(h, path)
    BY <1>2, <2>1, <2>2, <2>3, MapChanged
  <2>4. CASE Within(h, path) /\ h[3] # name[3]
    BY <1>2, <2>1, <2>4, EntryStep
  <2>5. CASE Within(h, path) /\ h[3] = name[3]
    <3>1. Len(h) # 3
      <4>1. SUFFICES ASSUME Len(h) = 3 PROVE h = name
        BY <1>4, NameFacts
      <4>2. \A i \in 1..3 : h[i] = name[i]
        BY <1>2, <2>5 DEF Within
      <4>q. QED BY <1>2, <4>1, <4>2, NameFacts DEF IsName
    <3>2. ASSUME NEW k \in DOMAIN m0, Upper[k] = h[3]
          PROVE  m0[k] # Nil
      <4>1. CASE k = key
        BY <2>1, <4>1, LeafFacts
      <4>2. CASE k # key
        <5>1. k \in DOMAIN before /\ (before[k] # Nil => m0[k] # Nil)
          BY <2>5, <3>2, <4>2 DEF KeysKnown
        <5>q. QED BY <1>2, <2>5, <3>2, <4>2, <5>1
      <4>q. QED BY <4>1, <4>2
    <3>3. DOMAIN m0 \subseteq DOMAIN m1
      BY <2>5, EntryStep
    <3>q. QED BY <1>2, <2>1, <2>5, <3>1, <3>2, <3>3, EntryStep
  <2>q. QED BY <2>3, <2>4, <2>5
<1>q. QED BY <1>2, <1>3, <1>4

-----------------------------------------------------------------------------
(* The inductive invariant. *)

\* Nothing is claimed before NewParser.
LEMMA ConfigInvInit == Init => ConfigInv
<1> SUFFICES ASSUME Init PROVE ConfigInv
  OBVIOUS
<1>1. TypeOK
  BY DEF Init, TypeOK
<1>q. QED BY <1>1 DEF Init, ConfigInv, AllMerged, OtherEntriesKept, EntryWritten, Done

\* sort.Sort leaves every variable to apply, in order.
LEMMA NewParserKeeps ==
  ASSUME ConfigInv, NewParser
  PROVE  ConfigInv'
<1>1. DOMAIN env \in SUBSET Names
  BY DEF ConfigInv, TypeOK
<1>2. queue' \in Seq(DOMAIN env) /\ Range(queue') = DOMAIN env /\ Sorted(queue')
  BY <1>1, SortedIsWhole DEF NewParser
<1>3. TypeOK'
  BY <1>2 DEF ConfigInv, TypeOK, NewParser
<1>4. Applied' = {}
  BY <1>2 DEF Applied, NewParser
<1>5. QueueSorted'
  BY <1>2, <1>4 DEF QueueSorted, Sorted, Less
<1>6. pc' = "version"
  BY DEF NewParser
<1>q. QED BY <1>3, <1>4, <1>5, <1>6
          DEF ConfigInv, AllMerged, OtherEntriesKept, EntryWritten, Done

\* The file itself is what no variable changed.
LEMMA CheckVersionKeeps ==
  ASSUME ConfigInv, CheckVersion
  PROVE  ConfigInv'
<1>1. file' = file /\ env' = env /\ queue' = queue /\ Typed(file)
  BY FilesAssumption DEF ConfigInv, TypeOK, CheckVersion
<1>2. TypeOK'
  BY <1>1 DEF ConfigInv, TypeOK, CheckVersion, Typed, At, Struct
<1>3. CASE pc' = "error"
  BY <1>2, <1>3 DEF ConfigInv, AllMerged, OtherEntriesKept, EntryWritten, Done
<1>4. CASE pc' = "overwrite" /\ conf' = file
  <2>1. Applied' = {} /\ QueueSorted'
    BY <1>1 DEF ConfigInv, CheckVersion, Applied, QueueSorted, Sorted, Less
  <2>2. \A path \in Scalars : At(conf', path).val = Expected({}, path)
    BY <1>4 DEF Expected, Covering
  <2>3. (\A path \in Scalars : At(conf, path).val = Expected(Applied, path))'
    BY <1>1, <2>1, <2>2 DEF Expected, Covering, Written, At
  <2>4. EntriesKept(Applied)'
    BY <1>1, <1>4, <2>1 DEF EntriesKept, At
  <2>5. KeysKnown'
    BY <1>1, <1>4 DEF KeysKnown, At
  <2>6. EntriesWritten(Applied)'
    BY <2>1 DEF EntriesWritten, EntriesOf
  <2>q. QED BY <1>2, <1>4, <2>1, <2>3, <2>4, <2>5, <2>6
            DEF ConfigInv, AllMerged, OtherEntriesKept, EntryWritten, Done
<1>q. QED BY <1>3, <1>4 DEF CheckVersion

\* One iteration of the loop over p.env.
LEMMA OverwriteKeeps ==
  ASSUME ConfigInv, Overwrite
  PROVE  ConfigInv'
<1> DEFINE h == Head(queue)
<1>1. /\ pc = "overwrite" /\ queue # <<>> /\ queue' = Tail(queue)
      /\ file' = file /\ env' = env /\ Typed(conf)
  BY DEF ConfigInv, TypeOK, Overwrite
<1>2. /\ queue' \in Seq(DOMAIN env) /\ QueueSorted'
      /\ Applied' = Applied \cup {h} /\ h \in DOMAIN env
      /\ \A m \in Applied : Less(m, h)
  BY <1>1, QueueStep DEF ConfigInv, TypeOK
<1>3. CASE pc' = "error" /\ conf' = conf
  <2>1. TypeOK'
    BY <1>1, <1>2, <1>3 DEF ConfigInv, TypeOK
  <2>q. QED BY <1>3, <2>1 DEF ConfigInv, AllMerged, OtherEntriesKept, EntryWritten, Done
<1>4. CASE pc' = pc /\ conf' # Error /\ conf' \in OverwriteFields(conf, h, h)
  <2>1. IsName(h) /\ env[h] \in Payloads
    BY <1>2, NamesAreNames DEF ConfigInv, TypeOK
  <2>2. /\ Typed(conf')
        /\ \A path \in Paths : Changed(At(conf, path), At(conf', path), path, h)
    BY <1>1, <1>4, <2>1, VariableEffect
  <2>3. Iteration(h)
    BY <1>1, <1>2, <2>2 DEF Iteration, ConfigInv, TypeOK
  <2>4. TypeOK'
    BY <1>1, <1>2, <1>4, <2>2 DEF ConfigInv, TypeOK, Typed, At, Struct
  <2>5. ASSUME NEW path \in Scalars
        PROVE  At(conf', path).val = Expected(Applied', path)
    <3> DEFINE x == At(conf, path)
               y == At(conf', path)
    <3>1. path \in Paths /\ x = Leaf(x.val) /\ Changed(x, y, path, h)
      BY <1>1, <2>2, TypedFacts DEF Paths
    <3>2. y = IF Covers(h, path) THEN Leaf(Written(h)) ELSE x
      BY <3>1, LeafFacts, MapFacts DEF Changed, FillField
    <3>3. /\ Applied \in SUBSET Names /\ h \in Names
          /\ \A m \in Applied : ~ IsStrictPrefix(h, m)
      BY <1>2, <2>3, NameFacts DEF Iteration
    <3>4. Expected(Applied', path) =
            IF Covers(h, path) THEN Written(h) ELSE Expected(Applied, path)
      BY <1>2, <3>1, <3>3, ExpectedStep
    <3>5. x.val = Expected(Applied, path)
      BY <1>1 DEF ConfigInv
    <3>q. QED BY <3>2, <3>4, <3>5, LeafFacts
  <2>6. (\A path \in Scalars : At(conf, path).val = Expected(Applied, path))'
    BY <1>1, <2>5 DEF Expected, Covering, Written, At
  <2>7. EntriesKept(Applied)' /\ KeysKnown' /\ EntriesWritten(Applied)'
    BY <1>1, <2>3, EntriesKeptStep, KeysKnownStep, EntriesWrittenStep DEF ConfigInv
  <2>q. QED BY <1>1, <1>2, <1>4, <2>4, <2>6, <2>7
            DEF ConfigInv, AllMerged, OtherEntriesKept, EntryWritten, Done
<1>q. QED BY <1>3, <1>4 DEF Overwrite

\* ConversionFunc changes the level only, and everything was applied before it.
LEMMA ConvertKeeps ==
  ASSUME ConfigInv, Convert
  PROVE  ConfigInv'
<1> DEFINE level == <<"LOG", "LEVEL">>
<1>1. /\ pc = "overwrite" /\ pc' = "done" /\ file' = file /\ env' = env /\ queue' = queue
      /\ Typed(conf) /\ queue = <<>>
  BY DEF ConfigInv, TypeOK, Convert
<1>2. Applied = DOMAIN env
  <2>1. DOMAIN queue = {}
    BY <1>1
  <2>q. QED BY <2>1 DEF Applied, Range
<1>3. level \in Scalars /\ level \in Paths /\ Len(level) = 2
      /\ level[1] = "LOG" /\ level[2] = "LEVEL"
  BY DEF Scalars, Paths
<1>4. /\ At(conf, level) = conf.at["LOG"].at["LEVEL"]
      /\ At(conf, level) = Leaf(At(conf, level).val)
      /\ conf = Struct(conf.at) /\ "LOG" \in DOMAIN conf.at
      /\ conf.at["LOG"] = Struct(conf.at["LOG"].at)
      /\ "LEVEL" \in DOMAIN conf.at["LOG"].at
  <2>1. "LOG" \in DOMAIN conf.at
    BY <1>1, <1>3, TypedFacts
  <2>q. QED BY <1>1, <1>3, <2>1, TypedFacts DEF At, IsSection
<1>5. conf' = IF At(conf, level).val = Zero
                THEN SetField(conf, "LOG", SetField(conf.at["LOG"], "LEVEL", Leaf(<<"info">>)))
                ELSE conf
  BY <1>4, LeafFacts DEF Convert
<1> HIDE DEF level
<1>6. /\ conf' = Struct(conf'.at) /\ DOMAIN conf'.at = DOMAIN conf.at
      /\ \A f \in DOMAIN conf.at : f # "LOG" => conf'.at[f] = conf.at[f]
      /\ conf'.at["LOG"] = Struct(conf'.at["LOG"].at)
      /\ DOMAIN conf'.at["LOG"].at = DOMAIN conf.at["LOG"].at
      /\ \A f \in DOMAIN conf.at["LOG"].at :
           f # "LEVEL" => conf'.at["LOG"].at[f] = conf.at["LOG"].at[f]
      /\ conf'.at["LOG"].at["LEVEL"] =
           IF At(conf, level).val = Zero THEN Leaf(<<"info">>) ELSE At(conf, level)
  <2>1. CASE At(conf, level).val # Zero
    BY <1>4, <1>5, <2>1
  <2>2. CASE At(conf, level).val = Zero
    <3> DEFINE log == Struct([conf.at["LOG"].at EXCEPT !["LEVEL"] = Leaf(<<"info">>)])
    <3>1. conf' = Struct([conf.at EXCEPT !["LOG"] = log])
      BY <1>5, <2>2, LeafFacts, StructFacts DEF SetField
    <3>2. log.at = [conf.at["LOG"].at EXCEPT !["LEVEL"] = Leaf(<<"info">>)]
      BY StructFacts
    <3>3. conf'.at = [conf.at EXCEPT !["LOG"] = log]
      BY <3>1, StructFacts
    <3> HIDE DEF log
    <3>4. conf'.at["LOG"] = log
      BY <1>4, <3>3
    <3>5. log = Struct(log.at)
      BY <3>2 DEF log
    <3>q. QED BY <1>4, <2>2, <3>1, <3>2, <3>3, <3>4, <3>5
  <2>q. QED BY <2>1, <2>2
<1>7. /\ At(conf', level) = IF At(conf, level).val = Zero THEN Leaf(<<"info">>) ELSE At(conf, level)
      /\ \A path \in Paths : path # level => At(conf', path) = At(conf, path)
  <2>1. At(conf', level) = conf'.at["LOG"].at["LEVEL"]
    BY <1>3 DEF At
  <2>2. ASSUME NEW path \in Paths, path # level
        PROVE  At(conf', path) = At(conf, path)
    <3>1. path[1] \in DOMAIN conf.at
      BY <1>1, TypedFacts
    <3>2. Len(path) = 2 => path[2] \in DOMAIN conf.at[path[1]].at
      BY <1>1, TypedFacts
    <3>3. path[1] = "LOG" => Len(path) = 2 /\ path[2] # "LEVEL"
      BY <2>2 DEF Paths, Scalars, MapsOfFile, level
    <3>4. Len(path) = 1 \/ Len(path) = 2
      BY PathShape
    <3>q. QED BY <1>6, <3>1, <3>2, <3>3, <3>4 DEF At
  <2>q. QED BY <1>6, <2>1, <2>2
<1>8. Typed(conf')
  <2>1. ASSUME NEW path \in Scalars
        PROVE  At(conf', path) = Leaf(At(conf', path).val)
    BY <1>1, <1>3, <1>4, <1>7, TypedFacts, LeafFacts DEF Paths
  <2>2. ASSUME NEW path \in MapsOfFile
        PROVE  At(conf', path) = Map(At(conf', path).elem, At(conf', path).at)
    <3>1. path \in Paths /\ path # level
      BY DEF Paths, MapsOfFile, level
    <3>q. QED BY <1>1, <1>7, <3>1, TypedFacts
  <2>3. ASSUME NEW section \in {path[1] : path \in {p \in Paths : Len(p) = 2}}
        PROVE  /\ conf'.at[section] = Struct(conf'.at[section].at)
               /\ DOMAIN conf'.at[section].at = DOMAIN conf.at[section].at
    <3>1. section \in DOMAIN conf.at /\ conf.at[section] = Struct(conf.at[section].at)
      BY <1>1 DEF Typed
    <3>q. QED BY <1>6, <3>1
  <2>q. QED BY <1>1, <1>6, <2>1, <2>2, <2>3 DEF Typed
<1>9. TypeOK'
  BY <1>1, <1>8 DEF ConfigInv, TypeOK, Typed, At, Struct
<1>10. ASSUME NEW path \in Scalars
       PROVE  LET expected == Expected(DOMAIN env, path)
              IN At(conf', path).val =
                   IF path = level /\ expected = Zero THEN <<"info">> ELSE expected
  <2>1. At(conf, path).val = Expected(DOMAIN env, path)
    BY <1>1, <1>2 DEF ConfigInv
  <2>q. QED BY <1>3, <1>7, <2>1, LeafFacts DEF Paths
<1>11. AllMerged'
  BY <1>1, <1>10 DEF AllMerged, Merged, Expected, Covering, Written, At, level
<1>12. \A path \in MapsOfFile : At(conf', path) = At(conf, path)
  BY <1>7 DEF Paths, MapsOfFile, level
<1>13. OtherEntriesKept'
  <2>1. EntriesKept(DOMAIN env)
    BY <1>1, <1>2 DEF ConfigInv
  <2>q. QED BY <1>1, <1>12, <2>1 DEF OtherEntriesKept, EntriesKept, Covering, At
<1>14. EntryWritten'
  <2>1. EntriesWritten(DOMAIN env)
    BY <1>1, <1>2 DEF ConfigInv
  <2>q. QED BY <1>1, <1>12, <2>1 DEF EntryWritten, EntriesWritten, EntriesOf, Twins, At
<1>q. QED BY <1>1, <1>9, <1>11, <1>13, <1>14 DEF ConfigInv

\* Every step of Parse keeps the invariant.
LEMMA ConfigInvStep ==
  ConfigInv /\ [Next]_vars => ConfigInv'
<1> SUFFICES ASSUME ConfigInv, [Next]_vars PROVE ConfigInv'
  OBVIOUS
<1>1. CASE NewParser
  BY <1>1, NewParserKeeps
<1>2. CASE CheckVersion
  BY <1>2, CheckVersionKeeps
<1>3. CASE Overwrite
  BY <1>3, OverwriteKeeps
<1>4. CASE Convert
  BY <1>4, ConvertKeeps
<1>5. CASE UNCHANGED vars
  <2>1. UNCHANGED <<file, env, queue, conf, pc>>
    BY <1>5 DEF vars
  <2>2. TypeOK' /\ Applied' = Applied
    BY <2>1 DEF ConfigInv, TypeOK, Applied, Typed, At, Struct
  <2>3. QueueSorted' <=> QueueSorted
    BY <2>1, <2>2 DEF QueueSorted, Sorted, Less
  <2>4. /\ (\A path \in Scalars : At(conf, path).val = Expected(Applied, path))'
           <=> \A path \in Scalars : At(conf, path).val = Expected(Applied, path)
        /\ AllMerged' <=> AllMerged
    BY <2>1, <2>2 DEF AllMerged, Merged, Done, Expected, Covering, Written, At
  <2>5. /\ EntriesKept(Applied)' <=> EntriesKept(Applied)
        /\ OtherEntriesKept' <=> OtherEntriesKept
    BY <2>1, <2>2 DEF OtherEntriesKept, Done, EntriesKept, Covering, At
  <2>6. KeysKnown' <=> KeysKnown
    BY <2>1 DEF KeysKnown, At
  <2>7. /\ EntriesWritten(Applied)' <=> EntriesWritten(Applied)
        /\ EntryWritten' <=> EntryWritten
    BY <2>1, <2>2 DEF EntryWritten, Done, EntriesWritten, EntriesOf, Twins, At
  <2>q. QED BY <2>1, <2>2, <2>3, <2>4, <2>5, <2>6, <2>7 DEF ConfigInv
<1>q. QED BY <1>1, <1>2, <1>3, <1>4, <1>5 DEF Next

-----------------------------------------------------------------------------
(* The properties of every behaviour. *)

\* While the loop over p.env runs, the tree is what the variables applied so far
\* make of the file: each scalar by the most specific of them that covers it,
\* each map by those that name an entry of it; none of the variables left is
\* less than, or a prefix of, one applied.
THEOREM ConfigInvHolds == Spec => []ConfigInv
BY ConfigInvInit, ConfigInvStep, PTL DEF Spec

\* Parse: a parameter of the configuration has the value of the most specific
\* variable that covers it, whatever the order of os.Environ.
THEOREM MostSpecificWinsHolds == Spec => []MostSpecificWins
<1>1. ConfigInv => MostSpecificWins
  BY DEF ConfigInv, AllMerged, MostSpecificWins, Parameters
<1>q. QED BY <1>1, ConfigInvHolds, PTL

\* Parse: THATIQ_VERSION replaces the version that was checked, where the comment
\* at parser.go:110-111 says that the version cannot be overridden.
THEOREM VersionOverridden ==
  Spec => [](Done /\ <<"VERSION">> \in DOMAIN env =>
               At(conf, <<"VERSION">>).val = Written(<<"VERSION">>))
<1> DEFINE version == <<"VERSION">>
<1>1. ASSUME ConfigInv, Done, version \in DOMAIN env
      PROVE  At(conf, version).val = Written(version)
  <2> DEFINE writers == Covering(DOMAIN env, version)
  <2>1. version \in Scalars /\ version # <<"LOG", "LEVEL">>
    BY DEF Scalars
  <2>2. At(conf, version).val = Expected(DOMAIN env, version)
    BY <1>1, <2>1 DEF ConfigInv, AllMerged, Merged
  <2>3. Len(version) = 1 /\ IsPrefix(version, version)
    <3>1. Len(version) = 1
      OBVIOUS
    <3> HIDE DEF version
    <3>q. QED BY <3>1, PrefixParts
  <2>4. ASSUME NEW name \in writers PROVE name = version
    <3>1. name \in Names /\ IsPrefix(name, version)
      BY <1>1, <2>4 DEF Covering, ConfigInv, TypeOK
    <3>2. name \in Seq(STRING) /\ Len(name) \in 1..MaxParts
      BY <3>1, NamesAreNames, LexicalAssumption DEF IsName
    <3>3. Len(name) = 1 /\ name[1] = "VERSION"
      BY <2>3, <3>1, <3>2, PrefixParts DEF MaxParts
    <3>q. QED BY <3>2, <3>3
  <2>5. writers = {version}
    BY <1>1, <2>3, <2>4 DEF Covering
  <2>6. MostSpecific(writers) = version
    BY <2>3, <2>5 DEF MostSpecific
  <2>q. QED BY <2>2, <2>5, <2>6 DEF Expected
<1> HIDE DEF version
<1>2. ConfigInv => (Done /\ version \in DOMAIN env => At(conf, version).val = Written(version))
  BY <1>1
<1>3. Spec => [](Done /\ version \in DOMAIN env => At(conf, version).val = Written(version))
  BY <1>2, ConfigInvHolds, PTL
<1>q. QED BY <1>3 DEF version

\* Parse: an entry of a map that no variable names is that of the file, and no
\* entry appears that none names.
THEOREM OtherEntriesKeptHolds == Spec => []OtherEntriesKept
<1>1. ConfigInv => OtherEntriesKept
  BY DEF ConfigInv
<1>q. QED BY <1>1, ConfigInvHolds, PTL

\* Parse: a variable for one entry of a map gives the entry of that name its
\* value, and no later variable takes it back, where the file has no entry
\* without a value that differs from it in case only.
THEOREM EntryWrittenHolds == Spec => []EntryWritten
<1>1. ConfigInv => EntryWritten
  BY DEF ConfigInv
<1>q. QED BY <1>1, ConfigInvHolds, PTL
=============================================================================
