-------------------------- MODULE MCConfigOverride --------------------------
(* Instances of ConfigOverride for TLC. *)
EXTENDS ConfigOverride

\* Fields that are covered by variables for themselves and for what is around
\* them, entries of both maps, and a name no field has.
NamesInOrder == <<
  <<"CONFIGURATION", "PATH">>,
  <<"HTTP", "HEADERS", "SERVER">>,
  <<"HTTP", "HEADERS", "SERVER", "NAME">>,
  <<"LOG">>,
  <<"LOG", "FIELDS">>,
  <<"LOG", "FIELDS", "USER">>,
  <<"LOG", "FIELDS", "USER", "NAME">>,
  <<"LOG", "LEVEL">>,
  <<"REDIS">>,
  <<"REDIS", "ADDR">>,
  <<"VERSION">> >>

LowerCase == [
  USER |-> "user", NAME |-> "name", ENV |-> "env", SERVER |-> "server",
  CONFIGURATION |-> "configuration", PATH |-> "path", HTTP |-> "http",
  HEADERS |-> "headers", LOG |-> "log", FIELDS |-> "fields", LEVEL |-> "level",
  REDIS |-> "redis", ADDR |-> "addr", VERSION |-> "version"]
UpperCase ==
  [k \in Range(LowerCase) |-> CHOOSE part \in DOMAIN LowerCase : LowerCase[part] = k]
    @@ [User |-> "USER", Server |-> "SERVER"]

File(version, level, fields, headers) == Struct([
  VERSION |-> Leaf(version),
  LOG     |-> Struct([LEVEL |-> Leaf(level), FIELDS |-> Map("interface", fields)]),
  HTTP    |-> Struct([HEADERS |-> Map("strings", headers)]),
  REDIS   |-> Struct([ADDR |-> Leaf(FromFile), DB |-> Leaf(FromFile)])])

Given == Leaf(FromFile)

\* An entry under the lower-case name, in another case, in both, without a
\* value, or a map of its own.
FieldsOfFile ==
  {<<>>, [env |-> Given], [user |-> Given, env |-> Given], [user |-> Nil],
   [User |-> YamlMap], [User |-> Given], [user |-> Given, User |-> Nil]}

SomeFiles ==
  {File(FromFile, level, fields, headers) :
     level \in {Zero, FromFile}, fields \in FieldsOfFile,
     headers \in {<<>>, [Server |-> Given]}}
  \cup {File(<<"another version">>, Zero, <<>>, <<>>)}
=============================================================================
