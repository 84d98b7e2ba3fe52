------------------------------- MODULE AppConfig -------------------------------
(***************************************************************************)
(* The configuration file.  A file is a sequence of objects, an object its *)
(* name, its fields in order and whether its closing brace is there; a     *)
(* field is a name and a value, a value a string.  load_config looks for   *)
(* three objects and nine fields and passes over everything else.          *)
(***************************************************************************)
EXTENDS Integers, Sequences, FiniteSets

CONSTANTS
  NumberOf,   \* the values that are numbers, and which
  Braced      \* the values with a closing brace in them

Objects ==
  [server   |-> <<"host", "port", "save_dir">>,
   transfer |-> <<"chunk_size", "enable_resume", "verify_sha256", "state_file">>,
   log      |-> <<"level", "file">>]
Order    == <<"server", "transfer", "log">>
Settings == UNION {{Objects[o][i] : i \in DOMAIN Objects[o]} : o \in DOMAIN Objects}
ObjectOf(setting) == CHOOSE o \in DOMAIN Objects : \E i \in DOMAIN Objects[o] : Objects[o][i] = setting

DefaultConfig ==
  [host |-> "0.0.0.0", port |-> "9090", save_dir |-> "received",
   chunk_size |-> "1048576", enable_resume |-> "false", verify_sha256 |-> "true",
   state_file |-> "transfer_state.json", level |-> "info", file |-> "logs/beamdrop.log"]

\* The default values are what they look like, and none of them has a brace.
ASSUME ConfigAssumption ==
  /\ NumberOf["9090"] = 9090 /\ NumberOf["1048576"] = 1048576
  /\ \A f \in Settings : DefaultConfig[f] \notin Braced

Least(S) == CHOOSE n \in S : \A m \in S : n <= m

\* The fields of the object, up to the first closing brace after its name.
ObjectText(text, name) ==
  LET closed == {i \in DOMAIN text : text[i].name = name /\
                   (text[i].closed \/ \E n \in DOMAIN text[i].fields : text[i].fields[n][2] \in Braced)}
      fields == text[Least(closed)].fields
      cut    == {n \in DOMAIN fields : fields[n][2] \in Braced}
  IN  IF closed = {} THEN <<>>
      ELSE IF cut = {} THEN fields ELSE SubSeq(fields, 1, Least(cut) - 1)

\* What the pattern of a field's type matches.
Matches(setting, value) ==
  IF setting \in {"port", "chunk_size"} THEN value \in DOMAIN NumberOf
  ELSE IF setting \in {"enable_resume", "verify_sha256"} THEN value \in {"true", "false"}
  ELSE value \notin DOMAIN NumberOf \cup {"true", "false"}

Loaded(text, setting) ==
  LET fields == ObjectText(text, ObjectOf(setting))
      hits   == {n \in DOMAIN fields : fields[n][1] = setting /\ Matches(setting, fields[n][2])}
  IN  IF hits = {} THEN DefaultConfig[setting] ELSE fields[Least(hits)][2]

\* The set of what load_config returns for a text: empty when it throws.
LoadConfig(text) ==
  LET config == [setting \in Settings |-> Loaded(text, setting)]
  IN  IF NumberOf[config.port] > 65535 \/ NumberOf[config.chunk_size] = 0 THEN {} ELSE {config}

\* Faulty variant: the two paths of the format string are exchanged.
FormatExchanged(config) ==
  [i \in 1..3 |->
    [name |-> Order[i], closed |-> TRUE,
     fields |-> [n \in DOMAIN Objects[Order[i]] |->
                   LET f == Objects[Order[i]][n]
                   IN  <<f, CASE f = "save_dir" -> config.state_file
                              [] f = "state_file" -> config.save_dir
                              [] OTHER -> config[f]>>]]]

FormatConfig(config) ==
  [i \in 1..3 |->
    [name |-> Order[i], closed |-> TRUE,
     fields |-> [n \in DOMAIN Objects[Order[i]] |->
                   <<Objects[Order[i]][n], config[Objects[Order[i]][n]]>>]]]

\* What a write that is interrupted leaves of a text.
Beginnings(text) ==
  {SubSeq(text, 1, i) : i \in 0..Len(text)} \cup
  UNION {{Append(SubSeq(text, 1, i - 1),
                 [name |-> text[i].name, closed |-> FALSE, fields |-> SubSeq(text[i].fields, 1, n)]) :
            n \in 0..Len(text[i].fields)} : i \in DOMAIN text}
=============================================================================
