---------------------------- MODULE MCCommandLine ----------------------------
(***************************************************************************)
(* Small instances of CommandLine for TLC: every short line over the       *)
(* commands' own words, longer ones made of options with their values, and *)
(* a source tree of two levels beside an input of the same name.           *)
(***************************************************************************)
EXTENDS CommandLine

Paths    == {<<"d">>, <<"d", "a">>, <<"d", "a", "f">>, <<"d", "b">>, <<"x/d">>, <<"d/">>}
RankOf   == (<<"">> :> 1) @@ (<<"d">> :> 2) @@ (<<"d", "a">> :> 3) @@ (<<"d", "a", "f">> :> 4)
              @@ (<<"d", "b">> :> 5)

Numbers   == [n \in {"0", "80", "9090", "70000", "1048576"} |->
                CASE n = "0" -> 0 [] n = "80" -> 80 [] n = "9090" -> 9090
                  [] n = "70000" -> 70000 [] n = "1048576" -> 1048576]
Endpoints == [e \in {"h:80", "h:0"} |-> IF e = "h:80" THEN 80 ELSE 0]
Dashes    == {"--config", "--host", "--port", "--to", "--chunk-size", "--log-file", "--path", "-x"}

\* One file sets a few fields, with a brace in a path and an unknown field; the
\* other's port is out of range.
Object(name, fields) == [name |-> name, closed |-> TRUE, fields |-> fields]
Texts == ("cfg" :> <<Object("transfer", <<<<"speed", "80">>, <<"chunk_size", "80">>, <<"state_file", "a}b">>,
                                          <<"enable_resume", "true">>>>),
                     Object("server", <<<<"port", "80">>>>)>>)
         @@ ("bad" :> <<Object("server", <<<<"host", "h">>, <<"port", "70000">>>>)>>)

Lines(command, words, n) == {<<command>> \o line : line \in SeqOf(words, n)}
Made(command, parts, n)  == {<<command>> \o FlattenSeq(s) : s \in [1..n -> parts]}
AllArguments ==
  {<<>>, <<"receive">>, <<"config">>}
  \cup Lines("serve", {"--config", "--host", "--port", "cfg", "80", "0"}, 3)
  \cup Made("serve", {<<"--config", "cfg">>, <<"--config", "bad">>, <<"--port", "80">>,
                      <<"--port", "70000">>, <<"--host", "cfg">>, <<"--host", "--port">>}, 3)
  \cup Lines("send", {"--config", "--to", "cfg", "h:80", "d", "", "-x"}, 3)
  \cup Made("send", {<<"--config", "cfg">>, <<"--to", "h:80">>, <<"d">>,
                     <<"--chunk-size", "0">>, <<"--chunk-size", "9090">>}, 4)
  \cup {<<"send", "--to", "h:80">> \o line : line \in SeqOf({"d", "x/d", "d/", "gone", ""}, 2)}
  \cup {<<"send", "--to", "h:0", "d">>}
  \cup Lines("config", {"init", "show", "--path", "cfg", "new"}, 3)
Words == {"a", "f", "b"} \cup UNION {Range(line) : line \in AllArguments}
BaseOf == [w \in Words |-> CASE w = "d/" -> "" [] w = "x/d" -> "d" [] OTHER -> w]
=============================================================================
