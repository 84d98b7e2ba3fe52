------------------------------ MODULE PayloadText ------------------------------
(***************************************************************************)
(* The texts the program writes and reads back: the payloads of HELLO,     *)
(* FILE_INFO and RESUME_ACK, and the resume state file.                    *)
(*                                                                         *)
(* A text is a sequence of cells.  What a file name can bring in is kept   *)
(* character by character; a quoted field name with its colon, a number    *)
(* and a digest are one cell each, as no escaped name can contain or end   *)
(* one; blanks and commas, which the parsers skip, are left out.  A parser *)
(* returns the set of what it accepts: empty when it throws.               *)
(***************************************************************************)
EXTENDS Integers, Sequences, FiniteSets, SequencesExt

CONSTANT Letter   \* what else is in names

Quote     == <<"char", "quote">>
Backslash == <<"char", "backslash">>
Open      == <<"char", "open brace">>
Close     == <<"char", "close brace">>
Char      == {Quote, Backslash, Open, Close} \cup ({"char"} \X Letter)
Key(name)   == <<"key", name>>
Number(n)   == <<"number", n>>
Digest(hash) == <<"digest", hash>>

\* Faulty variant: only quotes are escaped.
EscapeQuotesOnly(value) ==
  FlattenSeq([i \in DOMAIN value |->
    IF value[i] = Quote THEN <<Backslash, value[i]>> ELSE <<value[i]>>])

EscapeJsonString(value) ==
  FlattenSeq([i \in DOMAIN value |->
    IF value[i] \in {Quote, Backslash} THEN <<Backslash, value[i]>> ELSE <<value[i]>>])

\* The string that starts at position i, unescaped, up to its closing quote.
StringsFrom(text) ==
  LET Rest[i \in 1..(Len(text) + 2)] ==
        IF i > Len(text) THEN {}
        ELSE IF text[i] = Quote THEN {<<>>}
        ELSE IF text[i] # Backslash THEN {<<text[i]>> \o s : s \in Rest[i + 1]}
        ELSE IF i < Len(text) /\ text[i + 1] \in {Quote, Backslash}
             THEN {<<text[i + 1]>> \o s : s \in Rest[i + 2]}
        ELSE {}
  IN  Rest

Fields(text, name) == {i \in 1..(Len(text) - 1) : text[i] = Key(name)}
StringField(text, name) ==
  UNION {StringsFrom(text)[i + 2] : i \in {j \in Fields(text, name) : text[j + 1] = Quote}}
NumberField(text, name) ==
  {text[i + 1][2] : i \in {j \in Fields(text, name) : text[j + 1][1] = "number"}}

\* FileInfoCodec; info is [path, size, sha256].
FileInfoText(info) ==
  <<Open, Key("relative_path"), Quote>> \o EscapeJsonString(info.path)
    \o <<Quote, Key("size"), Number(info.size), Key("sha256"), Quote>>
    \o EscapeJsonString(info.sha256) \o <<Quote, Close>>

Identities(text) ==
  {info \in [path : StringField(text, "relative_path"),
             size : NumberField(text, "size"),
             sha256 : StringField(text, "sha256")] :
     info.path # <<>> /\ info.sha256 # <<>>}
ParseFileInfo(text) == IF text # <<>> /\ text[1] = Open THEN Identities(text) ELSE {}

\* ResumeAckCodec: the whole text must be one object with the one field.
ResumeAckText(offset) == <<Open, Key("offset"), Number(offset), Close>>
ParseResumeAck(text) ==
  {n \in NumberField(text, "offset") : text = ResumeAckText(n)}

\* TransferManifestCodec: four lines; what follows them is not looked at.
ManifestText(manifest) ==
  <<Key("beamdrop-manifest-v2"), Key("file_count"), Number(manifest.files),
    Key("total_bytes"), Number(manifest.bytes),
    Key("directory_count"), Number(manifest.directories)>>
ParseManifest(text) ==
  {m \in [files : NumberField(text, "file_count"),
          bytes : NumberField(text, "total_bytes"),
          directories : NumberField(text, "directory_count")] :
     IsPrefix(ManifestText(m), text)}

-----------------------------------------------------------------------------
(* ResumeManager: one object per record, found again by its braces. *)

RecordText(record) ==
  <<Open, Key("relative_path"), Quote>> \o EscapeJsonString(record.info.path)
    \o <<Quote, Key("size"), Number(record.info.size), Key("sha256"), Quote>>
    \o EscapeJsonString(record.info.sha256)
    \o <<Quote, Key("offset"), Number(record.offset), Close>>

Saved(records) ==
  <<Open, Key("records")>> \o FlattenSeq([i \in DOMAIN records |-> RecordText(records[i])])
    \o <<Close>>

\* The matches of \{[^{}]*\}: an opening brace whose next brace closes it.
Braces(text) == {i \in DOMAIN text : text[i] \in {Open, Close}}
NextBrace(text, i) == {j \in Braces(text) : j > i /\ \A k \in Braces(text) : k > i => j <= k}

\* A set of positions, the smallest first, and what stands at them.
InOrder(positions) ==
  [n \in 1..Cardinality(positions) |->
     CHOOSE i \in positions : Cardinality({j \in positions : j < i}) = n - 1]
Selected(items, positions) == [n \in DOMAIN InOrder(positions) |-> items[InOrder(positions)[n]]]

\* Faulty variant: an object may also end where the text ends.
ObjectsOrRest(text) ==
  LET last   == Len(text)
      End(i) == IF NextBrace(text, i) = {} THEN last ELSE CHOOSE j \in NextBrace(text, i) : TRUE
      starts == InOrder({i \in Braces(text) : text[i] = Open
                           /\ (End(i) = last \/ text[End(i)] = Close)})
  IN  [n \in DOMAIN starts |-> SubSeq(text, starts[n], End(starts[n]))]

Objects(text) ==
  LET starts == InOrder({i \in Braces(text) :
                           text[i] = Open /\ \E j \in NextBrace(text, i) : text[j] = Close})
  IN  [n \in DOMAIN starts |->
         SubSeq(text, starts[n], CHOOSE j \in NextBrace(text, starts[n]) : TRUE)]

RecordsIn(object) ==
  {[info |-> info, offset |-> n] :
     info \in Identities(object), n \in NumberField(object, "offset")}

\* load(): an object without relative_path is passed over, one that has it and
\* lacks anything else makes the whole file invalid.
Load(text) ==
  LET objects == Objects(text)
      records == Selected(objects,
                   {n \in DOMAIN objects : Contains(objects[n], Key("relative_path"))})
  IN  IF \E n \in DOMAIN records : RecordsIn(records[n]) = {} THEN {}
      ELSE {[n \in DOMAIN records |-> CHOOSE record \in RecordsIn(records[n]) : TRUE]}

Known(records, info) == {n \in DOMAIN records : records[n].info = info}
First(positions)     == CHOOSE n \in positions : \A m \in positions : n <= m

\* find_offset(): 0 also stands for "no record", as its caller reads it.
FindOffset(text, info) ==
  {LET known  == Known(records, info)
       offset == records[First(known)].offset
   IN  IF known = {} \/ offset > info.size THEN 0 ELSE offset :
     records \in Load(text)}

\* Faulty variant: the file is rewritten with this record alone.
RememberOnly(text, info, offset) == {Saved(<<[info |-> info, offset |-> offset]>>)}

\* update_offset(): the text that is saved.
UpdateOffset(text, info, offset) ==
  IF info.path = <<>> \/ info.sha256 = <<>> \/ offset > info.size THEN {} ELSE
  {LET known == Known(records, info)
   IN  Saved(IF known = {} THEN Append(records, [info |-> info, offset |-> offset])
             ELSE [records EXCEPT ![First(known)].offset = offset]) :
     records \in Load(text)}

\* clear(): the text that is saved.
Clear(text, info) ==
  {Saved(Selected(records, DOMAIN records \ Known(records, info))) : records \in Load(text)}
=============================================================================
