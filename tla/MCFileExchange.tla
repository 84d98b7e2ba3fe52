---------------------------- MODULE MCFileExchange ----------------------------
(***************************************************************************)
(* Small instances of FileExchange for TLC: blocks of two bytes with a     *)
(* length field of one; an empty file, and one that fills a block exactly, *)
(* takes a second one for its padding and is sent in two packets.          *)
(***************************************************************************)
EXTENDS FileExchange

Letters     == {"a"}
AwkwardName == {<<Quote, Backslash>>}
Bytes       == {<<"byte", i>> : i \in 1..3}
FilesOfSize(sizes) == {[i \in 1..n |-> <<"byte", i>>] : n \in sizes}
SmallFiles == FilesOfSize({0, 3})
OtherFile   == <<<<"char", "a">>>>
OtherBytes  == <<<<"byte", 3>>, <<"byte", 2>>>>
=============================================================================
