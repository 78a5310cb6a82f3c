------------------------------- MODULE MCFileSystem -------------------------------
(* Names of one and two bytes, of which one begins the other, and one that is too     *)
(* long; the calls use three paths, one with an empty name at its head; there is a     *)
(* value that is too long as well.                                                     *)
EXTENDS FileSystemVisitor

MCNames == 0 .. 3
MCNameBytes == (0 :> <<>>) @@ (1 :> <<1>>) @@ (2 :> <<1, 0>>) @@ (3 :> <<1, 0, 0, 0>>)
MCPaths == {<<0, 1>>, <<2>>, <<1, 2>>}
MCLongPaths == {<<1, 3>>, <<1, 3, 2>>}
MCAttributes ==
  {Variant("Version", <<1, 0, 2>>), Variant("String", <<1>>), Variant("String", <<0, 0, 0, 0, 0, 1>>)}
MCStarts == {<<>>, <<<<1, 2>>, <<2>>, <<2>>>>}
MCImports == {<<ImportedFolder(<<1>>), ImportedFile(<<1, 2>>, <<0>>), ImportedFolder(<<2>>)>>}

(* All but the answer, which no call depends on, and what follows from the rest. *)
MCView == <<fs, saved, openWriters, openReaders, nextHandle, calls>>
===================================================================================
