--------------------------------- MODULE ByteFile ---------------------------------
(*********************************************************************************)
(* What a file promises to the one who writes it and the one who reads it: a        *)
(* sequence of bytes that grows at its end while it is open for writing, and that    *)
(* a reader gets piece by piece as it was when the reader opened it.                 *)
(*********************************************************************************)
EXTENDS Integers, Sequences

CONSTANTS
  Pieces,               \* the sequences of bytes that are written at once
  Sizes                 \* how many bytes are read at once

VARIABLES
  content,              \* the file, as last closed
  committed,            \* and as last committed
  writing,              \* <<what the file becomes>> while it is written, or <<>>
  reading,              \* <<what is there to read>> while it is read, or <<>>
  position,             \* what of it was read
  answer                \* the bytes the last call returned

vars == <<content, committed, writing, reading, position, answer>>

NotReading == answer' = <<>> /\ UNCHANGED <<reading, position>>

Open(now, what) == NotReading /\ content' = now /\ writing' = <<what>> /\ UNCHANGED committed

Write(bytes) ==
  /\ writing # <<>> /\ writing' = <<writing[1] \o bytes>>
  /\ NotReading /\ UNCHANGED <<content, committed>>

Close ==
  /\ writing # <<>> /\ content' = writing[1] /\ writing' = <<>>
  /\ NotReading /\ UNCHANGED committed

OpenReader ==
  /\ reading' = <<content>> /\ position' = 0 /\ answer' = <<>>
  /\ UNCHANGED <<content, committed, writing>>

Read(n) ==
  LET left == Len(reading[1]) - position
      size == IF n < left THEN n ELSE left
  IN /\ reading # <<>>
     /\ answer' = SubSeq(reading[1], position + 1, position + size)
     /\ position' = position + size
     /\ UNCHANGED <<content, committed, writing, reading>>

End(now) ==
  /\ content' = now /\ committed' = now
  /\ writing' = <<>> /\ reading' = <<>> /\ position' = 0 /\ answer' = <<>>
Commit == End(IF writing = <<>> THEN content ELSE writing[1])
Rollback == End(committed)

Init ==
  /\ content = <<>> /\ committed = <<>> /\ writing = <<>>
  /\ reading = <<>> /\ position = 0 /\ answer = <<>>

Next ==
  \/ Open(<<>>, <<>>) \/ Open(content, content)
  \/ \E bytes \in Pieces : Write(bytes)
  \/ \E n \in Sizes : Read(n)
  \/ Close \/ OpenReader \/ Commit \/ Rollback

Spec == Init /\ [][Next]_vars
===================================================================================
