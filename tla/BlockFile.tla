----------------------------- MODULE BlockFile ------------------------------
(***************************************************************************)
(* What the data zone iterators promise to my_read and my_write: a file is *)
(* a sequence of blocks, an iterator stands on one of them (on none, 0, in *)
(* an empty file), goes on to the next, rewrites the last, or adds one.    *)
(*                                                                         *)
(* A call that is refused a zone it needs may spoil the file it is about,  *)
(* of which nothing is promised from then on; every other file is as it    *)
(* was.                                                                    *)
(***************************************************************************)
EXTENDS Naturals, Sequences

CONSTANTS Files, Fds,
          Data      \* what a block can hold

VARIABLES content,  \* the blocks of every file that exists
          cursor,   \* file and block of every iterator in use
          out,      \* the block a read gave, until the next call
          spoiled   \* files of which nothing is promised

vars == <<content, cursor, out, spoiled>>

Exists == DOMAIN content
InUse == DOMAIN cursor
Blocks(fd) == content[cursor[fd].file]

With(f, x, v) == [y \in DOMAIN f \cup {x} |-> IF y = x THEN v ELSE f[y]]
Without(f, x) == [y \in DOMAIN f \ {x} |-> f[y]]

Init == content = <<>> /\ cursor = <<>> /\ out = <<>> /\ spoiled = {}

Creat(f) == /\ f \notin Exists
            /\ content' = With(content, f, <<>>)
            /\ out' = <<>> /\ UNCHANGED <<cursor, spoiled>>

Remove(f) == /\ f \in Exists
             /\ content' = Without(content, f)
             /\ out' = <<>> /\ UNCHANGED <<cursor, spoiled>>

Open(fd, f) ==
  /\ fd \notin InUse /\ f \in Exists
  /\ cursor' = With(cursor, fd,
                    [file |-> f, at |-> IF content[f] = <<>> THEN 0 ELSE 1])
  /\ out' = <<>> /\ UNCHANGED <<content, spoiled>>

Close(fd) == /\ cursor' = Without(cursor, fd)
             /\ out' = <<>> /\ UNCHANGED <<content, spoiled>>

Read(fd) ==
  /\ cursor[fd].at < Len(Blocks(fd))
  /\ cursor' = [cursor EXCEPT ![fd].at = @ + 1]
  /\ out' = Blocks(fd)[cursor[fd].at + 1]
  /\ UNCHANGED <<content, spoiled>>

AtEnd(fd) == cursor[fd].at = Len(Blocks(fd))

Rewrite(fd, d) ==
  /\ AtEnd(fd) /\ Blocks(fd) # <<>>
  /\ content' = [content EXCEPT ![cursor[fd].file][cursor[fd].at] = d]
  /\ out' = <<>> /\ UNCHANGED <<cursor, spoiled>>

Add(fd, d) ==
  /\ AtEnd(fd)
  /\ content' = [content EXCEPT ![cursor[fd].file] = Append(@, d)]
  /\ cursor' = [cursor EXCEPT ![fd].at = @ + 1]
  /\ out' = <<>> /\ UNCHANGED spoiled

\* The blocks of a spoiled file are no longer told.
Spoil(f) ==
  /\ spoiled' = spoiled \cup {f}
  /\ content' = [content EXCEPT ![f] = <<>>]
  /\ cursor' = [fd \in InUse |-> [cursor[fd] EXCEPT !.at =
                                    IF cursor[fd].file = f THEN 0 ELSE @]]
  /\ UNCHANGED out

ReadSpoiled(fd) == /\ cursor[fd].file \in spoiled
                   /\ UNCHANGED <<content, cursor, spoiled>>

Taken == out' = <<>> /\ UNCHANGED <<content, cursor, spoiled>>

Next ==
  \/ Taken
  \/ \E f \in Files : \/ Creat(f) \/ Remove(f)
                      \/ f \in Exists /\ Spoil(f)
                      \/ \E fd \in Fds : Open(fd, f)
  \/ \E fd \in InUse : \/ Close(fd) \/ Read(fd) \/ ReadSpoiled(fd)
                       \/ \E d \in Data : Rewrite(fd, d) \/ Add(fd, d)

Spec == Init /\ [][Next]_vars
=============================================================================
