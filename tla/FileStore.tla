----------------------------- MODULE FileStore ------------------------------
(***************************************************************************)
(* What my_creat, my_open, my_read, my_write and my_close promise: a file  *)
(* is a sequence of bytes, a descriptor a position in a file.              *)
(***************************************************************************)
EXTENDS Naturals, Sequences

CONSTANTS Files, Fds,
          Data,     \* the sequences of bytes a client writes
          Counts    \* the numbers of bytes a client asks for

VARIABLES content,  \* the bytes of every file that exists
          pos,      \* file and position of every descriptor in use
          out       \* the bytes the last my_read gave

vars == <<content, pos, out>>

Exists == DOMAIN content
InUse == DOMAIN pos

With(f, x, v) == [y \in DOMAIN f \cup {x} |-> IF y = x THEN v ELSE f[y]]
Without(f, x) == [y \in DOMAIN f \ {x} |-> f[y]]

Init == content = <<>> /\ pos = <<>> /\ out = <<>>

Creat(f) ==
  /\ f \notin Exists
  /\ content' = With(content, f, <<>>)
  /\ UNCHANGED <<pos, out>>

Remove(f) ==
  /\ f \in Exists
  /\ content' = Without(content, f)
  /\ UNCHANGED <<pos, out>>

Open(fd, f) ==
  /\ fd \notin InUse /\ f \in Exists
  /\ pos' = With(pos, fd, [file |-> f, offset |-> 0])
  /\ UNCHANGED <<content, out>>

Close(fd) ==
  /\ fd \in InUse
  /\ pos' = Without(pos, fd)
  /\ UNCHANGED <<content, out>>

\* The bytes go to the position on, over old ones and past the end.
Write(fd, d) ==
  LET f == pos[fd].file
      o == pos[fd].offset
      old == content[f]
      len == IF o + Len(d) > Len(old) THEN o + Len(d) ELSE Len(old)
  IN  /\ content' = With(content, f,
            [i \in 1 .. len |-> IF i \in o + 1 .. o + Len(d) THEN d[i - o]
                                ELSE old[i]])
      /\ pos' = [pos EXCEPT ![fd].offset = o + Len(d)]
      /\ UNCHANGED out

\* What follows the position, up to n bytes and to the end of the file.
Read(fd, n) ==
  LET f == pos[fd].file
      o == pos[fd].offset
      end == IF o + n > Len(content[f]) THEN Len(content[f]) ELSE o + n
  IN  /\ out' = SubSeq(content[f], o + 1, end)
      /\ pos' = [pos EXCEPT ![fd].offset = end]
      /\ UNCHANGED content

Next ==
  \/ \E f \in Files : Creat(f) \/ Remove(f) \/ \E fd \in Fds : Open(fd, f)
  \/ \E fd \in InUse : \/ Close(fd)
                       \/ \E d \in Data : Write(fd, d)
                       \/ \E n \in Counts : Read(fd, n)

Spec == Init /\ [][Next]_vars
=============================================================================
