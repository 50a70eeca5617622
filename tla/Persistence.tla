---------------------------- MODULE Persistence ----------------------------
(***************************************************************************)
(* How the stores of packages/state keep a snapshot in one JSON file with  *)
(* fs.writeFile: the file is opened, which empties it, and filled later.   *)
(* Nothing serialises two such writes, and nothing replaces the file at    *)
(* once, so writes that overlap, or a process that ends inside one, may    *)
(* leave a text that does not parse.                                       *)
(***************************************************************************)
EXTENDS Naturals

CONSTANTS Torn  \* a text that JSON.parse rejects

NewFile(text) == [text |-> text, writing |-> {}, mixed |-> FALSE]

\* The call `by' has opened the file to write the snapshot.
Opened(f, by, snap) ==
    [text |-> Torn, writing |-> f.writing \cup {[by |-> by, snap |-> snap]}, mixed |-> f.mixed \/ f.writing # {}]

\* Its text is written: what the file may then be.
Written(f, by) ==
    LET left == {w \in f.writing : w.by # by}
        mine == {w.snap : w \in f.writing \ left}
    IN  [text : IF f.mixed THEN mine \cup {Torn} ELSE mine, writing : {left}, mixed : {f.mixed /\ left # {}}]

\* The process ends.
Abandoned(f) == NewFile(IF f.writing = {} THEN f.text ELSE Torn)
=============================================================================
