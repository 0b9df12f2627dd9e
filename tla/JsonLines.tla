------------------------------ MODULE JsonLines ------------------------------
(***************************************************************************)
(* The files of colorharness/eventlog.py and colorharness/ledger.py: one   *)
(* JSON object per line, opened in append mode for each write.  Only       *)
(* definitions.                                                            *)
(*                                                                         *)
(* A line is the sequence of pieces that writes left on it: "whole", the   *)
(* object in full; "part", its beginning; "split", a beginning that ends   *)
(* inside a character of several bytes (the writers do not escape).  A     *)
(* file whose last write lacks its newline has not ended: the next write   *)
(* continues that line.                                                    *)
(***************************************************************************)
EXTENDS Naturals, Sequences

Cuts == {"part", "split"}

Piece(x, kind) == [item |-> x, kind |-> kind]

EmptyFile == [lines |-> <<>>, ended |-> TRUE]

Pieces(Items) == [item : Items, kind : {"whole"} \cup Cuts]

\* A line has something on it, and so has a file that has not ended.
Files(Items) == {f \in [lines : Seq(Seq(Pieces(Items)) \ {<<>>}), ended : BOOLEAN] :
                   f.ended \/ f.lines # <<>>}

Continued(f, p) ==
  IF f.ended THEN Append(f.lines, <<p>>)
  ELSE [f.lines EXCEPT ![Len(f.lines)] = Append(@, p)]

\* Faulty variant: the newline forgotten.
Written_NoNewlineBug(f, x) == [lines |-> Continued(f, Piece(x, "whole")), ended |-> FALSE]

\* _write that returns: the object and its newline.
Written(f, x) == [lines |-> Continued(f, Piece(x, "whole")), ended |-> TRUE]

\* Several writes, one after the other.
WrittenAll(f, xs) ==
  IF xs = <<>> THEN f
  ELSE [lines |-> Written(f, Head(xs)).lines \o [k \in DOMAIN Tail(xs) |-> <<Piece(Tail(xs)[k], "whole")>>],
        ended |-> TRUE]

\* _write that raises or dies with the process: any prefix of those bytes may
\* be on file, none or all of them included.
Interrupted(f, x, cuts) ==
  {f, Written(f, x)}
  \cup {[lines |-> Continued(f, Piece(x, kind)), ended |-> FALSE] : kind \in cuts \cup {"whole"}}

\* json.loads takes the line.
IsObject(line) == Len(line) = 1 /\ line[1].kind = "whole"

ObjectLines(f) == {i \in DOMAIN f.lines : IsObject(f.lines[i])}

Objects(f) == {f.lines[i][1].item : i \in ObjectLines(f)}

\* The file decodes; when it does not, reading it raises whatever the line.
Decodes(f) == \A i \in DOMAIN f.lines : \A j \in DOMAIN f.lines[i] : f.lines[i][j].kind # "split"
=============================================================================
