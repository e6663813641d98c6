------------------------------- MODULE MCDtbo -------------------------------
(***************************************************************************)
(* Small instances of Dtbo: three device trees of two, one and no cells,   *)
(* which pack to one or two cells, in lists of at most three entries.      *)
(***************************************************************************)
EXTENDS Dtbo

CONSTANTS p, q, e, MaxArgs

MCFile == {p, q, e}

MCContent == [f \in MCFile |-> IF f = p THEN << << "dt", p, 1 >>, << "dt", p, 2 >> >>
                               ELSE IF f = q THEN << << "dt", q, 1 >> >> ELSE << >>]

(* zlib shrinks p and leaves q; gzip has a longer header than zlib.        *)
MCPacked == [c \in {1, 2} |-> [f \in MCFile |->
               [i \in 1..(IF c = 2 /\ f = p THEN 2 ELSE 1) |-> << "z", c, f, i >>]]]

MCCell == {<< "dt", f, i >> : f \in MCFile, i \in 1..2} \cup
          {<< "z", c, f, i >> : c \in 1..2, f \in MCFile, i \in 1..2}

(* Formats 0 to 3 with and without a bit above the mask; numbers that are  *)
(* refused or do not fit a field.                                          *)
MCArg ==
  [file : {p, q}, id : {4}, flags : {0, 1, 2, 17}] \cup
  {[file |-> e, id |-> 0, flags |-> 0], [file |-> p, id |-> 4, flags |-> 3],
   [file |-> q, id |-> -1, flags |-> 0], [file |-> q, id |-> 4, flags |-> -1],
   [file |-> NoFile, id |-> 0, flags |-> 0], [file |-> q, id |-> Word, flags |-> 0]}

MCCommand ==
  {[version |-> v, page_size |-> s, args |-> as] :
     v \in 0..1, s \in {1}, as \in UNION {[1..n -> MCArg] : n \in 0..MaxArgs}}
  \cup {[version |-> v, page_size |-> s, args |-> << [file |-> p, id |-> 0, flags |-> 0] >>]
          : v \in 0..2, s \in {-1, 0, Word}}

MCAgain == {[version |-> v, page_size |-> 1, args |-> as] : v \in {0, 1},
            as \in {<< >>, << [file |-> q, id |-> 4, flags |-> 1] >>}}

NameP == [absolute |-> TRUE, at |-> p, walk |-> << q >>]
NameQ == [absolute |-> FALSE, at |-> NoFile, walk |-> << p, q >>]

KeyLine(indent, key, value) ==
  [indent |-> indent, key |-> key, value |-> value, name |-> NameP]
FileLine(indent, name) == [indent |-> indent, key |-> "", value |-> 0, name |-> name]

MCLine == {KeyLine(TRUE, "version", 1), KeyLine(TRUE, "flags", 1),
           KeyLine(FALSE, "flags", 2), KeyLine(TRUE, "bogus", 0),
           FileLine(FALSE, NameP), FileLine(FALSE, NameQ), FileLine(TRUE, NameQ)}
=============================================================================
