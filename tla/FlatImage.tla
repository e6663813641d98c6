----------------------------- MODULE FlatImage -----------------------------
(***************************************************************************)
(* What class ImageHandler promises its callers (its docstring): a file    *)
(* object over a flat sequence of cells with seek, read, append and        *)
(* truncate, "either way the operations do the same" whatever the format   *)
(* of the file underneath.  A write may rewind the cursor.  A write may    *)
(* raise, a read may not; after an exception the image says nothing more.  *)
(***************************************************************************)
EXTENDS Integers, Sequences

CONSTANTS Cell, Zero

VARIABLES content,   \* the cells of the de-sparsified image
          pos,       \* the read cursor
          call       \* the last call: its operation, size and cells

vars == << content, pos, call >>

Call == [op : {"open", "seek", "read", "append", "truncate", "raise"},
         size : Nat, cells : Seq(Cell)]

Resize(s, n) ==
  IF n <= Len(s) THEN SubSeq(s, 1, n)
  ELSE s \o [i \in 1..(n - Len(s)) |-> Zero]

Upto(s, p, n) == SubSeq(s, p + 1, IF p + n <= Len(s) THEN p + n ELSE Len(s))

Init ==
  /\ content \in Seq(Cell)
  /\ pos = 0
  /\ call = [op |-> "open", size |-> 0, cells |-> << >>]

Seek ==
  /\ call'.op = "seek"
  /\ pos' = call'.size
  /\ UNCHANGED content

(* A read returns the cells from the cursor on, fewer than asked for only  *)
(* at the end, and moves the cursor by what it returned.                   *)
Read ==
  /\ call'.op = "read"
  /\ call'.cells = Upto(content, pos, call'.size)
  /\ pos' = pos + Len(call'.cells)
  /\ UNCHANGED content

Extend ==
  /\ call'.op = "append"
  /\ content' = content \o call'.cells
  /\ pos' = 0

Truncate ==
  /\ call'.op = "truncate"
  /\ content' = Resize(content, call'.size)
  /\ pos' \in {0, pos}

(* Only a write gives up, and then nothing is known of the image.          *)
Raise ==
  /\ call'.op = "raise"
  /\ content' = << >>
  /\ pos' = 0

Next ==
  /\ call.op # "raise"
  /\ Seek \/ Read \/ Extend \/ Truncate \/ Raise

Spec == Init /\ [][Next]_vars
=============================================================================
