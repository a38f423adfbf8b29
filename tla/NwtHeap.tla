------------------------------ MODULE NwtHeap ------------------------------
(***************************************************************************)
(* The binary heap of exactcolors (exactcolors/heap.c) between two resets. *)
(*                                                                         *)
(* A heap is a record: perm is the array of references, with perm[1 .. end]*)
(* in use; key and obj give the elements their references name.  The       *)
(* inverse array iperm is the position of a reference in perm.  Slots      *)
(* behind end hold COLORNWT_MAX, so the scan of the two children of a      *)
(* position may look one slot behind the end.                              *)
(***************************************************************************)
EXTENDS Integers, Sequences

COLORNWT_MAX == 1000000

\* COLORNWTheap_init and COLORNWTheap_reset, for at most size elements; the
\* last slot is the sentinel.
COLORNWTheap_reset(size) ==
  [end |-> 0,
   perm |-> [i \in 1 .. size + 1 |-> i],
   key |-> [i \in 1 .. size + 1 |-> COLORNWT_MAX],
   obj |-> << >>]

iperm(h, href) == CHOOSE i \in DOMAIN h.perm : h.perm[i] = href
KeyAt(h, pos) == h.key[h.perm[pos]]

Exchanged(h, i, j) ==
  [h EXCEPT !.perm = [@ EXCEPT ![i] = h.perm[j], ![j] = h.perm[i]]]

RECURSIVE COLORNWTheap_liftup(_, _)
COLORNWTheap_liftup(h, pos) ==
  LET parent == pos \div 2
  IN  IF parent > 0 /\ KeyAt(h, parent) > KeyAt(h, pos)
      THEN COLORNWTheap_liftup(Exchanged(h, parent, pos), parent)
      ELSE h

\* As a slip: only the left child is looked at.
RECURSIVE siftdown_left(_, _)
siftdown_left(h, pos) ==
  IF pos <= h.end \div 2 /\ KeyAt(h, pos) > KeyAt(h, 2 * pos)
  THEN siftdown_left(Exchanged(h, pos, 2 * pos), 2 * pos)
  ELSE h

RECURSIVE COLORNWTheap_siftdown(_, _)
COLORNWTheap_siftdown(h, pos) ==
  LET left == 2 * pos
      minc == IF KeyAt(h, left) > KeyAt(h, left + 1) THEN left + 1 ELSE left
  IN  IF pos <= h.end \div 2 /\ KeyAt(h, pos) > KeyAt(h, minc)
      THEN COLORNWTheap_siftdown(Exchanged(h, pos, minc), minc)
      ELSE h

\* The reference of the new element is returned as h.end, which is right as
\* long as nothing was taken out since the reset.
COLORNWTheap_insert(h, k, o) ==
  LET last == h.end + 1
  IN  COLORNWTheap_liftup([h EXCEPT !.end = last, !.key[h.perm[last]] = k,
                                    !.obj = Append(@, o)], last)

COLORNWTheap_relabel(h, href, k) ==
  LET pos    == iperm(h, href)
      marked == [h EXCEPT !.key[href] = k]
      lifted == COLORNWTheap_liftup(marked, pos)
  IN  IF lifted # marked THEN lifted ELSE COLORNWTheap_siftdown(marked, pos)

COLORNWTheap_decrease_key(h, href, k) ==
  COLORNWTheap_liftup([h EXCEPT !.key[href] = k], iperm(h, href))

COLORNWTheap_remove(h, href) ==
  LET pos  == iperm(h, href)
      gone == [h EXCEPT !.key[href] = COLORNWT_MAX]
      last == h.perm[h.end]
      rest == IF pos < h.end
              THEN COLORNWTheap_relabel(Exchanged(gone, pos, h.end), last, h.key[last])
              ELSE gone
  IN  [rest EXCEPT !.end = @ - 1]

\* COLORNWTheap_min returns the object at the top and takes it out.
Top(h) == h.obj[h.perm[1]]
COLORNWTheap_min(h) ==
  LET swapped == Exchanged(h, 1, h.end)
  IN  COLORNWTheap_siftdown([swapped EXCEPT !.key[h.perm[1]] = COLORNWT_MAX,
                                            !.end = @ - 1], 1)

\* What COLORNWTheap_integrity checks: no element is smaller than its parent.
InHeapOrder(h) == \A i \in 2 .. h.end : KeyAt(h, i \div 2) <= KeyAt(h, i)
=============================================================================
