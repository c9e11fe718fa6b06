------------------------------ MODULE L2Mirror ------------------------------
(***************************************************************************)
(* What a book builder promises the bus (spec 4.2 step 6, spec 5): the     *)
(* venue's book goes through a history of versions, and the builder       *)
(* publishes, one after the other, the view of some version it has seen,  *)
(* at ids that strictly increase.  No version is published twice, none    *)
(* out of order, and none that the venue did not have.                     *)
(***************************************************************************)
EXTENDS Naturals, Sequences

CONSTANTS
  Book,     \* the venue's possible books
  View(_)   \* what a BookState shows of a book

VARIABLES
  top,       \* the id of the venue's current version
  hist,      \* hist[i]: the venue's book at version i
  published  \* the BookStates published so far, oldest first

mvars == <<top, hist, published>>

(* id is newer than every version published so far.                       *)
Newer(id) == published = <<>> \/ id > published[Len(published)].id

Init ==
  /\ top = 0
  /\ hist \in [{0} -> Book]
  /\ published = <<>>

(* The venue's book changes: a new version.                                *)
Change ==
  \E b \in Book :
    /\ top' = top + 1
    /\ hist' = [i \in 0 .. top + 1 |-> IF i = top + 1 THEN b ELSE hist[i]]
    /\ UNCHANGED published

(* The builder publishes the view of a version newer than the last one    *)
(* published.                                                              *)
Publish ==
  \E id \in 0 .. top :
    /\ Newer(id)
    /\ published' = Append(published, [id |-> id, view |-> View(hist[id])])
    /\ UNCHANGED <<top, hist>>

Next == Change \/ Publish

Spec == Init /\ [][Next]_mvars
=============================================================================
