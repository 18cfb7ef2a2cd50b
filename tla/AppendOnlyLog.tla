---------------------------- MODULE AppendOnlyLog ----------------------------
(***************************************************************************)
(* What the evidence vault promises its clients, with no word about how:   *)
(* evidence is submitted once, and every submitted item is appended once   *)
(* to a log whose existing entries never move.  The leaf index of an item  *)
(* is its (zero-based) position in the log.                                *)
(***************************************************************************)
EXTENDS Naturals, Sequences

CONSTANT Ids        \* identifiers of evidence records

VARIABLES submitted,   \* the evidence the vault has accepted
          log          \* the evidence that has a leaf, in leaf order

absVars == <<submitted, log>>

AInit == submitted = {} /\ log = <<>>

\* A client's evidence is accepted under a fresh identifier.
Submit(id) ==
  /\ id \notin submitted
  /\ submitted' = submitted \cup {id}
  /\ UNCHANGED log

\* One accepted record becomes the next leaf.
AppendLeaf(id) ==
  /\ id \in submitted
  /\ \A i \in DOMAIN log : log[i] # id
  /\ log' = Append(log, id)
  /\ UNCHANGED submitted

ANext == \E id \in Ids : Submit(id) \/ AppendLeaf(id)

ASpec == AInit /\ [][ANext]_absVars
=============================================================================
