--------------------------- MODULE SnapshotFormat ---------------------------
(***************************************************************************)
(* The decision rules of src/src/storage/format.rs: what a root record      *)
(* says, when one record is the legal successor of another, and which       *)
(* record two root copies and the WAL fence authorize.                      *)
(*                                                                          *)
(* A record (WalRecord, or a Root without its replica letter) is the triple *)
(*    issued  highest attempt number ever issued                            *)
(*    gen     number of successful publications (0: Catalog(None))          *)
(*    seq     attempt that published generation gen (0: none)               *)
(* The object references of a CatalogCommit are not kept: they name the     *)
(* catalog and history objects of attempt seq, so equal triples of one      *)
(* database are equal records.  The database identity is fixed.             *)
(***************************************************************************)
EXTENDS Naturals

CONSTANT Unreadable   \* a root or fence that decodes to None: absent or damaged

Record == [issued : Nat, gen : Nat, seq : Nat]

ASSUME UnreadableAssumption == Unreadable \notin Record

EmptyRecord == [issued |-> 0, gen |-> 0, seq |-> 0]

Replica == {"A", "B"}

OtherReplica(x) == IF x = "A" THEN "B" ELSE "A"

-----------------------------------------------------------------------------
(* WalRecord::transition_from: the two kinds of publication.               *)

Issuance(new, old) ==
  /\ new.issued = old.issued + 1
  /\ new.gen = old.gen
  /\ new.seq = old.seq

Commit(new, old) ==
  /\ new.issued = old.issued
  /\ new.gen = old.gen + 1
  /\ new.seq = new.issued
  /\ old.seq < new.issued

Succeeds(new, old) == Issuance(new, old) \/ Commit(new, old)

-----------------------------------------------------------------------------
(* select_snapshot, as a relation: Selects(a, b, f, r) holds when roots a   *)
(* and b and fence f authorize record r.  Nothing is authorized when no r   *)
(* satisfies it, which is the function's Err.                               *)

\* A lone root counts only when an intact fence confirms it exactly.
Confirmed(one, other, f, r) == one = r /\ other = Unreadable /\ f = r

RootsName(a, b, f, r) ==
  \/ a = r /\ b = r
  \/ a = r /\ b # Unreadable /\ Succeeds(r, b)
  \/ b = r /\ a # Unreadable /\ Succeeds(r, a)
  \/ Confirmed(a, b, f, r)
  \/ Confirmed(b, a, f, r)

\* An intact fence equals the selected record or is one step ahead of it.
FenceAllows(f, r) ==
  f # Unreadable => f = r \/ Succeeds(f, r)

Selects(a, b, f, r) ==
  /\ r # Unreadable
  /\ RootsName(a, b, f, r)
  /\ FenceAllows(f, r)

\* The replica select_snapshot returns as needing repair.
Repairs(a, b, r) == {x \in Replica : (IF x = "A" THEN a ELSE b) # r}
=============================================================================
