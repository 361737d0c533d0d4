-------------------------- MODULE MCBundleResolver --------------------------
(* Instances of BundleResolver for TLC. *)
EXTENDS BundleResolver, TLC

CONSTANTS b1, b2, b3, fb, un, l1, l2, lr, s1, sr, lx, r1, r2, v1, v2

(* A version gives its name to its ref, its path and its first content;    *)
(* lx is any other content.                                                *)
Versions == {l1, l2, lr, s1, sr}
Contents == Versions \cup {lx}
First    == [v \in Versions |-> v]
Majors   == l1 :> 1 @@ l2 :> 2 @@ lr :> 0 @@ s1 :> None @@ sr :> None

Part(r, f, h) == [ref |-> r, path |-> f, sha256 |-> h]
Whole(v) == Part(v, v, v)

ReservedL == Whole(lr)
ReservedS == Whole(sr)

Shape(n, op, l, s, r) ==
  [claims |-> n, operative |-> op, lic |-> l, sched |-> s, review |-> r]

Policy(m, n, j, d) == [mode |-> m, bundle |-> n, major |-> j, allowDraft |-> d]

(* The release gate: one manifest of each kind the checks tell apart, then *)
(* every way to borrow from the fallback: a whole component, in its slot   *)
(* or in the other, a file under another ref, a ref alone, the bytes alone *)
(* once another file holds them, a path alone once its bytes are others.   *)
GateShapes ==
  { Shape(b1, TRUE, Whole(l1), Whole(s1), r1),     \* operative, reviewed or not
    Shape(b1, TRUE, Whole(l2), Whole(s1), r1),     \* the same review, another License
    Shape(b1, TRUE, Whole(l1), Whole(s1), None),   \* operative without a review
    Shape(fb, FALSE, Whole(lr), Whole(sr), None),  \* the registered fallback
    Shape(fb, FALSE, Whole(l1), Whole(sr), None),  \* the fallback altered
    Shape(un, FALSE, Whole(lr), Whole(sr), None) } \* an unregistered fallback

BorrowingShapes ==
  { Shape(b1, FALSE, Whole(l1), Whole(sr), None),
    Shape(b1, FALSE, Whole(l1), Whole(lr), None),
    Shape(b1, FALSE, Part(l1, sr, sr), Whole(s1), None),
    Shape(b1, FALSE, Part(lr, l1, l1), Whole(s1), None),
    Shape(b1, TRUE, Part(l1, l1, lr), Whole(s1), r1),
    Shape(b1, FALSE, Whole(l1), Part(s1, sr, s1), None) }

AllRewrites == {<<l1, lr>>, <<s1, lx>>, <<sr, s1>>}

(* Beside them, drafts of two MAJORs for a channel to move between, and a  *)
(* policy of every mode.                                                   *)
ChannelShapes ==
  { Shape(b1, TRUE, Whole(l1), Whole(s1), r1),
    Shape(b2, FALSE, Whole(l2), Whole(s1), None),
    Shape(b3, FALSE, Whole(l1), Whole(s1), None) }

AllShapes == GateShapes \cup BorrowingShapes \cup ChannelShapes

AllPolicies ==
  { Policy("pinned", b1, None, TRUE),
    Policy("pinned", b3, None, FALSE),
    Policy("follow-stable", b1, 1, TRUE),
    Policy("latest-stable", b1, None, FALSE),
    Policy("latest-stable", b1, None, TRUE) }

(* Either one bundle of any kind in a tree whose files are edited, or      *)
(* several bundles of the channel in a tree left as it is.                 *)
Bounded ==
  LET published == {n \in Names : manifest[n] # None}
      Kind(m) == Shape(m.claims, m.operative, m.lic, m.sched, m.review)
  IN  IF policy = Policy("latest-stable", b1, None, TRUE) THEN Cardinality(published) <= 1
      ELSE /\ edits = 0 /\ canonical = v1 /\ \A r \in Reviews : inputs[r] # v2
           /\ {Kind(manifest[n]) : n \in published} \subseteq ChannelShapes

(* latest-stable alone and two reviewed bundles of different MAJOR. *)
MajorShapes   == { Shape(b1, TRUE, Whole(l1), Whole(s1), r1),
                   Shape(b2, TRUE, Whole(l2), Whole(s1), r2) }
MajorPolicies == { Policy("latest-stable", b1, None, FALSE) }

=============================================================================
