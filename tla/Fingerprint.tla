----------------------------- MODULE Fingerprint -----------------------------
(***************************************************************************)
(* The nearest-room classifier of room_fingerprint.                        *)
(*                                                                         *)
(* A spot is what a device reports: the display name of the eero node it   *)
(* is on, its location (each stands in for the other where one is unset),  *)
(* and a coarse signal bucket from 1 to 5, or 0 where eero tells no        *)
(* signal.  A print is what calibration keeps of a person in a room: the   *)
(* device and the samples, each a node's name and a bucket.  Names stand   *)
(* for _node_key of them.                                                  *)
(***************************************************************************)
EXTENDS Integers, FiniteSets

BucketSpan == 4         \* BUCKET_SPAN
Floor == 4              \* CONFIDENCE_FLOOR, in eighths

Spot(Names) == [node : Names, zone : Names, bucket : 0..5]

-----------------------------------------------------------------------------
\* Variant for the checks: a sample stored under the location does not match.
OnNode_NameOnly(print, spot) == { s \in print.samples : s.node = spot.node }

\* The samples of a print that were taken on the node of the reading: stored under its
\* name or under its location.
OnNode(print, spot) == { s \in print.samples : s.node \in {spot.node, spot.zone} }

BucketsOf(print, spot) == { s.bucket : s \in OnNode(print, spot) } \ {0}

Away(a, b) == IF a > b THEN a - b ELSE b - a

Measured(print, spot) == spot.bucket # 0 /\ BucketsOf(print, spot) # {}

Least(S) == CHOOSE n \in S : \A m \in S : n <= m

\* A print without a bucket to compare with is as near as can be.
Distance(print, spot) ==
    IF Measured(print, spot) THEN Least({ Away(b, spot.bucket) : b \in BucketsOf(print, spot) })
    ELSE 0

\* In eighths: 1 - dist / BUCKET_SPAN, halved by a rival that is at most one bucket
\* farther away; one half where nothing is measured.
Confidence(dist, measured, rival) ==
    IF ~measured THEN Floor
    ELSE IF rival THEN BucketSpan - dist
    ELSE 2 * (BucketSpan - dist)

\* prints: the usable prints by person and room.
Classified(prints, spot) ==
    LET ranked == { k \in DOMAIN prints : OnNode(prints[k], spot) # {} }
        dist(k) == Distance(prints[k], spot)
        best == Least({ dist(k) : k \in ranked })
        winners == { k \in ranked : dist(k) = best }
        rooms == { k.room : k \in winners }
        measured == \E k \in winners : Measured(prints[k], spot)
        rival == \E k \in ranked : k.room \notin rooms /\ dist(k) - best <= 1
    IN  IF ranked = {} \/ Cardinality(rooms) # 1 \/ Confidence(best, measured, rival) < Floor
        THEN "unknown"
        ELSE CHOOSE room \in rooms : TRUE
=============================================================================
