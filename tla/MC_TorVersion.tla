--------------------------- MODULE MC_TorVersion ---------------------------
(* Bounded check of torVersionAsNewAs over every version with at most     *)
(* MaxSegments segments drawn from SegmentValues and NonNumeric.           *)
EXTENDS TorVersion

CONSTANTS
  SegmentValues, \* numeric segments enumerated
  MaxSegments    \* longest version enumerated

ASSUME SegmentValues \subseteq Nat /\ MaxSegments \in Nat \ {0}

Segments == SegmentValues \cup {NonNumeric}

Versions == UNION { [1 .. n -> Segments] : n \in 1 .. MaxSegments }

VARIABLE version

Init == version \in Versions
Next == \E v \in Versions : version' = v
Spec == Init /\ [][Next]_version

\* torVersionAsNewAs("0.2.7") decides ADD_ONION versus SETCONF as spec 4.5
\* says: exactly the numeric versions >= 0.2.7, with a defined result.
AgreesWithReference ==
  Numeric(version)
    => torVersionAsNewAs(version, AddOnionVersion)
         = {ReferenceAsNewAs(version, AddOnionVersion)}
=============================================================================
