----------------------------- MODULE TorVersion -----------------------------
(***************************************************************************)
(* TorControl::torVersionAsNewAs (src/.../tor/TorControl.cpp 744-777).     *)
(*                                                                         *)
(* A version string is modelled by what ByteArray::split(".-") makes of    *)
(* it: a sequence of segments, each a natural number or the model value    *)
(* NonNumeric (a segment RsUtil::StringToInt refuses, e.g. "rc").          *)
(* The code walks both lists with iterators; dereferencing a list's end()  *)
(* is undefined behaviour and is returned as the outcome Undefined.        *)
(***************************************************************************)
EXTENDS Naturals, Sequences, SequencesExt

CONSTANTS
  NonNumeric,   \* a segment that is not a decimal integer
  Undefined     \* outcome of reading past the end of a std::list

\* The literal the orchestrator passes: torVersionAsNewAs("0.2.7").
AddOnionVersion == <<0, 2, 7>>

\* One round of the for(;;) loop at index i (lines 753-773), and the rest
\* of the loop by recursion.  Returns the set of outcomes the build can
\* produce: a single Boolean, or Undefined after an out-of-range deref.
RECURSIVE VersionLoop(_, _, _)
VersionLoop(split, matchSplit, i) ==
  IF i > Len(split) \/ i > Len(matchSplit)
    THEN {Undefined}
  ELSE LET currentVal == split[i]
           matchVal   == matchSplit[i]
       IN  IF currentVal = NonNumeric \/ matchVal = NonNumeric
             THEN {FALSE}
           ELSE IF currentVal > matchVal THEN {TRUE}
           ELSE IF currentVal < matchVal THEN {FALSE}
           ELSE IF i + 1 > Len(split) THEN {FALSE}
           ELSE VersionLoop(split, matchSplit, i + 1)

torVersionAsNewAs(version, match) == VersionLoop(version, match, 1)

\* What the orchestrator can observe from torVersionAsNewAs: an undefined
\* read yields garbage that parses or does not, so either Boolean.
VersionOutcomes(version, match) ==
  LET r == torVersionAsNewAs(version, match)
  IN  IF Undefined \in r THEN BOOLEAN ELSE r

(***************************************************************************)
(* Reference (spec 4.7 and the comment at line 775): compare numeric       *)
(* segments left to right over the length of match, the first difference  *)
(* decides, and versions equal up to the length of match are as new.  A    *)
(* missing segment counts as 0.  Defined for all-numeric versions only.    *)
(***************************************************************************)
Padded(v, n) == [i \in 1 .. n |-> IF i <= Len(v) THEN v[i] ELSE 0]

RECURSIVE AtLeast(_, _, _)
AtLeast(v, m, i) ==
  IF i > Len(m) THEN TRUE
  ELSE IF v[i] # m[i] THEN v[i] > m[i]
  ELSE AtLeast(v, m, i + 1)

ReferenceAsNewAs(version, match) ==
  AtLeast(Padded(version, Len(match)), match, 1)

Numeric(v) == \A i \in 1 .. Len(v) : v[i] # NonNumeric

=============================================================================
