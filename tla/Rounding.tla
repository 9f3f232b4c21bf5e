------------------------------ MODULE Rounding ------------------------------
(***************************************************************************)
(* The two ways in which the backend brings a coordinate to five decimals: *)
(* round(x, 5), which fire_data_validation.py identifies detections by and *)
(* incident_clustering.py rounds corners with, and the format :.5f of the  *)
(* fingerprints in an incident's ID.  Coordinates are whole numbers of a   *)
(* grid that is finer than the fifth decimal, as the floats of the code    *)
(* are; both ways round them to the nearest decimal, halves to the even    *)
(* one.                                                                    *)
(***************************************************************************)
EXTENDS Integers

CONSTANT FiveDecimals   \* 0.00001 degrees, in steps of the grid

ASSUME RoundingAssumption == FiveDecimals \in Nat \ {0}

\* A number without a sign, in units
Nearest(n, unit) ==
    LET below == n \div unit
        twice == 2 * (n % unit)
    IN  IF twice > unit \/ (twice = unit /\ below % 2 = 1) THEN below + 1 ELSE below

Magnitude(x) == IF x < 0 THEN -x ELSE x

\* round: the results -0.0 and 0.0 are equal numbers.
Rounded(x, unit) ==
    IF x < 0 THEN -Nearest(Magnitude(x), unit) ELSE Nearest(Magnitude(x), unit)

\* The format keeps the sign of what it rounds to zero: "-0.00000" is another
\* text than "0.00000".
Fixed(x, unit) == [negative |-> x < 0, digits |-> Nearest(Magnitude(x), unit)]
=============================================================================
