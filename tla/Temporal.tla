------------------------------ MODULE Temporal ------------------------------
(***************************************************************************)
(* Availability at a cutoff (quant_data.temporal).  A temporal value has a  *)
(* precision.  A date is a calendar day.  A datetime has an offset: it is   *)
(* an instant, and the day it is written with, which an offset may put on   *)
(* either side of the day of the instant.                                   *)
(***************************************************************************)
EXTENDS Integers

Precision == {"date", "datetime", "inferred", "unknown"}
Policy == {"completed_date", "calendar_date_inclusive"}

(* day is the written calendar day; instant orders datetimes only.         *)
Temporal == [precision : Precision, day : Int, instant : Int]

OnDay(d) == [precision |-> "date", day |-> d, instant |-> 0]
AtInstant(d, i) == [precision |-> "datetime", day |-> d, instant |-> i]

Exact(a) == a.precision \in {"date", "datetime"}

(* A cutoff is exact, and so is an availability that a fixture row states. *)
Cutoff == {c \in Temporal : Exact(c)}

-----------------------------------------------------------------------------
(* Two instants are compared as instants, whatever their offsets.          *)
IncludedByInstant(a, c) == a.instant <= c.instant

(* With a date on either side written days are compared.  Of a date and a  *)
(* timestamp cutoff of that date nobody knows which came first: the date   *)
(* must be over, unless the caller asks for the calendar date.             *)
IncludedByDay(a, c, policy) ==
  IF a.precision = "date" /\ c.precision = "datetime" /\ policy = "completed_date"
  THEN a.day < c.day
  ELSE a.day <= c.day

(* availability_at_or_before: inferred and unknown availability fail closed*)
Included(a, c, policy) ==
  /\ Exact(a)
  /\ IF a.precision = "datetime" /\ c.precision = "datetime"
     THEN IncludedByInstant(a, c)
     ELSE IncludedByDay(a, c, policy)
=============================================================================
