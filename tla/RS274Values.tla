---------------------------- MODULE RS274Values ----------------------------
(***************************************************************************)
(* The Python values a caller passes to the directives of rs274.py, and    *)
(* the run-time type tests and comparisons the directives apply to them.   *)
(*                                                                         *)
(* A value is a record [t |-> type, n |-> number].  Only the type and an   *)
(* integer magnitude matter to the validation code, so a float is kept     *)
(* with an integral magnitude and NaN is a type of its own.  Python's bool *)
(* is a subclass of int (True == 1), which the type tests below keep.      *)
(***************************************************************************)
EXTENDS Integers

PyTypes == {"int", "bool", "float", "nan", "str", "none"}

PyValue == [t : PyTypes, n : Int]

PyInt(k)   == [t |-> "int",   n |-> k]
PyBool(b)  == [t |-> "bool",  n |-> IF b THEN 1 ELSE 0]
PyFloat(k) == [t |-> "float", n |-> k]
PyNaN      == [t |-> "nan",   n |-> 0]
PyStr      == [t |-> "str",   n |-> 0]
PyNone     == [t |-> "none",  n |-> 0]

\* isinstance(v, int): True and False pass it.
IsInt(v) == v.t \in {"int", "bool"}

\* isinstance(v, (int, float)): NaN is a float.
IsNumber(v) == v.t \in {"int", "bool", "float", "nan"}

\* isinstance(v, bool)
IsBool(v) == v.t = "bool"

\* v is None
IsNone(v) == v.t = "none"

\* v < k and v <= k for a number v: every comparison with NaN is False.
PyLess(v, k)   == v.t # "nan" /\ v.n < k
PyLessEq(v, k) == v.t # "nan" /\ v.n <= k

\* v == k for a number v.
PyEqual(v, k) == v.t # "nan" /\ v.n = k

=============================================================================
