---------------------------- MODULE PythonValues -----------------------------
(***************************************************************************)
(* The Python values that events are made of: a pair of a type and a       *)
(* content.  Of a string the code can tell whether it is empty, whether it *)
(* is blank, and whether it can be encoded; numbers are compared.          *)
(***************************************************************************)
EXTENDS Integers, TLC

Str(s)     == <<"str", s>>
Num(n)     == <<"int", n>>
Bool(b)    == <<"bool", IF b THEN 1 ELSE 0>>   (* True == 1 *)
None       == <<"None", "">>
Unhashable == <<"list", "">>                   (* a list or dict *)
Empty      == Str("")
Blank      == Str(" ")
Surrogate  == Str("lone surrogate")            (* has no UTF-8 encoding *)

IsStr(v) == v[1] = "str"
IsNum(v) == v[1] = "int"

(* What str(v).strip() comes to, as far as it is compared.                 *)
Text(v) ==
  CASE v \in {Empty, Blank} -> Empty
    [] v = None             -> Str("None")
    [] v = Unhashable       -> Str("[]")
    [] v[1] = "bool"        -> Str(IF v[2] = 1 THEN "True" ELSE "False")
    [] v[1] = "int"         -> Str(ToString(v[2]))
    [] OTHER                -> v

=============================================================================
