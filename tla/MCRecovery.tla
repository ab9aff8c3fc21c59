----------------------------- MODULE MCRecovery -----------------------------
(***************************************************************************)
(* Recovery for TLC: some of the types that survive every way through the  *)
(* log and the state file, and some that do not.                           *)
(***************************************************************************)
EXTENDS Recovery

Of(c, m) == [class |-> c, of |-> m]
Some  == {Of("struct", "int"), Of("struct", "[]string")}
Lists == {Of("slice", "string")}
Plain == {Scalar("int"), Scalar("bytes")}
Text  == {Scalar("string")}

AllFaults == {"fails", "powerCut"}

=============================================================================
