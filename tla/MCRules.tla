------------------------------- MODULE MCRules ------------------------------
(***************************************************************************)
(* The rules a transaction is held to: the values and the UTXO set of a    *)
(* block (TxRules), the set with its state root (UtxoSet), the scripts     *)
(* (Script) and the arithmetic they use (WideInt).  A behaviour is of one  *)
(* of them.                                                                *)
(***************************************************************************)
EXTENDS Script, TxRules, UtxoSet

VARIABLES part,    \* the component that moves
          operand  \* a number of the full width

\* Half of the outputs have the one script, half the other.
MCSetScript == [op \in SetOutPoint |-> IF op \in {0, 4, 12} THEN "s" ELSE "t"]
MCSetValue == [op \in SetOutPoint |-> op + 1]

MCLeaves == {<<"iden">>, <<"witness">>, <<"const", List(<<U64(1), U64(2)>>)>>, <<"jet", "Add64">>}
MCInputs == {Pair(List(<<U64(1), U64(2)>>), U64(1)), Left(Pair(U64(1), Bytes(<<0, 1>>)))}
MCWitness == {U64(1), Bool(TRUE)}
MCContext ==
  BuildScriptContext(<<[tx |-> 0, index |-> 0, value |-> 1, script |-> 0]>>,
                     <<[value |-> 1, script |-> 0, datum |-> {}],
                       [value |-> 2, script |-> 1, datum |-> {3}]>>, 1, <<0>>)

vars == <<part, operand, txVars, uset, scriptVars>>

Init ==
  /\ part \in {"blocks", "set", "script", "arithmetic"} /\ operand = 0
  /\ TxInit /\ SetInit /\ ScriptInit

Blocks == part = "blocks" /\ TxNext /\ UNCHANGED <<part, operand, uset, scriptVars>>
Set == part = "set" /\ SetNext /\ UNCHANGED <<part, operand, txVars, scriptVars>>
Scripts == part = "script" /\ ScriptNext /\ UNCHANGED <<part, operand, txVars, uset>>
Count == part = "arithmetic" /\ operand < WideMax /\ operand' = operand + 1
         /\ UNCHANGED <<part, txVars, uset, scriptVars>>

Next == Blocks \/ Set \/ Scripts \/ Count

Spec == Init /\ [][Next]_vars

\* The limb arithmetic of the difficulty and of the 256-bit jets is exact, or
\* fails exactly when the result is not a number of the width, for every pair
\* of numbers (WideExact).
ArithmeticExact == part = "arithmetic" => \A b \in 0..WideMax : WideExact(operand, b)
=============================================================================
