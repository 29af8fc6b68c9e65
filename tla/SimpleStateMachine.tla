------------------------- MODULE SimpleStateMachine -------------------------
(***************************************************************************)
(* The table-driven machine of src/src/state/simple_state_machine.cpp.     *)
(* A table maps a state and an input to the next state.  The entry         *)
(* kInvalidSimpleState (-1 in the code) is the only one switch_state       *)
(* refuses; any other entry becomes the current state.                     *)
(***************************************************************************)

kInvalidSimpleState == "-1"

\* Faulty variant of refused: the entry is not compared with -1.
refused_never(table, cur, ev) == FALSE

\* The input is refused and the machine keeps its state.
refused(table, cur, ev) ==
    cur \in DOMAIN table /\ table[cur][ev] = kInvalidSimpleState

\* The states the machine can be in after the input.  A current state that
\* is no row of the table is read past the end of the vector: what comes
\* out is any member of `any'.
switch_state(table, any, cur, ev) ==
    IF cur \notin DOMAIN table THEN any
    ELSE IF table[cur][ev] = kInvalidSimpleState THEN {cur}
    ELSE {table[cur][ev]}
=============================================================================
