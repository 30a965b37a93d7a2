----------------------------- MODULE MCDispatch -----------------------------
EXTENDS Dispatch, TLC

CONSTANTS a, b

(* Separators and digits next to each other, but no separator before       *)
(* digits, and white space at the end.                                     *)
SeparatorsAndSpace ==
    <<<<<<"digits">>, <<"sep">>>>, <<<<"text">>, <<"space">>>>>>

(* A polling session with two namespaces has ten times as many states.     *)
Browser ==
    ({"websocket"} \X {{a}, {b}, {a, b}}) \cup ({"polling"} \X {{a}, {b}})

=============================================================================
