------------------------ MODULE MCTerminalProjection ------------------------
(* A free request, a charged one, one whose charge is not displayed (a      *)
(* failure without provider-reported usage) and one charged without tokens. *)
EXTENDS TerminalProjection

MCUsages == {[cost |-> 0, shown |-> 0, empty |-> TRUE],
             [cost |-> 2, shown |-> 2, empty |-> FALSE],
             [cost |-> 1, shown |-> 0, empty |-> FALSE],
             [cost |-> 3, shown |-> 3, empty |-> TRUE]}
=============================================================================
