---------------------------- MODULE RequestOutcome ----------------------------
(***************************************************************************)
(* What the forwarding path promises about the money of one request: it is *)
(* admitted once, ends once, is released without a charge only if no       *)
(* attempt was executed upstream and is charged only if one was.  A        *)
(* request about which neither is known stays open.                        *)
(***************************************************************************)
VARIABLES outcome,    \* "none", "open", "free" or "charged"
          executed    \* TRUE once the provider executed an attempt

outcomeVars == <<outcome, executed>>

Begin ==
    /\ outcome = "none" /\ outcome' = "open"
    /\ UNCHANGED executed

Execute ==
    /\ outcome = "open" /\ executed' = TRUE
    /\ UNCHANGED outcome

Release ==
    /\ outcome = "open" /\ ~executed
    /\ outcome' = "free" /\ UNCHANGED executed

Charge ==
    /\ outcome = "open" /\ executed
    /\ outcome' = "charged" /\ UNCHANGED executed

OutcomeInit == outcome = "none" /\ executed = FALSE
OutcomeNext == Begin \/ Execute \/ Release \/ Charge
OutcomeSpec == OutcomeInit /\ [][OutcomeNext]_outcomeVars
=============================================================================
