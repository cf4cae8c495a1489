------------------------------ MODULE PageUser ------------------------------
(***************************************************************************)
(* The person at the web page of static/index.html, and their network. A    *)
(* handler of the page runs until it awaits an answer; everything else may  *)
(* happen before it goes on. A patient person lets a click take effect      *)
(* before the next one, and a good network answers calls and keeps their    *)
(* order: what happens otherwise is a slip.                                 *)
(***************************************************************************)
EXTENDS Naturals

CONSTANTS
    MaxInputs,  \* bound on what the person types and clicks
    MaxSlips    \* bound on the slips

ASSUME UserAssumption == MaxInputs \in Nat /\ MaxSlips \in Nat

VARIABLES
    inputs,     \* what was typed and clicked so far; also numbers the texts
    slips       \* slips so far

user == <<inputs, slips>>

UserInit == inputs = 0 /\ slips = 0

Input == inputs < MaxInputs /\ inputs' = inputs + 1

\* A step that is a slip if careless holds.
SlipIf(careless) ==
    IF careless THEN slips < MaxSlips /\ slips' = slips + 1 ELSE UNCHANGED slips
=============================================================================
