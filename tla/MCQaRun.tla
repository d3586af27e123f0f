------------------------------- MODULE MCQaRun ------------------------------
(***************************************************************************)
(* What a QA run works with, for TLC: the channel to the game and to       *)
(* Orchestration (QaChannel), against a peer that correlates its answers;  *)
(* the calls of one agent behind the phase cycle (CaseTools); the macros   *)
(* of several runs (MacroBook); the screen the model has before it         *)
(* (ContextFold on PulseMemory); and what runs inside the game meanwhile   *)
(* (GameFunctions).  Each is explored by itself: in a behaviour one of     *)
(* them moves.                                                             *)
(***************************************************************************)
EXTENDS QaChannel, CaseTools, MacroBook, ContextFold, GameFunctions

VARIABLE part

\* a case that forbids nothing, and one that forbids everything
MCCaseAt == <<"c", "d">>
MCPermission == [c |-> {"all"}, d |-> {}]

RunInit ==
    /\ part \in {"channel", "cases", "book", "screen", "functions"}
    /\ Init /\ CaseInit /\ BookInit /\ ScreenInit /\ FunctionsInit
    /\ part # "cases" => cycle.mode = "lite"

RunNext ==
    /\ UNCHANGED part
    /\ \/ part = "channel" /\ Next /\ UNCHANGED <<caseVars, bookVars, screenVars, functionVars>>
       \/ part = "cases" /\ CaseNext /\ UNCHANGED <<vars, bookVars, screenVars, functionVars>>
       \/ part = "book" /\ BookNext /\ UNCHANGED <<vars, caseVars, screenVars, functionVars>>
       \/ part = "screen" /\ ScreenNext /\ UNCHANGED <<vars, caseVars, bookVars, functionVars>>
       \/ part = "functions" /\ FunctionsNext /\ UNCHANGED <<vars, caseVars, bookVars, screenVars>>

RunSpec == RunInit /\ [][RunNext]_<<part, vars, caseVars, bookVars, screenVars, functionVars>>

MCSymmetry == Permutations(Cases)
=============================================================================
