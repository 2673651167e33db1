-------------------------- MODULE MCExceptionHandler --------------------------
(* Faults for TLC: two that begin alike, one of them longer than there is room
   for; one that cannot be resumed; one thrown with another type; and one that
   is passed on. *)
EXTENDS ExceptionHandler, TLC

CONSTANTS script, render, long, short, fatal, thrown, breakpoint

MCStack == long :> <<1, 2, 3, 4>> @@ short :> <<1, 2>> @@ fatal :> <<5>>
             @@ thrown :> <<1>> @@ breakpoint :> <<>>

MCInstruction == long :> "other" @@ short :> "jump" @@ fatal :> "unreadable"
                   @@ thrown :> "undecodable" @@ breakpoint :> "other"
==============================================================================
