-------------------------------- MODULE MCApp --------------------------------
(* A small instance of App for TLC.                                        *)
EXTENDS App

CONSTANTS Global, Dms, DbWrite     \* channels; a kind of tasks

(* All channels are ticked, or the one of direct messages.                 *)
MCChannels == {Global, Dms}
MCChoices  == {{Global, Dms}, {Dms}}

(* Database writes take turns.                                             *)
MCSlots == [k \in {DbWrite, General} |-> IF k = DbWrite THEN 1 ELSE 2]

MCSubPages == <<Game, Account>>
=============================================================================
