--------------------------- MODULE MCFileReceiver ---------------------------
(***************************************************************************)
(* FileReceiver and FileReceiver8266 on a small instance: an image of      *)
(* three chunks (a full increment and a short one), one of two chunks, and *)
(* a file that is not an ESP image.                                        *)
(***************************************************************************)
EXTENDS FileReceiver8266

CONSTANTS fA, fB, fText

MCFiles     == {fA, fB, fText}
MCImages    == {fA, fB}
MCNumChunks == [f \in MCFiles |-> IF f = fA THEN 3 ELSE IF f = fB THEN 2 ELSE 1]

\* The leaf runs the build for the ESP8266.
VARIABLE esp8266

NextOfBuild ==
    \/ ~esp8266 /\ Next
    \/ esp8266 /\ Next8266

InitOfBuild == Init /\ esp8266 \in BOOLEAN

SpecOfBuild ==
    /\ InitOfBuild
    /\ [][NextOfBuild /\ UNCHANGED esp8266]_<<rxVars, esp8266>>
=============================================================================
